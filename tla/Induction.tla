----------------------------- MODULE Induction -----------------------------
(***************************************************************************)
(* Induction over the naturals for sets, in the form the proofs about the  *)
(* operators of this project use: a set of naturals with 0 and with the    *)
(* successors of its members is all of Nat.  With it, what FlattenSeq puts *)
(* together.                                                               *)
(***************************************************************************)
EXTENDS Integers, SequencesExt, FiniteSetTheorems, SequenceTheorems, NaturalsInduction, WellFoundedInduction, TLAPS

(* A set of naturals that is not empty has a least member. *)
LEMMA LeastNatural ==
  ASSUME NEW T, T \subseteq Nat, T # {}
  PROVE  \E n \in T : \A m \in T : n <= m
<1>1. IsWellFoundedOn(OpToRel(<, Nat), Nat)
  BY NatLessThanWellFounded
<1>2. PICK n \in T : \A m \in T : ~ (<<m, n>> \in OpToRel(<, Nat))
  BY <1>1, WFMin
<1>3. \A m \in T : ~ (m < n)
  BY <1>2 DEF OpToRel
<1>4. \A m \in T : m \in Nat /\ n \in Nat
  OBVIOUS
<1> QED
  BY <1>3, <1>4

(* Induction: a set of naturals with 0 and all successors is Nat. *)
LEMMA SetInduction ==
  ASSUME NEW T, T \subseteq Nat, 0 \in T, \A n \in T : n + 1 \in T
  PROVE  T = Nat
<1> SUFFICES ASSUME Nat \ T # {} PROVE FALSE
  OBVIOUS
<1>1. PICK n \in Nat \ T : \A m \in Nat \ T : n <= m
  BY LeastNatural
<1>2. n # 0
  OBVIOUS
<1>3. n - 1 \in T
  BY <1>1, <1>2
<1> QED
  BY <1>3

(* A finite set of naturals that is not empty has a greatest member. *)
LEMMA GreatestNatural ==
  ASSUME NEW S, S \subseteq Nat, IsFiniteSet(S), S # {}
  PROVE  \E n \in S : \A m \in S : m <= n
<1> DEFINE P(A) == \E n \in A : \A m \in A : m <= n
           T == {n \in Nat : \A A \in SUBSET S :
                   Cardinality(A) = n /\ A # {} => P(A)}
<1>0. \A A \in SUBSET S : IsFiniteSet(A) /\ Cardinality(A) \in Nat
  BY FS_Subset, FS_CardinalityType
<1>1. 0 \in T
  BY <1>0, FS_EmptySet
<1>2. ASSUME NEW n \in T
      PROVE  n + 1 \in T
  <2> SUFFICES ASSUME NEW A \in SUBSET S, Cardinality(A) = n + 1, A # {}
               PROVE  P(A)
    OBVIOUS
  <2>1. PICK a \in A : TRUE
    OBVIOUS
  <2>2. Cardinality(A \ {a}) = n /\ A \ {a} \in SUBSET S
    <3>1. n \in Nat /\ IsFiniteSet(A)
      BY <1>0
    <3>2. Cardinality(A \ {a}) = Cardinality(A) - 1
      BY <3>1, FS_RemoveElement
    <3> HIDE DEF T
    <3> QED
      BY <3>1, <3>2
  <2>3. CASE A \ {a} = {}
    BY <2>3
  <2>4. CASE A \ {a} # {}
    <3>1. PICK b \in A \ {a} : \A m \in A \ {a} : m <= b
      BY <2>2, <2>4
    <3>2. A \subseteq Nat
      OBVIOUS
    <3>3. CASE a <= b
      BY <3>1, <3>2, <3>3
    <3>4. CASE ~ (a <= b)
      BY <3>1, <3>2, <3>4
    <3> QED
      BY <3>3, <3>4
  <2> QED
    BY <2>3, <2>4
<1>3. T = Nat
  <2> HIDE DEF T
  <2>1. T \subseteq Nat
    BY DEF T
  <2> QED
    BY <1>1, <1>2, <2>1, SetInduction
<1>4. Cardinality(S) \in T
  BY <1>0, <1>3
<1> QED
  BY <1>4

(* The values of a function on a finite set are finitely many. *)
LEMMA FiniteValues ==
  ASSUME NEW f, NEW S, IsFiniteSet(S)
  PROVE  IsFiniteSet({f[x] : x \in S})
<1> DEFINE T == {f[x] : x \in S}
           h == [x \in S |-> f[x]]
<1>1. h \in Surjection(S, T)
  BY DEF Surjection
<1> HIDE DEF T, h
<1>2. IsFiniteSet(T)
  BY <1>1, FS_Surjection
<1> QED
  BY <1>2 DEF T

-----------------------------------------------------------------------------
(* The members of two sequences in one, each once if they share none. *)
LEMMA ConcatMembers ==
  ASSUME NEW S, NEW s \in Seq(S), NEW t \in Seq(S)
  PROVE  /\ s \o t \in Seq(S)
         /\ \A x : x \in ToSet(s \o t) <=> x \in ToSet(s) \/ x \in ToSet(t)
         /\ IsInjective(s) /\ IsInjective(t) /\ ToSet(s) \cap ToSet(t) = {} => IsInjective(s \o t)
<1> DEFINE a == Len(s)
           b == Len(t)
           u == s \o t
<1>1. /\ u \in Seq(S) /\ a \in Nat /\ b \in Nat
      /\ DOMAIN s = 1..a /\ DOMAIN t = 1..b /\ DOMAIN u = 1..(a + b)
      /\ \A i \in 1..a : u[i] = s[i]
      /\ \A i \in (a + 1)..(a + b) : u[i] = t[i - a] /\ i - a \in 1..b
  OBVIOUS
<1> HIDE DEF a, b, u
<1>2. \A i \in 1..(a + b) : i \in 1..a \/ i \in (a + 1)..(a + b)
  BY <1>1
<1>3. \A x : x \in ToSet(u) => x \in ToSet(s) \/ x \in ToSet(t)
  BY <1>1, <1>2 DEF ToSet
<1>4. \A x : x \in ToSet(s) => x \in ToSet(u)
  <2>1. \A i \in 1..a : i \in 1..(a + b)
    BY <1>1
  <2> QED
    BY <1>1, <2>1 DEF ToSet
<1>5. \A x : x \in ToSet(t) => x \in ToSet(u)
  <2>1. \A i \in 1..b : i + a \in 1..(a + b) /\ i + a \in (a + 1)..(a + b) /\ (i + a) - a = i
    BY <1>1
  <2>2. \A i \in 1..b : u[i + a] = t[i]
    BY <1>1, <2>1
  <2> SUFFICES ASSUME NEW x \in ToSet(t)
               PROVE  x \in ToSet(u)
    OBVIOUS
  <2>3. PICK i \in 1..b : x = t[i]
    BY <1>1 DEF ToSet
  <2>4. i + a \in DOMAIN u /\ x = u[i + a]
    BY <1>1, <2>1, <2>2, <2>3
  <2> QED
    BY <2>4 DEF ToSet
<1>6. ASSUME IsInjective(s), IsInjective(t), ToSet(s) \cap ToSet(t) = {},
             NEW i \in 1..(a + b), NEW j \in 1..(a + b), u[i] = u[j]
      PROVE  i = j
  <2>1. \A k \in 1..a : u[k] \in ToSet(s)
    BY <1>1 DEF ToSet
  <2>2. \A k \in (a + 1)..(a + b) : u[k] \in ToSet(t)
    BY <1>1 DEF ToSet
  <2>3. CASE i \in 1..a /\ j \in 1..a
    BY <1>1, <1>6, <2>3 DEF IsInjective
  <2>4. CASE i \in (a + 1)..(a + b) /\ j \in (a + 1)..(a + b)
    <3>1. t[i - a] = t[j - a] /\ i - a \in DOMAIN t /\ j - a \in DOMAIN t
      BY <1>1, <1>6, <2>4
    <3>2. i - a = j - a
      BY <1>6, <3>1 DEF IsInjective
    <3> QED
      BY <1>1, <3>2
  <2> QED
    BY <1>2, <1>6, <2>1, <2>2, <2>3, <2>4
<1>7. IsInjective(s) /\ IsInjective(t) /\ ToSet(s) \cap ToSet(t) = {} => IsInjective(u)
  BY <1>1, <1>6 DEF IsInjective
<1> QED
  BY <1>1, <1>3, <1>4, <1>5, <1>7 DEF u

(* f solves the equation of FlattenSeq up to n. *)
IsFlatten(seqs, n, f) ==
  f = [i \in 1..n |-> IF i = 1 THEN seqs[i] ELSE f[i - 1] \o seqs[i]]

LEMMA FlattenExists ==
  ASSUME NEW seqs, NEW n \in Nat
  PROVE  \E f : IsFlatten(seqs, n, f)
<1> DEFINE T == {m \in Nat : \E f : IsFlatten(seqs, m, f)}
<1>1. 0 \in T
  <2> DEFINE g == [i \in 1..0 |-> <<>>]
  <2>1. g = [i \in 1..0 |-> IF i = 1 THEN seqs[i] ELSE g[i - 1] \o seqs[i]]
    OBVIOUS
  <2> HIDE DEF g
  <2> QED
    BY <2>1 DEF IsFlatten
<1>2. ASSUME NEW m \in T
      PROVE  m + 1 \in T
  <2>1. PICK f : IsFlatten(seqs, m, f)
    OBVIOUS
  <2> DEFINE h(i, e) == IF i = 1 THEN seqs[i] ELSE e[i - 1] \o seqs[i]
             g == [i \in 1..(m + 1) |-> h(i, f)]
  <2>2. m \in Nat
    OBVIOUS
  <2>3. /\ \A i \in 1..m : f[i] = h(i, f)
    BY <2>1 DEF IsFlatten
  <2>4. \A i \in 1..(m + 1) : g[i] = h(i, f)
    OBVIOUS
  <2>5. \A i \in 1..(m + 1) : i # 1 => g[i - 1] = f[i - 1]
    <3> TAKE i \in 1..(m + 1)
    <3> HAVE i # 1
    <3>1. i - 1 \in 1..m /\ i - 1 \in 1..(m + 1)
      BY <2>2
    <3> HIDE DEF h, g
    <3> QED
      BY <2>3, <2>4, <3>1
  <2>6. \A i \in 1..(m + 1) : h(i, f) = h(i, g)
    <3> HIDE DEF g
    <3> QED
      BY <2>5
  <2>7. g = [i \in 1..(m + 1) |-> h(i, g)]
    <3> DEFINE e == [i \in 1..(m + 1) |-> h(i, g)]
    <3>1. DOMAIN g = 1..(m + 1) /\ DOMAIN e = 1..(m + 1) /\ g = [i \in DOMAIN g |-> g[i]]
      OBVIOUS
    <3>2. \A i \in 1..(m + 1) : e[i] = g[i]
      <4>1. \A i \in 1..(m + 1) : e[i] = h(i, g)
        OBVIOUS
      <4> HIDE DEF e, g, h
      <4> QED
        BY <2>4, <2>6, <4>1
    <3> HIDE DEF g, h
    <3> QED
      BY <3>1, <3>2
  <2>8. IsFlatten(seqs, m + 1, g)
    <3> HIDE DEF g
    <3> QED
      BY <2>7 DEF IsFlatten
  <2>9. m + 1 \in Nat
    BY <2>2
  <2> HIDE DEF g
  <2> QED
    BY <2>8, <2>9
<1> HIDE DEF T
<1>3. T = Nat
  <2>1. T \subseteq Nat
    BY DEF T
  <2> QED
    BY <1>1, <1>2, <2>1, SetInduction
<1> QED
  BY <1>3 DEF T

(* Sequences over S are put together to one over S with their members,     *)
(* each once if no two of them share one.                                  *)
LEMMA FlattenFacts ==
  ASSUME NEW S, NEW seqs \in Seq(Seq(S))
  PROVE  /\ FlattenSeq(seqs) \in Seq(S)
         /\ \A x : x \in ToSet(FlattenSeq(seqs)) <=> \E i \in 1..Len(seqs) : x \in ToSet(seqs[i])
         /\ /\ \A i \in 1..Len(seqs) : IsInjective(seqs[i])
            /\ \A i, j \in 1..Len(seqs) : i # j => ToSet(seqs[i]) \cap ToSet(seqs[j]) = {}
            => IsInjective(FlattenSeq(seqs))
<1> DEFINE n == Len(seqs)
           F == CHOOSE f : IsFlatten(seqs, n, f)
           Distinct == /\ \A i \in 1..n : IsInjective(seqs[i])
                       /\ \A i, j \in 1..n : i # j => ToSet(seqs[i]) \cap ToSet(seqs[j]) = {}
<1>1. n \in Nat /\ \A i \in 1..n : seqs[i] \in Seq(S)
  BY LenProperties, ElementOfSeq
<1>2. CASE n = 0
  <2>1. seqs = <<>>
    BY <1>2, EmptySeq
  <2>2. FlattenSeq(seqs) = seqs
    BY <1>2 DEF FlattenSeq
  <2>3. <<>> \in Seq(S) /\ DOMAIN <<>> = {} /\ 1..n = {}
    BY <1>2
  <2>4. FlattenSeq(seqs) = <<>>
    BY <2>1, <2>2, Zenon
  <2>5. ToSet(<<>>) = {} /\ IsInjective(<<>>)
    BY <2>3 DEF ToSet, IsInjective
  <2> QED
    BY <2>3, <2>4, <2>5, Zenon
<1>3. CASE n # 0
  <2>1. FlattenSeq(seqs) = F[n]
    BY <1>3 DEF FlattenSeq, IsFlatten
  <2>2. IsFlatten(seqs, n, F)
    BY <1>1, FlattenExists
  <2> HIDE DEF F, n
  <2>3. \A i \in 1..n : F[i] = IF i = 1 THEN seqs[i] ELSE F[i - 1] \o seqs[i]
    BY <2>2 DEF IsFlatten
  <2> DEFINE Members(m) == \A x : x \in ToSet(F[m]) <=> \E i \in 1..m : x \in ToSet(seqs[i])
             Good(m) == F[m] \in Seq(S) /\ Members(m) /\ (Distinct => IsInjective(F[m]))
             T == {m \in Nat : m \in 1..n => Good(m)}
  <2>4. 0 \in T
    BY <1>1
  <2>5. ASSUME NEW m \in T
        PROVE  m + 1 \in T
    <3>1. m \in Nat /\ m + 1 \in Nat
      OBVIOUS
    <3> SUFFICES ASSUME m + 1 \in 1..n PROVE Good(m + 1)
      BY <3>1
    <3>2. CASE m = 0
      <4>1. 1 \in 1..n /\ F[1] = seqs[1] /\ m + 1 = 1 /\ 1..1 = {1}
        BY <1>1, <2>3, <3>2
      <4>2. F[1] \in Seq(S) /\ (Distinct => IsInjective(F[1]))
        BY <1>1, <4>1
      <4>3. Members(1)
        BY <4>1
      <4> HIDE DEF Members
      <4> QED
        BY <4>1, <4>2, <4>3
    <3>3. CASE m # 0
      <4>1. m \in 1..n
        BY <1>1, <3>1, <3>3
      <4>2. F[m] \in Seq(S) /\ Members(m) /\ (Distinct => IsInjective(F[m]))
        BY <4>1
      <4>3. F[m + 1] = F[m] \o seqs[m + 1]
        <5>1. m + 1 # 1 /\ (m + 1) - 1 = m
          BY <3>1, <3>3
        <5> QED
          BY <2>3, <5>1
      <4>4. seqs[m + 1] \in Seq(S)
        BY <1>1
      <4>5. \A i : i \in 1..(m + 1) <=> i \in 1..m \/ i = m + 1
        BY <3>1
      <4>6. /\ F[m + 1] \in Seq(S)
            /\ \A x : x \in ToSet(F[m + 1]) <=> x \in ToSet(F[m]) \/ x \in ToSet(seqs[m + 1])
            /\ IsInjective(F[m]) /\ IsInjective(seqs[m + 1]) /\ ToSet(F[m]) \cap ToSet(seqs[m + 1]) = {}
               => IsInjective(F[m + 1])
        BY <4>2, <4>3, <4>4, ConcatMembers
      <4>7. Members(m + 1)
        BY <4>2, <4>5, <4>6
      <4>8. ASSUME Distinct PROVE IsInjective(F[m + 1])
        <5>1. \A i \in 1..m : i \in 1..n /\ i # m + 1
          BY <1>1, <3>1
        <5>2. ToSet(F[m]) \cap ToSet(seqs[m + 1]) = {}
          BY <4>2, <4>8, <5>1
        <5> QED
          BY <4>2, <4>6, <4>8, <5>2
      <4> HIDE DEF Members
      <4> QED
        BY <4>6, <4>7, <4>8
    <3> QED
      BY <3>2, <3>3
  <2>6. T = Nat
    <3>1. T \subseteq Nat
      OBVIOUS
    <3> HIDE DEF T
    <3> QED
      BY <2>4, <2>5, <3>1, SetInduction
  <2>7. n \in 1..n
    BY <1>1, <1>3
  <2>8. Good(n)
    BY <1>1, <2>6, <2>7
  <2> QED
    BY <2>1, <2>8 DEF n
<1> QED
  BY <1>2, <1>3

(* The subsets of S with at most n members. *)
UpTo(S, n) == {s \in SUBSET S : Cardinality(s) <= n}

LEMMA RemoveOne ==
  ASSUME NEW S, IsFiniteSet(S), NEW n \in Nat, NEW s \in UpTo(S, n + 1), s # {}
  PROVE  s \ {CHOOSE x \in s : TRUE} \in UpTo(S, n)
<1> DEFINE x == CHOOSE x \in s : TRUE
<1>1. x \in s
  OBVIOUS
<1>2. s \in SUBSET S /\ Cardinality(s) <= n + 1
  BY DEF UpTo
<1> HIDE DEF x
<1>3. IsFiniteSet(s) /\ Cardinality(s) \in Nat
  BY <1>2, FS_Subset, FS_CardinalityType
<1>4. Cardinality(s \ {x}) = Cardinality(s) - 1
  BY <1>1, <1>3, FS_RemoveElement
<1>5. Cardinality(s \ {x}) <= n
  BY <1>2, <1>3, <1>4
<1>6. s \ {x} \in UpTo(S, n)
  BY <1>2, <1>5 DEF UpTo
<1> QED
  BY <1>6 DEF x

-----------------------------------------------------------------------------
(***************************************************************************)
(* Folds over sequences.  FoldLeft is a recursive function of sets of      *)
(* indices; what the proofs use is its history, the value after each step. *)
(***************************************************************************)

LEMMA MaxOfInterval ==
  ASSUME NEW i \in Nat, i # 0
  PROVE  Max(1..i) = i /\ (1..i) \ {i} = 1..(i - 1) /\ 1..i # {}
<1>1. i \in 1..i /\ \A y \in 1..i : i >= y
  OBVIOUS
<1>2. \A x \in 1..i : (\A y \in 1..i : x >= y) => x = i
  BY <1>1
<1>3. Max(1..i) = i
  BY <1>1, <1>2 DEF Max
<1> QED
  BY <1>1, <1>3

LEMMA MaxOfIndices ==
  ASSUME NEW n \in Nat, NEW s \in SUBSET (1..n), s # {}
  PROVE  Max(s) \in s /\ \A y \in s : y <= Max(s)
<1>0. IsFiniteSet(1..n) /\ s \subseteq 1..n /\ 1..n \subseteq Nat
  BY FS_Interval
<1>1. s \subseteq Nat /\ IsFiniteSet(s)
  BY <1>0, FS_Subset
<1>2. PICK m \in s : \A y \in s : y <= m
  BY <1>1, GreatestNatural
<1>3. \E x \in s : \A y \in s : x >= y
  BY <1>1, <1>2
<1> QED
  BY <1>1, <1>3 DEF Max

(* A value that holds before the first step and that each step keeps. *)
LEMMA HistoryInduction ==
  ASSUME NEW n \in Nat, NEW h, NEW G, h[0] \in G,
         \A i \in 1..n : h[i - 1] \in G => h[i] \in G
  PROVE  \A i \in 0..n : h[i] \in G
<1> DEFINE T == {i \in Nat : i \in 0..n => h[i] \in G}
<1>1. 0 \in T
  OBVIOUS
<1>2. ASSUME NEW i \in T
      PROVE  i + 1 \in T
  <2>1. CASE i + 1 \in 0..n
    <3>1. i \in 0..n /\ i + 1 \in 1..n /\ (i + 1) - 1 = i
      BY <2>1
    <3>2. h[i] \in G
      BY <3>1
    <3>3. h[i + 1] \in G
      BY <3>1, <3>2
    <3> QED
      BY <3>3
  <2> QED
    BY <2>1
<1>3. T = Nat
  <2> HIDE DEF T
  <2>1. T \subseteq Nat
    BY DEF T
  <2> QED
    BY <1>1, <1>2, <2>1, SetInduction
<1> QED
  BY <1>3

(* The recursion of FoldLeft over a step function that stays inside G. *)
FoldBody(F, base, seq, f, s) == IF s = {} THEN base ELSE F[<<f[s \ {Max(s)}], seq[Max(s)]>>]

HasFold(F, base, seq, n, G) ==
  \E f \in [SUBSET (1..n) -> G] : \A s \in SUBSET (1..n) : f[s] = FoldBody(F, base, seq, f, s)

LEMMA FoldExists ==
  ASSUME NEW n \in Nat, NEW G, NEW B, NEW base \in G, NEW seq, \A i \in 1..n : seq[i] \in B,
         NEW F \in [G \X B -> G]
  PROVE  HasFold(F, base, seq, n, G)
<1> DEFINE Low(m) == {s \in SUBSET (1..n) : \A i \in s : i <= m}
           T == {m \in Nat : \E f \in [Low(m) -> G] : \A s \in Low(m) : f[s] = FoldBody(F, base, seq, f, s)}
<1>0. \A s \in SUBSET (1..n) : s # {} => Max(s) \in s /\ \A y \in s : y <= Max(s)
  BY MaxOfIndices
<1>1. 0 \in T
  <2> DEFINE f == [s \in Low(0) |-> base]
  <2>1. \A s \in Low(0) : s = {}
    OBVIOUS
  <2>2. f \in [Low(0) -> G] /\ \A s \in Low(0) : f[s] = FoldBody(F, base, seq, f, s)
    BY <2>1 DEF FoldBody
  <2> QED
    BY <2>2
<1>2. ASSUME NEW m \in T
      PROVE  m + 1 \in T
  <2>1. PICK f \in [Low(m) -> G] : \A s \in Low(m) : f[s] = FoldBody(F, base, seq, f, s)
    OBVIOUS
  <2>2. m \in Nat
    OBVIOUS
  <2> DEFINE h == [s \in Low(m + 1) |-> FoldBody(F, base, seq, f, s)]
  <2>3. \A s \in Low(m) : s \in Low(m + 1) /\ h[s] = f[s]
    BY <2>1, <2>2
  <2>4. ASSUME NEW s \in Low(m + 1), s # {}
        PROVE  /\ s \ {Max(s)} \in Low(m)
               /\ seq[Max(s)] \in B
    <3>1. Max(s) \in s /\ (\A y \in s : y <= Max(s)) /\ s \in SUBSET (1..n)
      BY <1>0, <2>4
    <3>2. \A y \in s \ {Max(s)} : y <= m
      <4> SUFFICES ASSUME NEW y \in s, y # Max(s) PROVE y <= m
        OBVIOUS
      <4>0. \A i \in s : i <= m + 1
        OBVIOUS
      <4>1. y <= Max(s) /\ Max(s) <= m + 1 /\ y \in Nat /\ Max(s) \in Nat
        <5> HIDE DEF T, Low, h
        <5>1. y \in 1..n /\ Max(s) \in 1..n /\ y <= Max(s)
          BY <3>1
        <5>2. Max(s) <= m + 1
          BY <3>1, <4>0
        <5> QED
          BY <5>1, <5>2
      <4> HIDE DEF T
      <4> QED
        BY <4>1, <2>2
    <3> QED
      BY <3>1, <3>2
  <2>5. ASSUME NEW s \in Low(m + 1)
        PROVE  h[s] \in G /\ h[s] = FoldBody(F, base, seq, h, s)
    <3>1. h[s] = FoldBody(F, base, seq, f, s)
      OBVIOUS
    <3>2. CASE s = {}
      BY <3>1, <3>2 DEF FoldBody
    <3>3. CASE s # {}
      <4> DEFINE r == s \ {Max(s)}
      <4>1. r \in Low(m) /\ seq[Max(s)] \in B
        BY <2>4, <3>3
      <4>2. f[r] \in G /\ h[r] = f[r]
        BY <4>1, <2>3
      <4> HIDE DEF h
      <4>3. F[<<f[r], seq[Max(s)]>>] \in G
        BY <4>1, <4>2
      <4> QED
        BY <3>1, <3>3, <4>2, <4>3 DEF FoldBody
    <3> QED
      BY <3>2, <3>3
  <2>6. h \in [Low(m + 1) -> G]
    BY <2>5
  <2> HIDE DEF h
  <2>7. \E ff \in [Low(m + 1) -> G] : \A s \in Low(m + 1) : ff[s] = FoldBody(F, base, seq, ff, s)
    BY <2>5, <2>6
  <2>8. m + 1 \in Nat
    <3> HIDE DEF T
    <3> QED
      BY <2>2
  <2> HIDE DEF Low
  <2> QED
    BY <2>7, <2>8
<1>3. T = Nat
  <2> HIDE DEF T
  <2>1. T \subseteq Nat
    BY DEF T
  <2> QED
    BY <1>1, <1>2, <2>1, SetInduction
<1>4. Low(n) = SUBSET (1..n)
  OBVIOUS
<1>5. n \in T
  BY <1>3
<1> QED
  BY <1>4, <1>5 DEF HasFold
=============================================================================
