---------------------------- MODULE ZonesProofs ----------------------------
(***************************************************************************)
(* The zone domain is sound, for every number of variables and whatever    *)
(* sequence of operations the analyzer performs.                           *)
(***************************************************************************)
EXTENDS Zones, Induction

-----------------------------------------------------------------------------
(***************************************************************************)
(* Finite sets: induction, least members and sorted sequences.             *)
(***************************************************************************)

LEMMA FiniteInduction ==
  ASSUME NEW S, IsFiniteSet(S), NEW P, {} \in P,
         \A A \in SUBSET S : \A x \in S \ A : A \in P => A \cup {x} \in P
  PROVE  \A A \in SUBSET S : A \in P
<1> DEFINE T == {n \in Nat : \A A \in SUBSET S : Cardinality(A) = n => A \in P}
<1>0. \A A \in SUBSET S : IsFiniteSet(A) /\ Cardinality(A) \in Nat
  BY FS_Subset, FS_CardinalityType
<1>1. 0 \in T
  BY <1>0, FS_EmptySet
<1>2. ASSUME NEW n \in T
      PROVE  n + 1 \in T
  <2>0. n \in Nat
    OBVIOUS
  <2>1. ASSUME NEW A \in SUBSET S, Cardinality(A) = n + 1
        PROVE  A \in P
    <3>1. A # {}
      BY <2>0, <2>1, FS_EmptySet
    <3>2. PICK x \in A : TRUE
      BY <3>1
    <3>3. A \ {x} \in SUBSET S /\ x \in S \ (A \ {x}) /\ A = (A \ {x}) \cup {x}
      OBVIOUS
    <3>4. Cardinality(A \ {x}) = n
      <4>1. Cardinality(A \ {x}) = Cardinality(A) - 1
        BY <1>0, FS_RemoveElement
      <4> HIDE DEF T
      <4> QED
        BY <2>0, <2>1, <4>1
    <3>5. A \ {x} \in P
      BY <3>3, <3>4
    <3> HIDE DEF T
    <3> QED
      BY <3>3, <3>5
  <2>2. n + 1 \in Nat
    <3> HIDE DEF T
    <3> QED
      BY <2>0
  <2> QED
    BY <2>1, <2>2
<1>3. T = Nat
  <2> HIDE DEF T
  <2>1. T \subseteq Nat
    BY DEF T
  <2> QED
    BY <1>1, <1>2, <2>1, SetInduction
<1> QED
  BY <1>0, <1>3

(* A finite set that is not empty has members of least and greatest key. *)
LEMMA LeastKey ==
  ASSUME NEW S, IsFiniteSet(S), NEW key, \A x \in S : key[x] \in Int
  PROVE  \A A \in SUBSET S : A # {} => /\ \E a \in A : \A x \in A : key[a] <= key[x]
                                       /\ \E a \in A : \A x \in A : key[x] <= key[a]
<1> DEFINE Least(A) == \E a \in A : \A x \in A : key[a] <= key[x]
           Greatest(A) == \E a \in A : \A x \in A : key[x] <= key[a]
           P == {A \in SUBSET S : A # {} => Least(A) /\ Greatest(A)}
<1>1. {} \in P
  OBVIOUS
<1>2. ASSUME NEW A \in SUBSET S, NEW x \in S \ A, A \in P
      PROVE  A \cup {x} \in P
  <2>1. CASE A = {}
    BY <2>1
  <2>2. CASE A # {}
    <3>1. PICK a \in A : \A y \in A : key[a] <= key[y]
      BY <1>2, <2>2
    <3>2. PICK b \in A : \A y \in A : key[y] <= key[b]
      BY <1>2, <2>2
    <3>3. Least(A \cup {x})
      BY <3>1
    <3>4. Greatest(A \cup {x})
      BY <3>2
    <3> HIDE DEF Least, Greatest
    <3> QED
      BY <3>3, <3>4
  <2> QED
    BY <2>1, <2>2
<1>3. \A A \in SUBSET S : A \in P
  <2> HIDE DEF P
  <2> QED
    BY <1>1, <1>2, FiniteInduction
<1> QED
  BY <1>3

Ascends(s, key) == \A i, j \in DOMAIN s : i < j => key[s[i]] <= key[s[j]]

LEMMA SortedExists ==
  ASSUME NEW S, IsFiniteSet(S), NEW key, \A x \in S : key[x] \in Int
  PROVE  \A A \in SUBSET S : \E s \in [1..Cardinality(A) -> A] : IsInjective(s) /\ Ascends(s, key)
<1> DEFINE Sorts(s, A) == s \in [1..Cardinality(A) -> A] /\ IsInjective(s) /\ Ascends(s, key)
           T == {n \in Nat : \A A \in SUBSET S : Cardinality(A) = n => \E s : Sorts(s, A)}
<1>0. \A A \in SUBSET S : IsFiniteSet(A) /\ Cardinality(A) \in Nat
  BY FS_Subset, FS_CardinalityType
<1>1. 0 \in T
  <2> SUFFICES ASSUME NEW A \in SUBSET S, Cardinality(A) = 0
               PROVE  \E s : Sorts(s, A)
    OBVIOUS
  <2> DEFINE s == [i \in 1..0 |-> i]
  <2>1. Sorts(s, A)
    BY DEF IsInjective, Ascends
  <2> QED
    BY <2>1
<1>2. ASSUME NEW n \in T
      PROVE  n + 1 \in T
  <2>0. n \in Nat
    OBVIOUS
  <2>1. ASSUME NEW A \in SUBSET S, Cardinality(A) = n + 1
        PROVE  \E s : Sorts(s, A)
    <3>1. A # {}
      <4> HIDE DEF T
      <4> QED
        BY <2>0, <2>1, FS_EmptySet
    <3>2. PICK a \in A : \A x \in A : key[x] <= key[a]
      BY <3>1, LeastKey
    <3> DEFINE B == A \ {a}
    <3>3. B \in SUBSET S
      OBVIOUS
    <3>4. Cardinality(B) = n
      <4>1. Cardinality(A \ {a}) = Cardinality(A) - 1
        BY <1>0, FS_RemoveElement
      <4> HIDE DEF T
      <4> QED
        BY <2>0, <2>1, <4>1
    <3>5. PICK t : Sorts(t, B)
      BY <3>3, <3>4
    <3> DEFINE s == [i \in 1..(n + 1) |-> IF i = n + 1 THEN a ELSE t[i]]
    <3> HIDE DEF T
    <3>6. \A i \in 1..(n + 1) : i = n + 1 \/ i \in 1..n
      BY <2>0
    <3>7. /\ t \in [1..n -> B]
          /\ \A i, j \in 1..n : t[i] = t[j] => i = j
          /\ \A i, j \in 1..n : i < j => key[t[i]] <= key[t[j]]
      BY <3>4, <3>5 DEF IsInjective, Ascends
    <3>8. s \in [1..(n + 1) -> A]
      BY <3>6, <3>7
    <3>9. /\ DOMAIN s = 1..(n + 1)
          /\ s[n + 1] = a
          /\ \A i \in 1..n : s[i] = t[i] /\ s[i] \in A /\ s[i] # a
      BY <2>0, <3>7
    <3> HIDE DEF s
    <3>10. IsInjective(s)
      <4> SUFFICES ASSUME NEW i \in 1..(n + 1), NEW j \in 1..(n + 1), s[i] = s[j]
                   PROVE  i = j
        BY <3>9 DEF IsInjective
      <4> QED
        BY <3>6, <3>7, <3>9
    <3>11. Ascends(s, key)
      <4> SUFFICES ASSUME NEW i \in 1..(n + 1), NEW j \in 1..(n + 1), i < j
                   PROVE  key[s[i]] <= key[s[j]]
        BY <3>9 DEF Ascends
      <4>1. i \in 1..n
        BY <2>0
      <4>2. CASE j = n + 1
        BY <3>2, <3>9, <4>1, <4>2
      <4>3. CASE j \in 1..n
        BY <3>7, <3>9, <4>1, <4>3
      <4> QED
        BY <3>6, <4>2, <4>3
    <3> QED
      BY <2>1, <3>8, <3>10, <3>11
  <2>2. n + 1 \in Nat
    <3> HIDE DEF T
    <3> QED
      BY <2>0
  <2> QED
    BY <2>1, <2>2
<1>3. T = Nat
  <2> HIDE DEF T
  <2>1. T \subseteq Nat
    BY DEF T
  <2> QED
    BY <1>1, <1>2, <2>1, SetInduction
<1> QED
  BY <1>0, <1>3

(* s lists the members of S, each once. *)
Lists(s, S) ==
  /\ Cardinality(S) \in Nat
  /\ s \in [1..Cardinality(S) -> S]
  /\ IsInjective(s)
  /\ \A x \in S : \E i \in 1..Cardinality(S) : s[i] = x

LEMMA SortedByFacts ==
  ASSUME NEW S, IsFiniteSet(S), NEW key, \A x \in S : key[x] \in Int
  PROVE  Lists(SortedBy(S, key), S)
<1>0. Cardinality(S) \in Nat
  BY FS_CardinalityType
<1>1. PICK s \in [1..Cardinality(S) -> S] : IsInjective(s) /\ Ascends(s, key)
  BY SortedExists
<1>2. \A i, j \in 1..Cardinality(S) : i < j => key[s[i]] <= key[s[j]]
  BY <1>1 DEF Ascends
<1> DEFINE r == SortedBy(S, key)
<1>3. r \in [1..Cardinality(S) -> S] /\ IsInjective(r)
  BY <1>1, <1>2 DEF SortedBy
<1> HIDE DEF r
<1>4. r \in Injection(1..Cardinality(S), S)
  BY <1>3 DEF Injection, IsInjective
<1>5. IsFiniteSet(1..Cardinality(S)) /\ Cardinality(1..Cardinality(S)) = Cardinality(S)
  BY <1>0, FS_Interval
<1>6. r \in Surjection(1..Cardinality(S), S)
  BY <1>4, <1>5, FS_Injection
<1>7. \A x \in S : \E i \in 1..Cardinality(S) : r[i] = x
  BY <1>6 DEF Surjection
<1> QED
  BY <1>0, <1>3, <1>7 DEF r, Lists

LEMMA InOrderFacts ==
  ASSUME NEW S, IsFiniteSet(S), S \subseteq Int
  PROVE  Lists(InOrder(S), S)
<1> DEFINE key == [v \in S |-> v]
<1>1. \A x \in S : key[x] \in Int
  OBVIOUS
<1>2. InOrder(S) = SortedBy(S, key)
  BY DEF InOrder
<1> HIDE DEF key
<1> QED
  BY <1>1, <1>2, SortedByFacts

-----------------------------------------------------------------------------
(***************************************************************************)
(* Sums over finite sets do not depend on the order of the terms.          *)
(***************************************************************************)

Pick1(s) == CHOOSE x \in s : TRUE

(* g has the sum of f over each set of Q. *)
IsSum(g, f, Q) ==
  /\ g \in [Q -> Int]
  /\ \A s \in Q : g[s] = IF s = {} THEN 0 ELSE f[Pick1(s)] + g[s \ {Pick1(s)}]

(* g has the sum of f over each subset of S. *)
Sums(g, f, S) == IsSum(g, f, SUBSET S)

LEMMA SumExists ==
  ASSUME NEW S, IsFiniteSet(S), NEW f, \A x \in S : f[x] \in Int
  PROVE  \E g : Sums(g, f, S)
<1> DEFINE T == {n \in Nat : \E g : IsSum(g, f, UpTo(S, n))}
<1>0. \A s \in SUBSET S : IsFiniteSet(s) /\ Cardinality(s) \in Nat
  BY FS_Subset, FS_CardinalityType
<1>1. 0 \in T
  <2> DEFINE g == [s \in UpTo(S, 0) |-> 0]
  <2>1. \A s \in UpTo(S, 0) : s = {}
    BY <1>0, FS_EmptySet DEF UpTo
  <2>2. IsSum(g, f, UpTo(S, 0))
    BY <2>1 DEF IsSum, Sums
  <2> QED
    BY <2>2
<1>2. ASSUME NEW n \in T
      PROVE  n + 1 \in T
  <2>0. n \in Nat
    OBVIOUS
  <2>1. PICK g : IsSum(g, f, UpTo(S, n))
    OBVIOUS
  <2> HIDE DEF T
  <2> DEFINE h == [s \in UpTo(S, n + 1) |-> IF s = {} THEN 0 ELSE f[Pick1(s)] + g[s \ {Pick1(s)}]]
  <2>2. \A s \in UpTo(S, n) : s \in UpTo(S, n + 1) /\ h[s] = g[s]
    <3>1. \A s \in UpTo(S, n) : s \in UpTo(S, n + 1)
      BY <1>0, <2>0 DEF UpTo
    <3> QED
      BY <2>1, <3>1 DEF IsSum, Sums
  <2>3. ASSUME NEW s \in UpTo(S, n + 1), s # {}
        PROVE  s \ {Pick1(s)} \in UpTo(S, n) /\ Pick1(s) \in S
    <3>1. Pick1(s) \in s /\ s \in SUBSET S
      BY <2>3 DEF Pick1, UpTo
    <3>2. s \ {Pick1(s)} \in UpTo(S, n)
      BY <2>0, <2>3, RemoveOne DEF Pick1
    <3> QED
      BY <3>1, <3>2
  <2>4. \A s \in UpTo(S, n + 1) : h[s] \in Int
    BY <2>1, <2>3 DEF IsSum, Sums
  <2>5. \A s \in UpTo(S, n + 1) : h[s] = IF s = {} THEN 0 ELSE f[Pick1(s)] + h[s \ {Pick1(s)}]
    BY <2>2, <2>3
  <2>6. h \in [UpTo(S, n + 1) -> Int]
    BY <2>4
  <2>7. IsSum(h, f, UpTo(S, n + 1))
    <3> HIDE DEF h
    <3> QED
      BY <2>5, <2>6 DEF IsSum, Sums
  <2>8. n + 1 \in Nat
    BY <2>0
  <2> QED
    BY <2>7, <2>8 DEF T
<1>3. T = Nat
  <2> HIDE DEF T
  <2>1. T \subseteq Nat
    BY DEF T
  <2> QED
    BY <1>1, <1>2, <2>1, SetInduction
<1>4. UpTo(S, Cardinality(S)) = SUBSET S
  BY FS_Subset, FS_CardinalityType DEF UpTo
<1>5. Cardinality(S) \in T
  BY <1>0, <1>3
<1> QED
  BY <1>4, <1>5 DEF Sums

(* The community module's sum is such a function. *)
LEMMA SumIsSum ==
  ASSUME NEW S, IsFiniteSet(S), NEW f, \A x \in S : f[x] \in Int
  PROVE  \E g : Sums(g, f, S) /\ SumFunctionOnSet(f, S) = g[S]
<1> DEFINE g == CHOOSE i : i = [s \in SUBSET S |-> IF s = {} THEN 0 ELSE f[CHOOSE x \in s : TRUE] + i[s \ {CHOOSE x \in s : TRUE}]]
<1>1. SumFunctionOnSet(f, S) = g[S]
  BY DEF SumFunctionOnSet, FoldFunctionOnSet, MapThenFoldSet
<1>2. PICK e : Sums(e, f, S)
  BY SumExists
<1>3. e = [s \in SUBSET S |-> IF s = {} THEN 0 ELSE f[CHOOSE x \in s : TRUE] + e[s \ {CHOOSE x \in s : TRUE}]]
  BY <1>2 DEF IsSum, Sums, Pick1
<1>4. g = [s \in SUBSET S |-> IF s = {} THEN 0 ELSE f[CHOOSE x \in s : TRUE] + g[s \ {CHOOSE x \in s : TRUE}]]
  BY <1>3
<1> HIDE DEF g
<1>5. \A s \in SUBSET S : g[s] = IF s = {} THEN 0 ELSE f[Pick1(s)] + g[s \ {Pick1(s)}]
  BY <1>4 DEF Pick1
<1>6. \A s \in SUBSET S : s # {} => Pick1(s) \in s
  BY DEF Pick1
<1>e. g[{}] = 0
  <2>1. {} \in SUBSET S
    OBVIOUS
  <2> QED
    BY <1>5, <2>1
<1> DEFINE P == {s \in SUBSET S : g[s] \in Int}
<1>7. \A s \in SUBSET S : s \in P
  <2> DEFINE T == {n \in Nat : \A s \in UpTo(S, n) : g[s] \in Int}
  <2>0. \A s \in SUBSET S : IsFiniteSet(s) /\ Cardinality(s) \in Nat
    BY FS_Subset, FS_CardinalityType
  <2>1. 0 \in T
    <3>1. \A s \in UpTo(S, 0) : s = {}
      BY <2>0, FS_EmptySet DEF UpTo
    <3> QED
      BY <1>e, <3>1
  <2>2. ASSUME NEW n \in T
        PROVE  n + 1 \in T
    <3>0. n \in Nat /\ \A s \in UpTo(S, n) : g[s] \in Int
      OBVIOUS
    <3> HIDE DEF T
    <3>1. ASSUME NEW s \in UpTo(S, n + 1)
          PROVE  g[s] \in Int
      <4>1. s \in SUBSET S
        BY DEF UpTo
      <4>2. CASE s = {}
        BY <1>e, <4>2
      <4>3. CASE s # {}
        <5>1. s \ {Pick1(s)} \in UpTo(S, n)
          BY <3>0, <4>3, RemoveOne DEF Pick1
        <5>2. f[Pick1(s)] \in Int
          BY <1>6, <4>1, <4>3
        <5> QED
          BY <1>5, <3>0, <4>1, <4>3, <5>1, <5>2
      <4> QED
        BY <4>2, <4>3
    <3>2. n + 1 \in Nat
      BY <3>0
    <3> QED
      BY <3>1, <3>2 DEF T
  <2>3. T = Nat
    <3> HIDE DEF T
    <3>1. T \subseteq Nat
      BY DEF T
    <3> QED
      BY <2>1, <2>2, <3>1, SetInduction
  <2>4. ASSUME NEW s \in SUBSET S
        PROVE  g[s] \in Int
    <3>1. s \in UpTo(S, Cardinality(s)) /\ Cardinality(s) \in T
      BY <2>0, <2>3 DEF UpTo
    <3> QED
      BY <3>1
  <2> QED
    BY <2>4
<1>8. Sums(g, f, S)
  <2>1. DOMAIN g = SUBSET S /\ g = [s \in SUBSET S |-> g[s]]
    BY <1>4
  <2>2. g \in [SUBSET S -> Int]
    BY <1>7, <2>1
  <2> QED
    BY <1>5, <2>2 DEF IsSum, Sums
<1> QED
  BY <1>1, <1>8

LEMMA SumUnique ==
  ASSUME NEW S, IsFiniteSet(S), NEW A \in SUBSET S, NEW f, NEW g, Sums(g, f, S),
         NEW e, NEW h, Sums(h, e, A), \A x \in A : f[x] = e[x]
  PROVE  g[A] = h[A]
<1> DEFINE T == {n \in Nat : \A s \in UpTo(A, n) : g[s] = h[s]}
<1>0. \A s \in SUBSET A : IsFiniteSet(s) /\ Cardinality(s) \in Nat /\ s \in SUBSET S
  BY FS_Subset, FS_CardinalityType
<1>a. IsFiniteSet(A)
  BY FS_Subset
<1>1. g[{}] = 0 /\ h[{}] = 0
  <2>1. {} \in SUBSET S /\ {} \in SUBSET A
    OBVIOUS
  <2> QED
    BY <2>1 DEF IsSum, Sums
<1>2. 0 \in T
  <2>1. \A s \in UpTo(A, 0) : s = {}
    BY <1>0, FS_EmptySet DEF UpTo
  <2> QED
    BY <1>1, <2>1
<1>3. ASSUME NEW n \in T
      PROVE  n + 1 \in T
  <2>0. n \in Nat /\ \A s \in UpTo(A, n) : g[s] = h[s]
    OBVIOUS
  <2> HIDE DEF T
  <2>1. ASSUME NEW s \in UpTo(A, n + 1)
        PROVE  g[s] = h[s]
    <3>1. s \in SUBSET A /\ s \in SUBSET S
      BY <1>0 DEF UpTo
    <3>2. CASE s = {}
      BY <1>1, <3>2
    <3>3. CASE s # {}
      <4>1. s \ {Pick1(s)} \in UpTo(A, n)
        BY <1>a, <2>0, <3>3, RemoveOne DEF Pick1
      <4>2. Pick1(s) \in A
        BY <3>1, <3>3 DEF Pick1
      <4>3. g[s] = f[Pick1(s)] + g[s \ {Pick1(s)}]
        BY <3>1, <3>3 DEF IsSum, Sums
      <4>4. h[s] = e[Pick1(s)] + h[s \ {Pick1(s)}]
        BY <3>1, <3>3 DEF IsSum, Sums
      <4> QED
        BY <2>0, <4>1, <4>2, <4>3, <4>4
    <3> QED
      BY <3>2, <3>3
  <2>2. n + 1 \in Nat
    BY <2>0
  <2> QED
    BY <2>1, <2>2 DEF T
<1>4. T = Nat
  <2> HIDE DEF T
  <2>1. T \subseteq Nat
    BY DEF T
  <2> QED
    BY <1>2, <1>3, <2>1, SetInduction
<1>5. ASSUME NEW s \in SUBSET A
      PROVE  g[s] = h[s]
  <2>1. s \in UpTo(A, Cardinality(s)) /\ Cardinality(s) \in T
    BY <1>0, <1>4 DEF UpTo
  <2> QED
    BY <2>1
<1>6. A \in SUBSET A
  OBVIOUS
<1> QED
  BY <1>5, <1>6

IntOn(f, S) == \A x \in S : f[x] \in Int

(* A sum is that of the other terms and of any one of them. *)
LEMMA SumStep ==
  ASSUME NEW S, IsFiniteSet(S), NEW f, IntOn(f, S)
  PROVE  /\ SumFunctionOnSet(f, {}) = 0
         /\ \A A \in SUBSET S : SumFunctionOnSet(f, A) \in Int
         /\ \A A \in SUBSET S : \A x \in A :
              SumFunctionOnSet(f, A) = f[x] + SumFunctionOnSet(f, A \ {x})
<1>0. \A s \in SUBSET S : IsFiniteSet(s) /\ Cardinality(s) \in Nat
  BY FS_Subset, FS_CardinalityType
<1>1. PICK g : Sums(g, f, S)
  BY SumExists DEF IntOn
<1>2. ASSUME NEW A \in SUBSET S
      PROVE  SumFunctionOnSet(f, A) = g[A] /\ g[A] \in Int
  <2>1. PICK h : Sums(h, f, A) /\ SumFunctionOnSet(f, A) = h[A]
    <3>1. IsFiniteSet(A) /\ \A x \in A : f[x] \in Int
      BY <1>0 DEF IntOn
    <3> QED
      BY <3>1, SumIsSum
  <2>2. g[A] = h[A]
    <3>1. \A x \in A : f[x] = f[x]
      OBVIOUS
    <3> QED
      BY <1>1, <2>1, <3>1, SumUnique
  <2>4. g[A] \in Int
    BY <1>1 DEF IsSum, Sums
  <2> QED
    BY <2>1, <2>2, <2>4
<1>3. g[{}] = 0
  <2>1. {} \in SUBSET S
    OBVIOUS
  <2> QED
    BY <1>1, <2>1 DEF IsSum, Sums
<1>4. ASSUME NEW A \in SUBSET S, A # {}
      PROVE  g[A] = f[Pick1(A)] + g[A \ {Pick1(A)}] /\ Pick1(A) \in A
  BY <1>1, <1>4 DEF IsSum, Sums, Pick1
<1>5. \A A \in SUBSET S : g[A] \in Int
  BY <1>2
<1> DEFINE T == {n \in Nat : \A A \in UpTo(S, n) : \A x \in A : g[A] = f[x] + g[A \ {x}]}
<1>6. 0 \in T
  <2>1. \A s \in UpTo(S, 0) : s = {}
    BY <1>0, FS_EmptySet DEF UpTo
  <2> QED
    BY <2>1
<1>7. ASSUME NEW n \in T
      PROVE  n + 1 \in T
  <2>0. n \in Nat /\ \A A \in UpTo(S, n) : \A x \in A : g[A] = f[x] + g[A \ {x}]
    OBVIOUS
  <2> HIDE DEF T
  <2>1. ASSUME NEW A \in UpTo(S, n + 1), NEW x \in A
        PROVE  g[A] = f[x] + g[A \ {x}]
    <3> DEFINE c == Pick1(A)
    <3>1. A \in SUBSET S /\ A # {} /\ Cardinality(A) <= n + 1
      BY DEF UpTo
    <3>2. g[A] = f[c] + g[A \ {c}] /\ c \in A
      BY <1>4, <3>1
    <3> HIDE DEF c
    <3>3. CASE x = c
      BY <3>2, <3>3
    <3>4. CASE x # c
      <4>1. ASSUME NEW y \in A
            PROVE  A \ {y} \in UpTo(S, n)
        <5>1. Cardinality(A \ {y}) = Cardinality(A) - 1
          BY <1>0, <3>1, FS_RemoveElement
        <5>2. Cardinality(A \ {y}) <= n
          BY <1>0, <2>0, <3>1, <5>1
        <5> QED
          BY <3>1, <5>2 DEF UpTo
      <4>2. g[A \ {c}] = f[x] + g[(A \ {c}) \ {x}]
        BY <2>0, <3>2, <3>4, <4>1
      <4>3. g[A \ {x}] = f[c] + g[(A \ {x}) \ {c}]
        BY <2>0, <3>2, <3>4, <4>1
      <4>4. (A \ {x}) \ {c} = (A \ {c}) \ {x}
        OBVIOUS
      <4>5. f[x] \in Int /\ f[c] \in Int /\ g[(A \ {c}) \ {x}] \in Int
        BY <1>5, <3>1, <3>2 DEF IntOn
      <4> DEFINE k == g[(A \ {c}) \ {x}]
      <4>6. g[A] = f[c] + (f[x] + k) /\ g[A \ {x}] = f[c] + k /\ k \in Int
        BY <3>2, <4>2, <4>3, <4>4, <4>5
      <4> HIDE DEF k
      <4> QED
        BY <4>5, <4>6
    <3> QED
      BY <3>3, <3>4
  <2>2. n + 1 \in Nat
    BY <2>0
  <2> QED
    BY <2>1, <2>2 DEF T
<1>8. T = Nat
  <2> HIDE DEF T
  <2>1. T \subseteq Nat
    BY DEF T
  <2> QED
    BY <1>6, <1>7, <2>1, SetInduction
<1>9. ASSUME NEW A \in SUBSET S, NEW x \in A
      PROVE  g[A] = f[x] + g[A \ {x}] /\ A \ {x} \in SUBSET S
  <2>1. A \in UpTo(S, Cardinality(A)) /\ Cardinality(A) \in T
    BY <1>0, <1>8 DEF UpTo
  <2> QED
    BY <2>1
<1>10. SumFunctionOnSet(f, {}) = 0
  <2>1. {} \in SUBSET S
    OBVIOUS
  <2> QED
    BY <1>2, <1>3, <2>1
<1> HIDE DEF T
<1> QED
  BY <1>2, <1>9, <1>10

(* Terms that are the same, or that are no greater. *)
LEMMA SumCompare ==
  ASSUME NEW S, IsFiniteSet(S), NEW f, \A x \in S : f[x] \in Int, NEW e, \A x \in S : e[x] \in Int
  PROVE  /\ (\A x \in S : f[x] = e[x]) => SumFunctionOnSet(f, S) = SumFunctionOnSet(e, S)
         /\ (\A x \in S : f[x] <= e[x]) => SumFunctionOnSet(f, S) <= SumFunctionOnSet(e, S)
<1>1. ASSUME \A x \in S : f[x] <= e[x]
      PROVE  SumFunctionOnSet(f, S) <= SumFunctionOnSet(e, S)
  <2> DEFINE P == {A \in SUBSET S : SumFunctionOnSet(f, A) <= SumFunctionOnSet(e, A)}
  <2>1. {} \in P
    BY SumStep DEF IntOn
  <2>2. ASSUME NEW A \in SUBSET S, NEW x \in S \ A, A \in P
        PROVE  A \cup {x} \in P
    <3> DEFINE B == A \cup {x}
    <3>1. B \in SUBSET S /\ x \in B /\ B \ {x} = A
      OBVIOUS
    <3>2. SumFunctionOnSet(f, A) <= SumFunctionOnSet(e, A)
      BY <2>2
    <3> HIDE DEF B, P
    <3>3. SumFunctionOnSet(f, B) = f[x] + SumFunctionOnSet(f, A) /\ SumFunctionOnSet(f, A) \in Int /\ SumFunctionOnSet(f, B) \in Int
      BY <3>1, SumStep DEF IntOn
    <3>4. SumFunctionOnSet(e, B) = e[x] + SumFunctionOnSet(e, A) /\ SumFunctionOnSet(e, A) \in Int /\ SumFunctionOnSet(e, B) \in Int
      BY <3>1, SumStep DEF IntOn
    <3>5. f[x] \in Int /\ e[x] \in Int /\ f[x] <= e[x]
      BY <1>1
    <3>6. SumFunctionOnSet(f, B) <= SumFunctionOnSet(e, B)
      BY <3>2, <3>3, <3>4, <3>5
    <3> QED
      BY <3>1, <3>6 DEF P, B
  <2>3. \A A \in SUBSET S : A \in P
    <3> HIDE DEF P
    <3> QED
      BY <2>1, <2>2, FiniteInduction
  <2>4. S \in P
    BY <2>3
  <2> QED
    BY <2>4
<1>2. ASSUME \A x \in S : f[x] = e[x]
      PROVE  SumFunctionOnSet(f, S) = SumFunctionOnSet(e, S)
  <2>1. PICK g : Sums(g, f, S) /\ SumFunctionOnSet(f, S) = g[S]
    BY SumIsSum
  <2>2. PICK h : Sums(h, e, S) /\ SumFunctionOnSet(e, S) = h[S]
    BY SumIsSum
  <2>3. g[S] = h[S]
    <3>1. S \in SUBSET S
      OBVIOUS
    <3> QED
      BY <1>2, <2>1, <2>2, <3>1, SumUnique
  <2> QED
    BY <2>1, <2>2, <2>3
<1> QED
  BY <1>1, <1>2

-----------------------------------------------------------------------------
(***************************************************************************)
(* Bounds and intervals.                                                   *)
(***************************************************************************)

Bounds == {b \in [inf : BOOLEAN, n : Int] : b.inf => b.n \in {-1, 1}}

(* An interval that may be empty, whose infinite ends are on their sides. *)
Proper(i) ==
  /\ i.lb \in Bounds /\ i.ub \in Bounds
  /\ i.lb.inf => i.lb.n = -1
  /\ i.ub.inf => i.ub.n = 1

(* A number lies between the ends of a proper interval. *)
Holds(i, n) == (i.lb.inf \/ i.lb.n <= n) /\ (i.ub.inf \/ n <= i.ub.n)

LEMMA BoundFacts ==
  /\ \A n \in Int : Fin(n) \in Bounds /\ Fin(n).n = n /\ Fin(n).inf = FALSE
  /\ PLUS_INFINITY \in Bounds /\ PLUS_INFINITY.inf /\ PLUS_INFINITY.n = 1
  /\ MINUS_INFINITY \in Bounds /\ MINUS_INFINITY.inf /\ MINUS_INFINITY.n = -1
  BY DEF Bounds, Fin, PLUS_INFINITY, MINUS_INFINITY

LEMMA BoundOrder ==
  /\ \A a, b \in Bounds : BLeq(a, b) \/ BLeq(b, a)
  /\ \A a \in Bounds : BLeq(a, a)
  /\ \A a, b, c \in Bounds : BLeq(a, b) /\ BLeq(b, c) => BLeq(a, c)
  BY DEF Bounds, BLeq

LEMMA BoundEqual ==
  ASSUME NEW a \in Bounds, NEW b \in Bounds, a.inf = b.inf, a.n = b.n
  PROVE  a = b
  BY DEF Bounds

LEMMA JustProper ==
  ASSUME NEW n \in Int
  PROVE  Proper(Just(n)) /\ Holds(Just(n), n) /\ Just(n).lb.n = n /\ Just(n).ub.n = n
  BY DEF Bounds, Proper, Holds, Just, Fin

LEMMA BetweenProper ==
  ASSUME NEW l \in Bounds, NEW u \in Bounds, l.inf => l.n = -1, u.inf => u.n = 1
  PROVE  /\ Proper(Between(l, u))
         /\ \A n \in Int : (l.inf \/ l.n <= n) /\ (u.inf \/ n <= u.n) =>
              Holds(Between(l, u), n) /\ Between(l, u) = [lb |-> l, ub |-> u]
<1>1. Proper(Bottom)
  BY DEF Proper, Bounds, Bottom, Fin
<1>2. Proper([lb |-> l, ub |-> u])
  BY DEF Proper, Bounds
<1>3. ASSUME NEW n \in Int, (l.inf \/ l.n <= n) /\ (u.inf \/ n <= u.n)
      PROVE  Between(l, u) = [lb |-> l, ub |-> u]
  BY <1>3 DEF Between, BLess, BLeq, Bounds
<1> QED
  BY <1>1, <1>2, <1>3 DEF Holds, Between

LEMMA NotBottom ==
  ASSUME NEW i, Proper(i), NEW n \in Int, Holds(i, n)
  PROVE  ~ is_bottom(i)
  BY DEF Proper, Holds, is_bottom, BLess, BLeq, Bounds

(* What adding two bounds on the same side gives. *)
LEMMA BAddFacts ==
  ASSUME NEW a \in Bounds, NEW b \in Bounds, NEW k \in {-1, 1}, a.inf => a.n = k, b.inf => b.n = k
  PROVE  /\ BAdd(a, b) \in Bounds
         /\ BAdd(a, b).inf => BAdd(a, b).n = k /\ (a.inf \/ b.inf)
         /\ ~ BAdd(a, b).inf => BAdd(a, b).n = a.n + b.n /\ ~ a.inf /\ ~ b.inf
<1>0. a.inf \in BOOLEAN /\ b.inf \in BOOLEAN /\ a.n \in Int /\ b.n \in Int
  BY DEF Bounds
<1>1. CASE a.inf
  BY <1>1 DEF BAdd
<1>2. CASE ~ a.inf /\ b.inf
  BY <1>2 DEF BAdd
<1>3. CASE ~ a.inf /\ ~ b.inf
  <2>1. BAdd(a, b) = Fin(a.n + b.n) /\ a.n + b.n \in Int
    BY <1>0, <1>3 DEF BAdd
  <2>2. BAdd(a, b) \in Bounds /\ BAdd(a, b).n = a.n + b.n /\ BAdd(a, b).inf = FALSE
    BY <2>1, BoundFacts
  <2> QED
    BY <1>3, <2>2
<1> QED
  BY <1>0, <1>1, <1>2, <1>3

LEMMA IAddSound ==
  ASSUME NEW i, Proper(i), NEW x, Proper(x)
  PROVE  /\ Proper(IAdd(i, x))
         /\ \A m, n \in Int : Holds(i, m) /\ Holds(x, n) => Holds(IAdd(i, x), m + n)
<1> DEFINE l == BAdd(i.lb, x.lb)
           u == BAdd(i.ub, x.ub)
<1>1. /\ l \in Bounds /\ (l.inf => l.n = -1 /\ (i.lb.inf \/ x.lb.inf))
      /\ ~ l.inf => l.n = i.lb.n + x.lb.n /\ ~ i.lb.inf /\ ~ x.lb.inf
  BY BAddFacts DEF Proper
<1>2. /\ u \in Bounds /\ (u.inf => u.n = 1 /\ (i.ub.inf \/ x.ub.inf))
      /\ ~ u.inf => u.n = i.ub.n + x.ub.n /\ ~ i.ub.inf /\ ~ x.ub.inf
  BY BAddFacts DEF Proper
<1>3. IAdd(i, x) = Bottom \/ IAdd(i, x) = Between(l, u)
  BY DEF IAdd
<1>4. Proper(Bottom)
  BY DEF Proper, Bounds, Bottom, Fin
<1> HIDE DEF l, u
<1>5. Proper(IAdd(i, x))
  BY <1>1, <1>2, <1>3, <1>4, BetweenProper
<1>6. ASSUME NEW m \in Int, NEW n \in Int, Holds(i, m), Holds(x, n)
      PROVE  Holds(IAdd(i, x), m + n)
  <2>1. IAdd(i, x) = Between(l, u)
    BY <1>6, NotBottom DEF IAdd, l, u
  <2>2. i.lb.n \in Int /\ i.ub.n \in Int /\ x.lb.n \in Int /\ x.ub.n \in Int
    BY DEF Proper, Bounds
  <2>3. l.inf \/ l.n <= m + n
    <3> SUFFICES ASSUME ~ l.inf PROVE l.n <= m + n
      OBVIOUS
    <3>1. l.n = i.lb.n + x.lb.n /\ i.lb.n <= m /\ x.lb.n <= n
      BY <1>1, <1>6 DEF Holds
    <3> QED
      BY <2>2, <3>1
  <2>4. u.inf \/ m + n <= u.n
    <3> SUFFICES ASSUME ~ u.inf PROVE m + n <= u.n
      OBVIOUS
    <3>1. u.n = i.ub.n + x.ub.n /\ m <= i.ub.n /\ n <= x.ub.n
      BY <1>2, <1>6 DEF Holds
    <3> QED
      BY <2>2, <3>1
  <2>5. m + n \in Int
    OBVIOUS
  <2> QED
    BY <1>1, <1>2, <2>1, <2>3, <2>4, <2>5, BetweenProper
<1> QED
  BY <1>5, <1>6

LEMMA MulMono ==
  ASSUME NEW t \in Int, NEW m \in Int, NEW n \in Int, m <= n
  PROVE  /\ t * m \in Int /\ t * n \in Int
         /\ t > 0 => t * m <= t * n
         /\ t < 0 => t * n <= t * m
<1>1. t * m \in Int /\ t * n \in Int
  OBVIOUS
<1>2. ASSUME t > 0 PROVE t * m <= t * n
  BY <1>2
<1>3. ASSUME t < 0 PROVE t * n <= t * m
  BY <1>3
<1> QED
  BY <1>1, <1>2, <1>3

LEMMA LeastBound ==
  ASSUME NEW a \in Bounds, NEW b \in Bounds, BLeq(a, b)
  PROVE  BMin({a, b}) = a /\ BMax({a, b}) = b
<1>1. BLeq(b, a) => a = b
  <2> SUFFICES ASSUME BLeq(b, a) PROVE a = b
    OBVIOUS
  <2>1. a.inf = b.inf /\ a.n = b.n
    BY DEF BLeq, Bounds
  <2> QED
    BY <2>1, BoundEqual
<1>2. BLeq(a, a) /\ BLeq(b, b)
  BY BoundOrder
<1> QED
  BY <1>1, <1>2 DEF BMin, BMax

LEMMA FiniteOrder ==
  ASSUME NEW a \in Bounds, NEW b \in Bounds, ~ a.inf, ~ b.inf
  PROVE  BLeq(a, b) <=> a.n <= b.n
<1>1. a.inf = FALSE /\ b.inf = FALSE
  BY DEF Bounds
<1> QED
  BY <1>1 DEF BLeq

LEMMA BMulFacts ==
  ASSUME NEW t \in Int, t # 0, NEW b \in Bounds
  PROVE  /\ BMul(Fin(t), b) \in Bounds
         /\ BMul(Fin(t), b).inf => b.inf /\ BMul(Fin(t), b).n = IF t > 0 THEN b.n ELSE - b.n
         /\ ~ BMul(Fin(t), b).inf => ~ b.inf /\ BMul(Fin(t), b).n = t * b.n
<1>0. b.inf \in BOOLEAN /\ b.n \in Int /\ (b.inf => b.n \in {-1, 1}) /\ Fin(t).n = t /\ Fin(t).inf = FALSE
  BY BoundFacts DEF Bounds
<1>1. CASE b.n = 0
  <2>1. BMul(Fin(t), b) = b /\ ~ b.inf
    BY <1>0, <1>1 DEF BMul
  <2> QED
    BY <1>0, <1>1, <2>1
<1>2. CASE b.n # 0 /\ b.inf
  <2> DEFINE k == IF t * b.n > 0 THEN 1 ELSE -1
  <2>1. BMul(Fin(t), b) = [inf |-> TRUE, n |-> k]
    BY <1>0, <1>2 DEF BMul
  <2>2. k = IF t > 0 THEN b.n ELSE - b.n
    BY <1>0, <1>2
  <2>3. k \in {-1, 1}
    OBVIOUS
  <2> HIDE DEF k
  <2>4. [inf |-> TRUE, n |-> k] \in Bounds
    BY <2>3 DEF Bounds
  <2> QED
    BY <1>2, <2>1, <2>2, <2>4
<1>3. CASE b.n # 0 /\ ~ b.inf
  <2>1. BMul(Fin(t), b) = Fin(t * b.n) /\ t * b.n \in Int
    BY <1>0, <1>3 DEF BMul
  <2>2. Fin(t * b.n) \in Bounds /\ Fin(t * b.n).n = t * b.n /\ Fin(t * b.n).inf = FALSE
    BY <2>1, BoundFacts
  <2> QED
    BY <1>3, <2>1, <2>2
<1> QED
  BY <1>0, <1>1, <1>2, <1>3

LEMMA IMulSound ==
  ASSUME NEW t \in Int, t # 0, NEW x, Proper(x)
  PROVE  /\ Proper(IMul(Just(t), x))
         /\ \A n \in Int : Holds(x, n) => Holds(IMul(Just(t), x), t * n)
<1> DEFINE l == BMul(Fin(t), x.lb)
           u == BMul(Fin(t), x.ub)
<1>0. x.lb \in Bounds /\ x.ub \in Bounds /\ x.lb.n \in Int /\ x.ub.n \in Int
  BY DEF Proper, Bounds
<1>1. ~ is_bottom(Just(t))
  BY BoundFacts, BoundOrder DEF is_bottom, BLess, Just
<1>2. ~ is_bottom(x) => IMul(Just(t), x) = Corners({l, u})
  <2>1. {BMul(a, b) : a \in {Just(t).lb, Just(t).ub}, b \in {x.lb, x.ub}} = {l, u}
    BY DEF Just
  <2> QED
    BY <1>1, <2>1 DEF IMul
<1>3. is_bottom(x) => IMul(Just(t), x) = Bottom
  BY DEF IMul
<1>4. Proper(Bottom)
  BY DEF Proper, Bounds, Bottom, Fin
<1>5. /\ l \in Bounds /\ l.n \in Int
      /\ l.inf => x.lb.inf /\ l.n = IF t > 0 THEN -1 ELSE 1
      /\ ~ l.inf => ~ x.lb.inf /\ l.n = t * x.lb.n
  <2> HIDE DEF l, u
  <2>1. x.lb.inf => x.lb.n = -1
    BY DEF Proper
  <2>2. /\ l \in Bounds
        /\ l.inf => x.lb.inf /\ l.n = IF t > 0 THEN x.lb.n ELSE - x.lb.n
        /\ ~ l.inf => ~ x.lb.inf /\ l.n = t * x.lb.n
    BY <1>0, BMulFacts DEF l
  <2>3. l.n \in Int
    BY <2>2 DEF Bounds
  <2> QED
    BY <2>1, <2>2, <2>3
<1>6. /\ u \in Bounds /\ u.n \in Int
      /\ u.inf => x.ub.inf /\ u.n = IF t > 0 THEN 1 ELSE -1
      /\ ~ u.inf => ~ x.ub.inf /\ u.n = t * x.ub.n
  <2> HIDE DEF l, u
  <2>1. x.ub.inf => x.ub.n = 1
    BY DEF Proper
  <2>2. /\ u \in Bounds
        /\ u.inf => x.ub.inf /\ u.n = IF t > 0 THEN x.ub.n ELSE - x.ub.n
        /\ ~ u.inf => ~ x.ub.inf /\ u.n = t * x.ub.n
    BY <1>0, BMulFacts DEF u
  <2>3. u.n \in Int
    BY <2>2 DEF Bounds
  <2> QED
    BY <2>1, <2>2, <2>3
<1> HIDE DEF l, u
<1>7. ASSUME ~ is_bottom(x)
      PROVE  (t > 0 => BLeq(l, u)) /\ (t < 0 => BLeq(u, l))
  <2>1. ~ x.lb.inf /\ ~ x.ub.inf => x.lb.n <= x.ub.n
    BY <1>0, <1>7, FiniteOrder DEF is_bottom, BLess
  <2>2. CASE l.inf \/ u.inf
    BY <1>5, <1>6, <2>2 DEF BLeq, Bounds
  <2>3. CASE ~ l.inf /\ ~ u.inf
    <3>1. x.lb.n <= x.ub.n
      BY <1>5, <1>6, <2>1, <2>3
    <3>2. (t > 0 => l.n <= u.n) /\ (t < 0 => u.n <= l.n)
      BY <1>0, <1>5, <1>6, <2>3, <3>1, MulMono
    <3> QED
      BY <1>5, <1>6, <2>3, <3>2, FiniteOrder
  <2> QED
    BY <2>2, <2>3
<1>8. ASSUME ~ is_bottom(x)
      PROVE  IMul(Just(t), x) = IF t > 0 THEN [lb |-> l, ub |-> u] ELSE [lb |-> u, ub |-> l]
  <2>1. CASE t > 0
    <3>1. BMin({l, u}) = l /\ BMax({l, u}) = u
      BY <1>5, <1>6, <1>7, <1>8, <2>1, LeastBound
    <3> QED
      BY <1>2, <1>8, <2>1, <3>1 DEF Corners
  <2>2. CASE t < 0
    <3>1. BMin({u, l}) = u /\ BMax({u, l}) = l /\ {u, l} = {l, u}
      BY <1>5, <1>6, <1>7, <1>8, <2>2, LeastBound
    <3>2. ~ (t > 0)
      BY <2>2
    <3> QED
      BY <1>2, <1>8, <3>1, <3>2 DEF Corners
  <2> QED
    BY <2>1, <2>2
<1>9. Proper(IMul(Just(t), x))
  <2>1. CASE is_bottom(x)
    BY <1>3, <1>4, <2>1
  <2>2. CASE ~ is_bottom(x) /\ t > 0
    <3>1. IMul(Just(t), x) = [lb |-> l, ub |-> u]
      BY <1>8, <2>2
    <3> QED
      BY <1>5, <1>6, <2>2, <3>1 DEF Proper
  <2>3. CASE ~ is_bottom(x) /\ t < 0
    <3>1. IMul(Just(t), x) = [lb |-> u, ub |-> l]
      BY <1>8, <2>3
    <3> QED
      BY <1>5, <1>6, <2>3, <3>1 DEF Proper
  <2> QED
    BY <2>1, <2>2, <2>3
<1>10. ASSUME NEW n \in Int, Holds(x, n)
       PROVE  Holds(IMul(Just(t), x), t * n)
  <2>1. ~ is_bottom(x)
    BY <1>10, NotBottom
  <2>2. (x.lb.inf \/ x.lb.n <= n) /\ (x.ub.inf \/ n <= x.ub.n)
    BY <1>10 DEF Holds
  <2>3. CASE t > 0
    <3>1. l.inf \/ l.n <= t * n
      BY <1>0, <1>5, <2>2, <2>3, MulMono
    <3>2. u.inf \/ t * n <= u.n
      BY <1>0, <1>6, <2>2, <2>3, MulMono
    <3>3. IMul(Just(t), x) = [lb |-> l, ub |-> u]
      BY <1>8, <2>1, <2>3
    <3> QED
      BY <3>1, <3>2, <3>3 DEF Holds
  <2>4. CASE t < 0
    <3>1. l.inf \/ t * n <= l.n
      BY <1>0, <1>5, <2>2, <2>4, MulMono
    <3>2. u.inf \/ u.n <= t * n
      BY <1>0, <1>6, <2>2, <2>4, MulMono
    <3>3. IMul(Just(t), x) = [lb |-> u, ub |-> l]
      BY <1>8, <2>1, <2>4
    <3> QED
      BY <3>1, <3>2, <3>3 DEF Holds
  <2> QED
    BY <2>3, <2>4
<1> QED
  BY <1>9, <1>10

LEMMA QuotientByUnit ==
  ASSUME NEW n \in Int
  PROVE  Quotient(n, 1) = n /\ Quotient(n, -1) = - n
<1>1. Abs(n) \in Nat /\ Abs(n) = (IF n < 0 THEN - n ELSE n)
  BY DEF Abs
<1>2. Abs(1) = 1
  BY DEF Abs
<1>3. Abs(-1) = 1
  <2>1. \A m \in Int : m < 0 => Abs(m) = 0 - m
    BY DEF Abs
  <2>2. -1 \in Int /\ -1 < 0
    OBVIOUS
  <2>3. Abs(-1) = 0 - (-1)
    BY <2>1, <2>2
  <2> QED
    BY <2>3
<1>4. Abs(n) \div 1 = Abs(n)
  BY <1>1
<1> QED
  BY <1>1, <1>2, <1>3, <1>4 DEF Quotient

(* The one number left by dividing an interval by 1 or by -1. *)
LEMMA IDivUnit ==
  ASSUME NEW i, Proper(i), NEW c \in {-1, 1}, is_singleton(IDiv(i, Just(c)))
  PROVE  /\ IDiv(i, Just(c)).lb.n \in Int
         /\ \A r \in Int : Holds(i, r) => IDiv(i, Just(c)).lb.n = c * r
<1>0. /\ i.lb \in Bounds /\ i.ub \in Bounds /\ i.lb.n \in Int /\ i.ub.n \in Int
      /\ i.lb.inf \in BOOLEAN /\ i.ub.inf \in BOOLEAN
      /\ i.lb.inf => i.lb.n = -1
      /\ i.ub.inf => i.ub.n = 1
  BY DEF Proper, Bounds
<1>1. is_singleton(Just(c)) /\ Just(c).lb = Fin(c) /\ Just(c).lb.n = c /\ Just(c).lb.inf = FALSE
  BY BoundFacts DEF is_singleton, Just
<1>2. IDiv(i, Just(c)) = Div0(i, Just(c))
  BY <1>1 DEF IDiv, Div1
<1>3. ~ is_bottom(i)
  <2> SUFFICES ASSUME is_bottom(i) PROVE FALSE
    OBVIOUS
  <2>1. IDiv(i, Just(c)) = Bottom
    BY <1>2 DEF Div0
  <2> QED
    BY <2>1 DEF is_singleton, Bottom, Fin
<1>4. ~ is_bottom(Just(c))
  BY BoundFacts, BoundOrder DEF is_bottom, BLess, Just
<1>5. CASE c = 1
  <2>1. IDiv(i, Just(c)) = i
    BY <1>1, <1>2, <1>3, <1>4, <1>5 DEF Div0
  <2>2. i.lb = i.ub /\ ~ i.lb.inf
    BY <2>1 DEF is_singleton
  <2> QED
    BY <1>0, <1>5, <2>1, <2>2 DEF Holds
<1>6. CASE c = -1
  <2> DEFINE l == BDiv(i.ub, Fin(c))
             u == BDiv(i.lb, Fin(c))
  <2>1. IDiv(i, Just(c)) = Between(l, u)
    BY <1>1, <1>2, <1>3, <1>4, <1>6 DEF Div0
  <2>2. l = (IF i.ub.inf THEN i.ub ELSE Fin(- i.ub.n)) /\ u = (IF i.lb.inf THEN i.lb ELSE Fin(- i.lb.n))
    BY <1>0, <1>1, <1>6, QuotientByUnit DEF BDiv
  <2> HIDE DEF l, u
  <2>3. IDiv(i, Just(c)) = [lb |-> l, ub |-> u]
    <3>1. IDiv(i, Just(c)) # Bottom
      BY DEF is_singleton, Bottom, Fin
    <3> QED
      BY <2>1, <3>1 DEF Between
  <2>4. l = u /\ ~ l.inf
    BY <2>3 DEF is_singleton
  <2>5. ~ i.ub.inf /\ ~ i.lb.inf
    <3>1. ~ i.ub.inf
      BY <2>2, <2>4
    <3> QED
      BY <2>2, <2>4
  <2>6. l.n = - i.ub.n /\ u.n = - i.lb.n
    BY <1>0, <2>2, <2>5, BoundFacts
  <2>7. i.ub.n = i.lb.n
    BY <1>0, <2>4, <2>6
  <2> QED
    BY <1>0, <1>6, <2>3, <2>5, <2>6, <2>7 DEF Holds
<1> QED
  BY <1>5, <1>6

-----------------------------------------------------------------------------
(***************************************************************************)
(* Graphs and their solutions.  A valuation gives a number to each vertex, *)
(* and 0 to the constant zero.  Gr(V, Q) has the graphs over the vertices  *)
(* V that every valuation of Q satisfies: that an operation on graphs      *)
(* stays within Gr(V, Q), whatever Q, says that each edge it adds follows  *)
(* from the edges that were there.                                         *)
(***************************************************************************)

Verts == 0..Fresh

Partial(S, T) == UNION {[D -> T] : D \in SUBSET S}

GraphsOn(V) == Partial(V \X V, Int)

Valuations == {q \in [Verts -> Int] : q[0] = 0}

Sat(q, g) == \A e \in DOMAIN g : q[e[2]] - q[e[1]] <= g[e]

Gr(V, Q) == {g \in GraphsOn(V) : \A q \in Q : Sat(q, g)}

LEMMA PartialIntro ==
  ASSUME NEW S, NEW T, NEW D \in SUBSET S, NEW f \in [D -> T]
  PROVE  f \in Partial(S, T)
  BY DEF Partial

LEMMA PartialElim ==
  ASSUME NEW S, NEW T, NEW f \in Partial(S, T)
  PROVE  DOMAIN f \in SUBSET S /\ f \in [DOMAIN f -> T]
  BY DEF Partial

LEMMA VertFacts ==
  /\ 0 \in Verts /\ Fresh \in Verts /\ Vars \subseteq Verts /\ Verts \subseteq Int
  /\ 0 \notin Vars /\ Fresh \notin Vars /\ Fresh # 0
  /\ \A v \in Verts : v = 0 \/ v = Fresh \/ v \in Vars
  /\ \A V \in SUBSET Verts : IsFiniteSet(V) /\ V \subseteq Int /\ Cardinality(V) \in Nat
<1>0. NumVars \in Nat /\ NumVars > 0
  BY NumVarsAssumption
<1>1. IsFiniteSet(Verts) /\ Verts \subseteq Int
  BY <1>0, FS_Interval DEF Verts, Fresh
<1>2. \A V \in SUBSET Verts : IsFiniteSet(V) /\ V \subseteq Int /\ Cardinality(V) \in Nat
  BY <1>1, FS_Subset, FS_CardinalityType
<1>3. 0 \in Verts /\ Fresh \in Verts /\ Vars \subseteq Verts
  BY <1>0 DEF Verts, Fresh, Vars
<1>4. 0 \notin Vars /\ Fresh \notin Vars /\ Fresh # 0
  BY <1>0 DEF Verts, Fresh, Vars
<1>5. \A v \in Verts : v = 0 \/ v = Fresh \/ v \in Vars
  BY <1>0 DEF Verts, Fresh, Vars
<1> QED
  BY <1>1, <1>2, <1>3, <1>4, <1>5

LEMMA ValuationFacts ==
  ASSUME NEW V \in SUBSET Verts, NEW Q \in SUBSET Valuations, NEW q \in Q
  PROVE  q[0] = 0 /\ \A v \in V : q[v] \in Int
  BY DEF Valuations

LEMMA GrElim ==
  ASSUME NEW V, NEW Q, NEW g \in Gr(V, Q)
  PROVE  /\ DOMAIN g \in SUBSET (V \X V) /\ g \in [DOMAIN g -> Int]
         /\ \A e \in DOMAIN g : e[1] \in V /\ e[2] \in V /\ g[e] \in Int
         /\ \A e \in DOMAIN g : \A q \in Q : q[e[2]] - q[e[1]] <= g[e]
<1>1. g \in Partial(V \X V, Int) /\ \A q \in Q : Sat(q, g)
  BY DEF Gr, GraphsOn
<1>2. DOMAIN g \in SUBSET (V \X V) /\ g \in [DOMAIN g -> Int]
  BY <1>1, PartialElim
<1> QED
  BY <1>1, <1>2 DEF Sat

LEMMA GrIntro ==
  ASSUME NEW V, NEW Q, NEW D \in SUBSET (V \X V), NEW g \in [D -> Int],
         \A e \in D : \A q \in Q : q[e[2]] - q[e[1]] <= g[e]
  PROVE  g \in Gr(V, Q)
<1>1. g \in GraphsOn(V)
  BY PartialIntro DEF GraphsOn
<1> QED
  BY <1>1 DEF Gr, Sat

LEMMA ElemFacts ==
  ASSUME NEW V, NEW Q, NEW g \in Gr(V, Q)
  PROVE  /\ \A s, d : elem(g, s, d) =>
              /\ s \in V /\ d \in V /\ edge_val(g, s, d) \in Int
              /\ \A q \in Q : q[d] - q[s] <= edge_val(g, s, d)
         /\ \A s, d : d \in succs(g, s) <=> elem(g, s, d)
         /\ \A s, d : s \in preds(g, d) <=> elem(g, s, d)
         /\ \A v : succs(g, v) \subseteq V /\ preds(g, v) \subseteq V
<1>1. DOMAIN g \in SUBSET (V \X V)
  BY GrElim
<1>2. ASSUME NEW s, NEW d, elem(g, s, d)
      PROVE  /\ s \in V /\ d \in V /\ edge_val(g, s, d) \in Int
             /\ \A q \in Q : q[d] - q[s] <= edge_val(g, s, d)
  <2>1. <<s, d>> \in DOMAIN g
    BY <1>2 DEF elem
  <2> DEFINE e == <<s, d>>
  <2>2. e[1] \in V /\ e[2] \in V /\ g[e] \in Int /\ \A q \in Q : q[e[2]] - q[e[1]] <= g[e]
    <3> HIDE DEF e
    <3>1. e \in DOMAIN g
      BY <2>1 DEF e
    <3> QED
      BY <3>1, GrElim
  <2>3. e[1] = s /\ e[2] = d
    OBVIOUS
  <2> QED
    BY <2>2, <2>3 DEF edge_val
<1>3. \A s, d : d \in succs(g, s) <=> elem(g, s, d)
  BY <1>1 DEF succs, elem
<1>4. \A s, d : s \in preds(g, d) <=> elem(g, s, d)
  BY <1>1 DEF preds, elem
<1> QED
  BY <1>2, <1>3, <1>4

LEMMA MergeFacts ==
  ASSUME NEW f, NEW g
  PROVE  /\ DOMAIN (f ++ g) = DOMAIN f \cup DOMAIN g
         /\ \A x \in DOMAIN f : (f ++ g)[x] = f[x]
         /\ \A x \in (DOMAIN g) \ (DOMAIN f) : (f ++ g)[x] = g[x]
  BY DEF ++

LEMMA MergePartial ==
  ASSUME NEW S, NEW T, NEW f \in Partial(S, T), NEW g \in Partial(S, T)
  PROVE  f ++ g \in Partial(S, T)
<1>1. DOMAIN f \in SUBSET S /\ f \in [DOMAIN f -> T] /\ DOMAIN g \in SUBSET S /\ g \in [DOMAIN g -> T]
  BY PartialElim
<1>2. f ++ g \in [DOMAIN f \cup DOMAIN g -> T]
  BY <1>1 DEF ++
<1>3. DOMAIN f \cup DOMAIN g \in SUBSET S
  BY <1>1
<1> QED
  BY <1>2, <1>3, PartialIntro

LEMMA MergeGr ==
  ASSUME NEW V, NEW Q, NEW f \in Gr(V, Q), NEW g \in Gr(V, Q)
  PROVE  f ++ g \in Gr(V, Q)
<1> DEFINE D == DOMAIN f \cup DOMAIN g
           m == f ++ g
<1>1. /\ DOMAIN f \in SUBSET (V \X V) /\ f \in [DOMAIN f -> Int]
      /\ \A e \in DOMAIN f : \A q \in Q : q[e[2]] - q[e[1]] <= f[e]
  BY GrElim
<1>2. /\ DOMAIN g \in SUBSET (V \X V) /\ g \in [DOMAIN g -> Int]
      /\ \A e \in DOMAIN g : \A q \in Q : q[e[2]] - q[e[1]] <= g[e]
  BY GrElim
<1>3. m \in [D -> Int] /\ \A e \in D : m[e] = IF e \in DOMAIN f THEN f[e] ELSE g[e]
  BY <1>1, <1>2 DEF ++
<1> HIDE DEF m
<1>4. D \in SUBSET (V \X V)
  BY <1>1, <1>2
<1>5. \A e \in D : \A q \in Q : q[e[2]] - q[e[1]] <= m[e]
  BY <1>1, <1>2, <1>3
<1> HIDE DEF D
<1>6. m \in Gr(V, Q)
  BY <1>3, <1>4, <1>5, GrIntro
<1> QED
  BY <1>6 DEF m

LEMMA EmptyGr ==
  ASSUME NEW V, NEW Q
  PROVE  <<>> \in Gr(V, Q)
<1>1. <<>> \in [{} -> Int] /\ {} \in SUBSET (V \X V)
  OBVIOUS
<1> QED
  BY <1>1, GrIntro

LEMMA GrMono ==
  ASSUME NEW V, NEW W, V \subseteq W, NEW Q, NEW R, R \subseteq Q, NEW g \in Gr(V, Q)
  PROVE  g \in Gr(W, R)
<1>1. /\ DOMAIN g \in SUBSET (V \X V) /\ g \in [DOMAIN g -> Int]
      /\ \A e \in DOMAIN g : \A q \in Q : q[e[2]] - q[e[1]] <= g[e]
  BY GrElim
<1>2. DOMAIN g \in SUBSET (W \X W)
  BY <1>1
<1>3. \A e \in DOMAIN g : \A q \in R : q[e[2]] - q[e[1]] <= g[e]
  BY <1>1
<1> QED
  BY <1>1, <1>2, <1>3, GrIntro

(* One edge, and the edges of a product. *)
LEMMA EdgeGr ==
  ASSUME NEW V, NEW Q, NEW s \in V, NEW d \in V, NEW w \in Int, \A q \in Q : q[d] - q[s] <= w
  PROVE  [e \in {<<s, d>>} |-> w] \in Gr(V, Q)
<1> DEFINE D == {<<s, d>>}
           g == [e \in D |-> w]
<1>1. D \in SUBSET (V \X V) /\ g \in [D -> Int]
  OBVIOUS
<1>2. \A e \in D : \A q \in Q : q[e[2]] - q[e[1]] <= g[e]
  OBVIOUS
<1>3. g \in Gr(V, Q)
  <2> HIDE DEF D, g
  <2> QED
    BY <1>1, <1>2, GrIntro
<1> QED
  BY <1>3

LEMMA SetEdgeGr ==
  ASSUME NEW V, NEW Q, NEW g \in Gr(V, Q),
         NEW s \in V, NEW d \in V, NEW w \in Int, \A q \in Q : q[d] - q[s] <= w
  PROVE  /\ set_edge(g, s, w, d) \in Gr(V, Q)
         /\ update_edge(g, s, w, d) \in Gr(V, Q)
<1>1. set_edge(g, s, w, d) \in Gr(V, Q)
  <2>1. [e \in {<<s, d>>} |-> w] \in Gr(V, Q)
    BY EdgeGr
  <2> QED
    BY <2>1, MergeGr DEF set_edge
<1> QED
  BY <1>1 DEF update_edge

(* The edges of the changed graph. *)
LEMMA SubGraphGr ==
  ASSUME NEW V, NEW Q, NEW g \in Gr(V, Q), NEW v
  PROVE  SubGraph(g, v) \in Gr(V \ {v}, Q)
<1> DEFINE D == {f \in DOMAIN g : f[1] # v /\ f[2] # v}
           h == [e \in D |-> g[e]]
<1>1. /\ DOMAIN g \in SUBSET (V \X V) /\ g \in [DOMAIN g -> Int]
      /\ \A e \in DOMAIN g : \A q \in Q : q[e[2]] - q[e[1]] <= g[e]
  BY GrElim
<1>2. D \in SUBSET ((V \ {v}) \X (V \ {v}))
  BY <1>1
<1>3. h \in [D -> Int] /\ \A e \in D : \A q \in Q : q[e[2]] - q[e[1]] <= h[e]
  BY <1>1
<1>4. h \in Gr(V \ {v}, Q)
  <2> HIDE DEF D, h
  <2> QED
    BY <1>2, <1>3, GrIntro
<1> QED
  BY <1>4 DEF SubGraph

LEMMA GraphPermGr ==
  ASSUME NEW V, NEW Q, NEW g \in Gr(V, Q), NEW S
  PROVE  GraphPerm(g, S) \in Gr(S, Q)
<1> DEFINE D == {f \in DOMAIN g : f[1] \in S /\ f[2] \in S}
           h == [e \in D |-> g[e]]
<1>1. /\ DOMAIN g \in SUBSET (V \X V) /\ g \in [DOMAIN g -> Int]
      /\ \A e \in DOMAIN g : \A q \in Q : q[e[2]] - q[e[1]] <= g[e]
  BY GrElim
<1>2. D \in SUBSET (S \X S)
  BY <1>1
<1>3. h \in [D -> Int] /\ \A e \in D : \A q \in Q : q[e[2]] - q[e[1]] <= h[e]
  BY <1>1
<1>4. h \in Gr(S, Q)
  <2> HIDE DEF D, h
  <2> QED
    BY <1>2, <1>3, GrIntro
<1> QED
  BY <1>4 DEF GraphPerm

(* Reversing the edges negates the valuations. *)
Negated(q) == [v \in Verts |-> - q[v]]

LEMMA GraphRevGr ==
  ASSUME NEW V \in SUBSET Verts, NEW Q \in SUBSET Valuations, NEW g \in Gr(V, Q)
  PROVE  /\ {Negated(q) : q \in Q} \in SUBSET Valuations
         /\ GraphRev(g) \in Gr(V, {Negated(q) : q \in Q})
<1> DEFINE D == {<<f[2], f[1]>> : f \in DOMAIN g}
           h == [e \in D |-> edge_val(g, e[2], e[1])]
           R == {Negated(q) : q \in Q}
<1>1. /\ DOMAIN g \in SUBSET (V \X V) /\ g \in [DOMAIN g -> Int]
      /\ \A e \in DOMAIN g : \A q \in Q : q[e[2]] - q[e[1]] <= g[e]
  BY GrElim
<1>2. R \in SUBSET Valuations
  <2> SUFFICES ASSUME NEW q \in Q
               PROVE  Negated(q) \in Valuations
    OBVIOUS
  <2>1. q \in [Verts -> Int] /\ q[0] = 0
    BY DEF Valuations
  <2>2. Negated(q) \in [Verts -> Int] /\ Negated(q)[0] = 0
    BY <2>1, VertFacts DEF Negated
  <2> QED
    BY <2>2 DEF Valuations
<1>3. D \in SUBSET (V \X V)
  BY <1>1
<1>4. ASSUME NEW e \in D
      PROVE  h[e] \in Int /\ \A q \in R : q[e[2]] - q[e[1]] <= h[e]
  <2>1. e \in V \X V /\ elem(g, e[2], e[1]) /\ h[e] = edge_val(g, e[2], e[1])
    BY <1>1 DEF elem
  <2> HIDE DEF h, D
  <2>2. /\ edge_val(g, e[2], e[1]) \in Int
        /\ \A q \in Q : q[e[1]] - q[e[2]] <= edge_val(g, e[2], e[1])
    BY <2>1, ElemFacts
  <2>3. ASSUME NEW q \in Q
        PROVE  Negated(q)[e[2]] - Negated(q)[e[1]] <= h[e]
    <3>1. e[1] \in V /\ e[2] \in V
      BY <2>1
    <3>2. q[e[1]] \in Int /\ q[e[2]] \in Int
      BY <3>1, ValuationFacts
    <3>3. Negated(q)[e[1]] = - q[e[1]] /\ Negated(q)[e[2]] = - q[e[2]]
      BY <3>1 DEF Negated
    <3> QED
      BY <2>1, <2>2, <3>2, <3>3
  <2> QED
    BY <2>1, <2>2, <2>3
<1>5. h \in [D -> Int]
  BY <1>4
<1>6. h \in Gr(V, R)
  <2> HIDE DEF D, h, R
  <2> QED
    BY <1>3, <1>4, <1>5, GrIntro
<1> QED
  BY <1>2, <1>6 DEF GraphRev

(* Visiting one vertex after the other. *)
VisitAll(g, base, seq) == FoldLeft(LAMBDA a, x : Visit(g, a, x), base, seq)

LEMMA VisitAllWithin ==
  ASSUME NEW g, NEW G, NEW B, NEW base \in G, NEW n \in Nat, NEW seq,
         DOMAIN seq = 1..n, \A i \in 1..n : seq[i] \in B,
         \A a \in G : \A x \in B : Visit(g, a, x) \in G
  PROVE  VisitAll(g, base, seq) \in G
<1> DEFINE F == [y \in G \X B |-> Visit(g, y[1], y[2])]
           Body(f, s) == IF s = {} THEN base ELSE Visit(g, f[s \ {Max(s)}], seq[Max(s)])
           f == CHOOSE ff : ff = [s \in SUBSET (DOMAIN seq) |-> Body(ff, s)]
           h == [i \in 0..n |-> f[1..i]]
<1>1. F \in [G \X B -> G] /\ \A a \in G : \A x \in B : F[<<a, x>>] = Visit(g, a, x)
  OBVIOUS
<1>2. PICK e \in [SUBSET (1..n) -> G] : \A s \in SUBSET (1..n) : e[s] = FoldBody(F, base, seq, e, s)
  <2> HIDE DEF F, f, h, Body
  <2>1. F \in [G \X B -> G]
    BY <1>1
  <2>2. HasFold(F, base, seq, n, G)
    BY <2>1, FoldExists
  <2> QED
    BY <2>2 DEF HasFold
<1>3. \A s \in SUBSET (1..n) : s # {} => s \ {Max(s)} \in SUBSET (1..n) /\ Max(s) \in 1..n
  BY MaxOfIndices
<1>4. \A s \in SUBSET (1..n) : e[s] = Body(e, s)
  <2> TAKE s \in SUBSET (1..n)
  <2>1. CASE s = {}
    BY <1>2, <2>1 DEF FoldBody
  <2>2. CASE s # {}
    <3> DEFINE r == s \ {Max(s)}
               m == Max(s)
    <3>1. e[r] \in G /\ seq[m] \in B
      BY <1>3, <2>2
    <3>2. e[s] = F[<<e[r], seq[m]>>]
      BY <1>2, <2>2 DEF FoldBody
    <3>3. Body(e, s) = Visit(g, e[r], seq[m])
      BY <2>2
    <3> HIDE DEF F, r, m, Body
    <3> QED
      BY <1>1, <3>1, <3>2, <3>3
  <2> QED
    BY <2>1, <2>2
<1>5. e = [s \in SUBSET (DOMAIN seq) |-> Body(e, s)]
  <2> HIDE DEF Body
  <2> QED
    BY <1>4
<1>6. f = [s \in SUBSET (DOMAIN seq) |-> Body(f, s)]
  <2> HIDE DEF Body
  <2> QED
    BY <1>5
<1>7. VisitAll(g, base, seq) = f[1..n]
  BY DEF VisitAll, FoldLeft, MapThenFoldSet
<1> HIDE DEF f
<1>8. f[{}] = base /\ 1..0 = {}
  BY <1>6
<1>9. \A i \in 1..n : f[1..i] = Visit(g, f[1..(i - 1)], seq[i])
  <2> TAKE i \in 1..n
  <2>1. Max(1..i) = i /\ (1..i) \ {i} = 1..(i - 1) /\ 1..i # {}
    <3>1. i \in Nat /\ i # 0
      OBVIOUS
    <3> HIDE DEF h, F, Body
    <3> QED
      BY <3>1, MaxOfInterval
  <2>2. 1..i \in SUBSET (1..n)
    OBVIOUS
  <2>3. f[1..i] = Body(f, 1..i)
    BY <1>6, <2>2
  <2> QED
    BY <2>1, <2>3
<1>10. /\ \A i \in 0..n : h[i] = f[1..i]
       /\ \A i \in 1..n : i \in 0..n /\ i - 1 \in 0..n
       /\ 0 \in 0..n /\ n \in 0..n
  OBVIOUS
<1>11. h[0] = base /\ h[n] = f[1..n]
  <2> HIDE DEF h
  <2> QED
    BY <1>8, <1>10
<1>12. \A i \in 1..n : h[i] = Visit(g, h[i - 1], seq[i])
  <2> HIDE DEF h
  <2> QED
    BY <1>9, <1>10
<1>13. \A i \in 1..n : h[i - 1] \in G => h[i] \in G
  <2> HIDE DEF h
  <2> QED
    BY <1>12
<1>14. \A i \in 0..n : h[i] \in G
  <2> HIDE DEF h
  <2> QED
    BY <1>11, <1>13, HistoryInduction
<1>15. h \in [0..n -> G]
  BY <1>14
<1> HIDE DEF h
<1> QED
  BY <1>7, <1>11, <1>14, <1>10

(* The steps of repair_potential. *)
RepairAll(g, p, base, seq) == FoldLeft(LAMBDA a, x : RepairNearest(g, p, a), base, seq)

RepairAllHistory(g, p, base, seq, n, G) ==
  \E h \in [0..n -> G] :
    /\ h[0] = base
    /\ \A i \in 1..n : h[i] = RepairNearest(g, p, h[i - 1])
    /\ RepairAll(g, p, base, seq) = h[n]

LEMMA RepairAllWithin ==
  ASSUME NEW g, NEW p, NEW G, NEW B, NEW base \in G, NEW n \in Nat, NEW seq,
         DOMAIN seq = 1..n, \A i \in 1..n : seq[i] \in B,
         \A a \in G : \A x \in B : RepairNearest(g, p, a) \in G
  PROVE  RepairAllHistory(g, p, base, seq, n, G)
<1> DEFINE F == [y \in G \X B |-> RepairNearest(g, p, y[1])]
           Body(f, s) == IF s = {} THEN base ELSE RepairNearest(g, p, f[s \ {Max(s)}])
           f == CHOOSE ff : ff = [s \in SUBSET (DOMAIN seq) |-> Body(ff, s)]
           h == [i \in 0..n |-> f[1..i]]
<1>1. F \in [G \X B -> G] /\ \A a \in G : \A x \in B : F[<<a, x>>] = RepairNearest(g, p, a)
  OBVIOUS
<1>2. PICK e \in [SUBSET (1..n) -> G] : \A s \in SUBSET (1..n) : e[s] = FoldBody(F, base, seq, e, s)
  <2> HIDE DEF F, f, h, Body
  <2>1. F \in [G \X B -> G]
    BY <1>1
  <2>2. HasFold(F, base, seq, n, G)
    BY <2>1, FoldExists
  <2> QED
    BY <2>2 DEF HasFold
<1>3. \A s \in SUBSET (1..n) : s # {} => s \ {Max(s)} \in SUBSET (1..n) /\ Max(s) \in 1..n
  BY MaxOfIndices
<1>4. \A s \in SUBSET (1..n) : e[s] = Body(e, s)
  <2> TAKE s \in SUBSET (1..n)
  <2>1. CASE s = {}
    BY <1>2, <2>1 DEF FoldBody
  <2>2. CASE s # {}
    <3> DEFINE r == s \ {Max(s)}
               m == Max(s)
    <3>1. e[r] \in G /\ seq[m] \in B
      BY <1>3, <2>2
    <3>2. e[s] = F[<<e[r], seq[m]>>]
      BY <1>2, <2>2 DEF FoldBody
    <3>3. Body(e, s) = RepairNearest(g, p, e[r])
      BY <2>2
    <3> HIDE DEF F, r, m, Body
    <3> QED
      BY <1>1, <3>1, <3>2, <3>3
  <2> QED
    BY <2>1, <2>2
<1>5. e = [s \in SUBSET (DOMAIN seq) |-> Body(e, s)]
  <2> HIDE DEF Body
  <2> QED
    BY <1>4
<1>6. f = [s \in SUBSET (DOMAIN seq) |-> Body(f, s)]
  <2> HIDE DEF Body
  <2> QED
    BY <1>5
<1>7. RepairAll(g, p, base, seq) = f[1..n]
  BY DEF RepairAll, FoldLeft, MapThenFoldSet
<1> HIDE DEF f
<1>8. f[{}] = base /\ 1..0 = {}
  BY <1>6
<1>9. \A i \in 1..n : f[1..i] = RepairNearest(g, p, f[1..(i - 1)])
  <2> TAKE i \in 1..n
  <2>1. Max(1..i) = i /\ (1..i) \ {i} = 1..(i - 1) /\ 1..i # {}
    <3>1. i \in Nat /\ i # 0
      OBVIOUS
    <3> HIDE DEF h, F, Body
    <3> QED
      BY <3>1, MaxOfInterval
  <2>2. 1..i \in SUBSET (1..n)
    OBVIOUS
  <2>3. f[1..i] = Body(f, 1..i)
    BY <1>6, <2>2
  <2> QED
    BY <2>1, <2>3
<1>10. /\ \A i \in 0..n : h[i] = f[1..i]
       /\ \A i \in 1..n : i \in 0..n /\ i - 1 \in 0..n
       /\ 0 \in 0..n /\ n \in 0..n
  OBVIOUS
<1>11. h[0] = base /\ h[n] = f[1..n]
  <2> HIDE DEF h
  <2> QED
    BY <1>8, <1>10
<1>12. \A i \in 1..n : h[i] = RepairNearest(g, p, h[i - 1])
  <2> HIDE DEF h
  <2> QED
    BY <1>9, <1>10
<1>13. \A i \in 1..n : h[i - 1] \in G => h[i] \in G
  <2> HIDE DEF h
  <2> QED
    BY <1>12
<1>14. \A i \in 0..n : h[i] \in G
  <2> HIDE DEF h
  <2> QED
    BY <1>11, <1>13, HistoryInduction
<1>15. h \in [0..n -> G]
  BY <1>14
<1> HIDE DEF h
<1> QED
  BY <1>7, <1>11, <1>12, <1>15 DEF RepairAllHistory

(* The steps of chrome_dijkstra. *)
ChromeAll(g, p, colour, src, base, seq) == FoldLeft(LAMBDA a, x : ChromeStep(g, p, colour, src, a), base, seq)

LEMMA ChromeAllWithin ==
  ASSUME NEW g, NEW p, NEW colour, NEW src, NEW G, NEW B, NEW base \in G, NEW n \in Nat, NEW seq,
         DOMAIN seq = 1..n, \A i \in 1..n : seq[i] \in B,
         \A a \in G : \A x \in B : ChromeStep(g, p, colour, src, a) \in G
  PROVE  ChromeAll(g, p, colour, src, base, seq) \in G
<1> DEFINE F == [y \in G \X B |-> ChromeStep(g, p, colour, src, y[1])]
           Body(f, s) == IF s = {} THEN base ELSE ChromeStep(g, p, colour, src, f[s \ {Max(s)}])
           f == CHOOSE ff : ff = [s \in SUBSET (DOMAIN seq) |-> Body(ff, s)]
           h == [i \in 0..n |-> f[1..i]]
<1>1. F \in [G \X B -> G] /\ \A a \in G : \A x \in B : F[<<a, x>>] = ChromeStep(g, p, colour, src, a)
  OBVIOUS
<1>2. PICK e \in [SUBSET (1..n) -> G] : \A s \in SUBSET (1..n) : e[s] = FoldBody(F, base, seq, e, s)
  <2> HIDE DEF F, f, h, Body
  <2>1. F \in [G \X B -> G]
    BY <1>1
  <2>2. HasFold(F, base, seq, n, G)
    BY <2>1, FoldExists
  <2> QED
    BY <2>2 DEF HasFold
<1>3. \A s \in SUBSET (1..n) : s # {} => s \ {Max(s)} \in SUBSET (1..n) /\ Max(s) \in 1..n
  BY MaxOfIndices
<1>4. \A s \in SUBSET (1..n) : e[s] = Body(e, s)
  <2> TAKE s \in SUBSET (1..n)
  <2>1. CASE s = {}
    BY <1>2, <2>1 DEF FoldBody
  <2>2. CASE s # {}
    <3> DEFINE r == s \ {Max(s)}
               m == Max(s)
    <3>1. e[r] \in G /\ seq[m] \in B
      BY <1>3, <2>2
    <3>2. e[s] = F[<<e[r], seq[m]>>]
      BY <1>2, <2>2 DEF FoldBody
    <3>3. Body(e, s) = ChromeStep(g, p, colour, src, e[r])
      BY <2>2
    <3> HIDE DEF F, r, m, Body
    <3> QED
      BY <1>1, <3>1, <3>2, <3>3
  <2> QED
    BY <2>1, <2>2
<1>5. e = [s \in SUBSET (DOMAIN seq) |-> Body(e, s)]
  <2> HIDE DEF Body
  <2> QED
    BY <1>4
<1>6. f = [s \in SUBSET (DOMAIN seq) |-> Body(f, s)]
  <2> HIDE DEF Body
  <2> QED
    BY <1>5
<1>7. ChromeAll(g, p, colour, src, base, seq) = f[1..n]
  BY DEF ChromeAll, FoldLeft, MapThenFoldSet
<1> HIDE DEF f
<1>8. f[{}] = base /\ 1..0 = {}
  BY <1>6
<1>9. \A i \in 1..n : f[1..i] = ChromeStep(g, p, colour, src, f[1..(i - 1)])
  <2> TAKE i \in 1..n
  <2>1. Max(1..i) = i /\ (1..i) \ {i} = 1..(i - 1) /\ 1..i # {}
    <3>1. i \in Nat /\ i # 0
      OBVIOUS
    <3> HIDE DEF h, F, Body
    <3> QED
      BY <3>1, MaxOfInterval
  <2>2. 1..i \in SUBSET (1..n)
    OBVIOUS
  <2>3. f[1..i] = Body(f, 1..i)
    BY <1>6, <2>2
  <2> QED
    BY <2>1, <2>3
<1>10. /\ \A i \in 0..n : h[i] = f[1..i]
       /\ \A i \in 1..n : i \in 0..n /\ i - 1 \in 0..n
       /\ 0 \in 0..n /\ n \in 0..n
  OBVIOUS
<1>11. h[0] = base /\ h[n] = f[1..n]
  <2> HIDE DEF h
  <2> QED
    BY <1>8, <1>10
<1>12. \A i \in 1..n : h[i] = ChromeStep(g, p, colour, src, h[i - 1])
  <2> HIDE DEF h
  <2> QED
    BY <1>9, <1>10
<1>13. \A i \in 1..n : h[i - 1] \in G => h[i] \in G
  <2> HIDE DEF h
  <2> QED
    BY <1>12
<1>14. \A i \in 0..n : h[i] \in G
  <2> HIDE DEF h
  <2> QED
    BY <1>11, <1>13, HistoryInduction
<1>15. h \in [0..n -> G]
  BY <1>14
<1> HIDE DEF h
<1> QED
  BY <1>7, <1>11, <1>14, <1>10

(* The steps of dijkstra_recover. *)
RecoverAll(g, p, colour, src, base, seq) == FoldLeft(LAMBDA a, x : RecoverStep(g, p, colour, src, a), base, seq)

LEMMA RecoverAllWithin ==
  ASSUME NEW g, NEW p, NEW colour, NEW src, NEW G, NEW B, NEW base \in G, NEW n \in Nat, NEW seq,
         DOMAIN seq = 1..n, \A i \in 1..n : seq[i] \in B,
         \A a \in G : \A x \in B : RecoverStep(g, p, colour, src, a) \in G
  PROVE  RecoverAll(g, p, colour, src, base, seq) \in G
<1> DEFINE F == [y \in G \X B |-> RecoverStep(g, p, colour, src, y[1])]
           Body(f, s) == IF s = {} THEN base ELSE RecoverStep(g, p, colour, src, f[s \ {Max(s)}])
           f == CHOOSE ff : ff = [s \in SUBSET (DOMAIN seq) |-> Body(ff, s)]
           h == [i \in 0..n |-> f[1..i]]
<1>1. F \in [G \X B -> G] /\ \A a \in G : \A x \in B : F[<<a, x>>] = RecoverStep(g, p, colour, src, a)
  OBVIOUS
<1>2. PICK e \in [SUBSET (1..n) -> G] : \A s \in SUBSET (1..n) : e[s] = FoldBody(F, base, seq, e, s)
  <2> HIDE DEF F, f, h, Body
  <2>1. F \in [G \X B -> G]
    BY <1>1
  <2>2. HasFold(F, base, seq, n, G)
    BY <2>1, FoldExists
  <2> QED
    BY <2>2 DEF HasFold
<1>3. \A s \in SUBSET (1..n) : s # {} => s \ {Max(s)} \in SUBSET (1..n) /\ Max(s) \in 1..n
  BY MaxOfIndices
<1>4. \A s \in SUBSET (1..n) : e[s] = Body(e, s)
  <2> TAKE s \in SUBSET (1..n)
  <2>1. CASE s = {}
    BY <1>2, <2>1 DEF FoldBody
  <2>2. CASE s # {}
    <3> DEFINE r == s \ {Max(s)}
               m == Max(s)
    <3>1. e[r] \in G /\ seq[m] \in B
      BY <1>3, <2>2
    <3>2. e[s] = F[<<e[r], seq[m]>>]
      BY <1>2, <2>2 DEF FoldBody
    <3>3. Body(e, s) = RecoverStep(g, p, colour, src, e[r])
      BY <2>2
    <3> HIDE DEF F, r, m, Body
    <3> QED
      BY <1>1, <3>1, <3>2, <3>3
  <2> QED
    BY <2>1, <2>2
<1>5. e = [s \in SUBSET (DOMAIN seq) |-> Body(e, s)]
  <2> HIDE DEF Body
  <2> QED
    BY <1>4
<1>6. f = [s \in SUBSET (DOMAIN seq) |-> Body(f, s)]
  <2> HIDE DEF Body
  <2> QED
    BY <1>5
<1>7. RecoverAll(g, p, colour, src, base, seq) = f[1..n]
  BY DEF RecoverAll, FoldLeft, MapThenFoldSet
<1> HIDE DEF f
<1>8. f[{}] = base /\ 1..0 = {}
  BY <1>6
<1>9. \A i \in 1..n : f[1..i] = RecoverStep(g, p, colour, src, f[1..(i - 1)])
  <2> TAKE i \in 1..n
  <2>1. Max(1..i) = i /\ (1..i) \ {i} = 1..(i - 1) /\ 1..i # {}
    <3>1. i \in Nat /\ i # 0
      OBVIOUS
    <3> HIDE DEF h, F, Body
    <3> QED
      BY <3>1, MaxOfInterval
  <2>2. 1..i \in SUBSET (1..n)
    OBVIOUS
  <2>3. f[1..i] = Body(f, 1..i)
    BY <1>6, <2>2
  <2> QED
    BY <2>1, <2>3
<1>10. /\ \A i \in 0..n : h[i] = f[1..i]
       /\ \A i \in 1..n : i \in 0..n /\ i - 1 \in 0..n
       /\ 0 \in 0..n /\ n \in 0..n
  OBVIOUS
<1>11. h[0] = base /\ h[n] = f[1..n]
  <2> HIDE DEF h
  <2> QED
    BY <1>8, <1>10
<1>12. \A i \in 1..n : h[i] = RecoverStep(g, p, colour, src, h[i - 1])
  <2> HIDE DEF h
  <2> QED
    BY <1>9, <1>10
<1>13. \A i \in 1..n : h[i - 1] \in G => h[i] \in G
  <2> HIDE DEF h
  <2> QED
    BY <1>12
<1>14. \A i \in 0..n : h[i] \in G
  <2> HIDE DEF h
  <2> QED
    BY <1>11, <1>13, HistoryInduction
<1>15. h \in [0..n -> G]
  BY <1>14
<1> HIDE DEF h
<1> QED
  BY <1>7, <1>11, <1>14, <1>10

(* The edges that close_after_meet collects. *)
MeetDeltas(g, p, colour, base, seq) == FoldLeft(LAMBDA a, x : chrome_dijkstra(g, p, colour, x) ++ a, base, seq)

LEMMA MeetDeltasWithin ==
  ASSUME NEW g, NEW p, NEW colour, NEW G, NEW B, NEW base \in G, NEW n \in Nat, NEW seq,
         DOMAIN seq = 1..n, \A i \in 1..n : seq[i] \in B,
         \A a \in G : \A x \in B : chrome_dijkstra(g, p, colour, x) ++ a \in G
  PROVE  MeetDeltas(g, p, colour, base, seq) \in G
<1> DEFINE F == [y \in G \X B |-> chrome_dijkstra(g, p, colour, y[2]) ++ y[1]]
           Body(f, s) == IF s = {} THEN base ELSE chrome_dijkstra(g, p, colour, seq[Max(s)]) ++ f[s \ {Max(s)}]
           f == CHOOSE ff : ff = [s \in SUBSET (DOMAIN seq) |-> Body(ff, s)]
           h == [i \in 0..n |-> f[1..i]]
<1>1. F \in [G \X B -> G] /\ \A a \in G : \A x \in B : F[<<a, x>>] = chrome_dijkstra(g, p, colour, x) ++ a
  OBVIOUS
<1>2. PICK e \in [SUBSET (1..n) -> G] : \A s \in SUBSET (1..n) : e[s] = FoldBody(F, base, seq, e, s)
  <2> HIDE DEF F, f, h, Body
  <2>1. F \in [G \X B -> G]
    BY <1>1
  <2>2. HasFold(F, base, seq, n, G)
    BY <2>1, FoldExists
  <2> QED
    BY <2>2 DEF HasFold
<1>3. \A s \in SUBSET (1..n) : s # {} => s \ {Max(s)} \in SUBSET (1..n) /\ Max(s) \in 1..n
  BY MaxOfIndices
<1>4. \A s \in SUBSET (1..n) : e[s] = Body(e, s)
  <2> TAKE s \in SUBSET (1..n)
  <2>1. CASE s = {}
    BY <1>2, <2>1 DEF FoldBody
  <2>2. CASE s # {}
    <3> DEFINE r == s \ {Max(s)}
               m == Max(s)
    <3>1. e[r] \in G /\ seq[m] \in B
      BY <1>3, <2>2
    <3>2. e[s] = F[<<e[r], seq[m]>>]
      BY <1>2, <2>2 DEF FoldBody
    <3>3. Body(e, s) = chrome_dijkstra(g, p, colour, seq[m]) ++ e[r]
      BY <2>2
    <3> HIDE DEF F, r, m, Body
    <3> QED
      BY <1>1, <3>1, <3>2, <3>3
  <2> QED
    BY <2>1, <2>2
<1>5. e = [s \in SUBSET (DOMAIN seq) |-> Body(e, s)]
  <2> HIDE DEF Body
  <2> QED
    BY <1>4
<1>6. f = [s \in SUBSET (DOMAIN seq) |-> Body(f, s)]
  <2> HIDE DEF Body
  <2> QED
    BY <1>5
<1>7. MeetDeltas(g, p, colour, base, seq) = f[1..n]
  BY DEF MeetDeltas, FoldLeft, MapThenFoldSet
<1> HIDE DEF f
<1>8. f[{}] = base /\ 1..0 = {}
  BY <1>6
<1>9. \A i \in 1..n : f[1..i] = chrome_dijkstra(g, p, colour, seq[i]) ++ f[1..(i - 1)]
  <2> TAKE i \in 1..n
  <2>1. Max(1..i) = i /\ (1..i) \ {i} = 1..(i - 1) /\ 1..i # {}
    <3>1. i \in Nat /\ i # 0
      OBVIOUS
    <3> HIDE DEF h, F, Body
    <3> QED
      BY <3>1, MaxOfInterval
  <2>2. 1..i \in SUBSET (1..n)
    OBVIOUS
  <2>3. f[1..i] = Body(f, 1..i)
    BY <1>6, <2>2
  <2> QED
    BY <2>1, <2>3
<1>10. /\ \A i \in 0..n : h[i] = f[1..i]
       /\ \A i \in 1..n : i \in 0..n /\ i - 1 \in 0..n
       /\ 0 \in 0..n /\ n \in 0..n
  OBVIOUS
<1>11. h[0] = base /\ h[n] = f[1..n]
  <2> HIDE DEF h
  <2> QED
    BY <1>8, <1>10
<1>12. \A i \in 1..n : h[i] = chrome_dijkstra(g, p, colour, seq[i]) ++ h[i - 1]
  <2> HIDE DEF h
  <2> QED
    BY <1>9, <1>10
<1>13. \A i \in 1..n : h[i - 1] \in G => h[i] \in G
  <2> HIDE DEF h
  <2> QED
    BY <1>12
<1>14. \A i \in 0..n : h[i] \in G
  <2> HIDE DEF h
  <2> QED
    BY <1>11, <1>13, HistoryInduction
<1>15. h \in [0..n -> G]
  BY <1>14
<1> HIDE DEF h
<1> QED
  BY <1>7, <1>11, <1>14, <1>10

(* The edges that close_after_widen collects. *)
WidenDeltas(g, p, S, base, seq) == FoldLeft(LAMBDA a, x : dijkstra_recover(g, p, S, x) ++ a, base, seq)

LEMMA WidenDeltasWithin ==
  ASSUME NEW g, NEW p, NEW S, NEW G, NEW B, NEW base \in G, NEW n \in Nat, NEW seq,
         DOMAIN seq = 1..n, \A i \in 1..n : seq[i] \in B,
         \A a \in G : \A x \in B : dijkstra_recover(g, p, S, x) ++ a \in G
  PROVE  WidenDeltas(g, p, S, base, seq) \in G
<1> DEFINE F == [y \in G \X B |-> dijkstra_recover(g, p, S, y[2]) ++ y[1]]
           Body(f, s) == IF s = {} THEN base ELSE dijkstra_recover(g, p, S, seq[Max(s)]) ++ f[s \ {Max(s)}]
           f == CHOOSE ff : ff = [s \in SUBSET (DOMAIN seq) |-> Body(ff, s)]
           h == [i \in 0..n |-> f[1..i]]
<1>1. F \in [G \X B -> G] /\ \A a \in G : \A x \in B : F[<<a, x>>] = dijkstra_recover(g, p, S, x) ++ a
  OBVIOUS
<1>2. PICK e \in [SUBSET (1..n) -> G] : \A s \in SUBSET (1..n) : e[s] = FoldBody(F, base, seq, e, s)
  <2> HIDE DEF F, f, h, Body
  <2>1. F \in [G \X B -> G]
    BY <1>1
  <2>2. HasFold(F, base, seq, n, G)
    BY <2>1, FoldExists
  <2> QED
    BY <2>2 DEF HasFold
<1>3. \A s \in SUBSET (1..n) : s # {} => s \ {Max(s)} \in SUBSET (1..n) /\ Max(s) \in 1..n
  BY MaxOfIndices
<1>4. \A s \in SUBSET (1..n) : e[s] = Body(e, s)
  <2> TAKE s \in SUBSET (1..n)
  <2>1. CASE s = {}
    BY <1>2, <2>1 DEF FoldBody
  <2>2. CASE s # {}
    <3> DEFINE r == s \ {Max(s)}
               m == Max(s)
    <3>1. e[r] \in G /\ seq[m] \in B
      BY <1>3, <2>2
    <3>2. e[s] = F[<<e[r], seq[m]>>]
      BY <1>2, <2>2 DEF FoldBody
    <3>3. Body(e, s) = dijkstra_recover(g, p, S, seq[m]) ++ e[r]
      BY <2>2
    <3> HIDE DEF F, r, m, Body
    <3> QED
      BY <1>1, <3>1, <3>2, <3>3
  <2> QED
    BY <2>1, <2>2
<1>5. e = [s \in SUBSET (DOMAIN seq) |-> Body(e, s)]
  <2> HIDE DEF Body
  <2> QED
    BY <1>4
<1>6. f = [s \in SUBSET (DOMAIN seq) |-> Body(f, s)]
  <2> HIDE DEF Body
  <2> QED
    BY <1>5
<1>7. WidenDeltas(g, p, S, base, seq) = f[1..n]
  BY DEF WidenDeltas, FoldLeft, MapThenFoldSet
<1> HIDE DEF f
<1>8. f[{}] = base /\ 1..0 = {}
  BY <1>6
<1>9. \A i \in 1..n : f[1..i] = dijkstra_recover(g, p, S, seq[i]) ++ f[1..(i - 1)]
  <2> TAKE i \in 1..n
  <2>1. Max(1..i) = i /\ (1..i) \ {i} = 1..(i - 1) /\ 1..i # {}
    <3>1. i \in Nat /\ i # 0
      OBVIOUS
    <3> HIDE DEF h, F, Body
    <3> QED
      BY <3>1, MaxOfInterval
  <2>2. 1..i \in SUBSET (1..n)
    OBVIOUS
  <2>3. f[1..i] = Body(f, 1..i)
    BY <1>6, <2>2
  <2> QED
    BY <2>1, <2>3
<1>10. /\ \A i \in 0..n : h[i] = f[1..i]
       /\ \A i \in 1..n : i \in 0..n /\ i - 1 \in 0..n
       /\ 0 \in 0..n /\ n \in 0..n
  OBVIOUS
<1>11. h[0] = base /\ h[n] = f[1..n]
  <2> HIDE DEF h
  <2> QED
    BY <1>8, <1>10
<1>12. \A i \in 1..n : h[i] = dijkstra_recover(g, p, S, seq[i]) ++ h[i - 1]
  <2> HIDE DEF h
  <2> QED
    BY <1>9, <1>10
<1>13. \A i \in 1..n : h[i - 1] \in G => h[i] \in G
  <2> HIDE DEF h
  <2> QED
    BY <1>12
<1>14. \A i \in 0..n : h[i] \in G
  <2> HIDE DEF h
  <2> QED
    BY <1>11, <1>13, HistoryInduction
<1>15. h \in [0..n -> G]
  BY <1>14
<1> HIDE DEF h
<1> QED
  BY <1>7, <1>11, <1>14, <1>10

(* The terms of a linear expression. *)
AddTerms(z, t, base, seq) == FoldLeft(LAMBDA a, x : IAdd(a, IMul(Just(t[x]), get_interval(z, x))), base, seq)

AddTermsHistory(z, t, base, seq, n, G) ==
  \E h \in [0..n -> G] :
    /\ h[0] = base
    /\ \A i \in 1..n : h[i] = IAdd(h[i - 1], IMul(Just(t[seq[i]]), get_interval(z, seq[i])))
    /\ AddTerms(z, t, base, seq) = h[n]

LEMMA AddTermsWithin ==
  ASSUME NEW z, NEW t, NEW G, NEW B, NEW base \in G, NEW n \in Nat, NEW seq,
         DOMAIN seq = 1..n, \A i \in 1..n : seq[i] \in B,
         \A a \in G : \A x \in B : IAdd(a, IMul(Just(t[x]), get_interval(z, x))) \in G
  PROVE  AddTermsHistory(z, t, base, seq, n, G)
<1> DEFINE F == [y \in G \X B |-> IAdd(y[1], IMul(Just(t[y[2]]), get_interval(z, y[2])))]
           Body(f, s) == IF s = {} THEN base ELSE IAdd(f[s \ {Max(s)}], IMul(Just(t[seq[Max(s)]]), get_interval(z, seq[Max(s)])))
           f == CHOOSE ff : ff = [s \in SUBSET (DOMAIN seq) |-> Body(ff, s)]
           h == [i \in 0..n |-> f[1..i]]
<1>1. F \in [G \X B -> G] /\ \A a \in G : \A x \in B : F[<<a, x>>] = IAdd(a, IMul(Just(t[x]), get_interval(z, x)))
  OBVIOUS
<1>2. PICK e \in [SUBSET (1..n) -> G] : \A s \in SUBSET (1..n) : e[s] = FoldBody(F, base, seq, e, s)
  <2> HIDE DEF F, f, h, Body
  <2>1. F \in [G \X B -> G]
    BY <1>1
  <2>2. HasFold(F, base, seq, n, G)
    BY <2>1, FoldExists
  <2> QED
    BY <2>2 DEF HasFold
<1>3. \A s \in SUBSET (1..n) : s # {} => s \ {Max(s)} \in SUBSET (1..n) /\ Max(s) \in 1..n
  BY MaxOfIndices
<1>4. \A s \in SUBSET (1..n) : e[s] = Body(e, s)
  <2> TAKE s \in SUBSET (1..n)
  <2>1. CASE s = {}
    BY <1>2, <2>1 DEF FoldBody
  <2>2. CASE s # {}
    <3> DEFINE r == s \ {Max(s)}
               m == Max(s)
    <3>1. e[r] \in G /\ seq[m] \in B
      BY <1>3, <2>2
    <3>2. e[s] = F[<<e[r], seq[m]>>]
      BY <1>2, <2>2 DEF FoldBody
    <3>3. Body(e, s) = IAdd(e[r], IMul(Just(t[seq[m]]), get_interval(z, seq[m])))
      BY <2>2
    <3> HIDE DEF F, r, m, Body
    <3> QED
      BY <1>1, <3>1, <3>2, <3>3
  <2> QED
    BY <2>1, <2>2
<1>5. e = [s \in SUBSET (DOMAIN seq) |-> Body(e, s)]
  <2> HIDE DEF Body
  <2> QED
    BY <1>4
<1>6. f = [s \in SUBSET (DOMAIN seq) |-> Body(f, s)]
  <2> HIDE DEF Body
  <2> QED
    BY <1>5
<1>7. AddTerms(z, t, base, seq) = f[1..n]
  BY DEF AddTerms, FoldLeft, MapThenFoldSet
<1> HIDE DEF f
<1>8. f[{}] = base /\ 1..0 = {}
  BY <1>6
<1>9. \A i \in 1..n : f[1..i] = IAdd(f[1..(i - 1)], IMul(Just(t[seq[i]]), get_interval(z, seq[i])))
  <2> TAKE i \in 1..n
  <2>1. Max(1..i) = i /\ (1..i) \ {i} = 1..(i - 1) /\ 1..i # {}
    <3>1. i \in Nat /\ i # 0
      OBVIOUS
    <3> HIDE DEF h, F, Body
    <3> QED
      BY <3>1, MaxOfInterval
  <2>2. 1..i \in SUBSET (1..n)
    OBVIOUS
  <2>3. f[1..i] = Body(f, 1..i)
    BY <1>6, <2>2
  <2> QED
    BY <2>1, <2>3
<1>10. /\ \A i \in 0..n : h[i] = f[1..i]
       /\ \A i \in 1..n : i \in 0..n /\ i - 1 \in 0..n
       /\ 0 \in 0..n /\ n \in 0..n
  OBVIOUS
<1>11. h[0] = base /\ h[n] = f[1..n]
  <2> HIDE DEF h
  <2> QED
    BY <1>8, <1>10
<1>12. \A i \in 1..n : h[i] = IAdd(h[i - 1], IMul(Just(t[seq[i]]), get_interval(z, seq[i])))
  <2> HIDE DEF h
  <2> QED
    BY <1>9, <1>10
<1>13. \A i \in 1..n : h[i - 1] \in G => h[i] \in G
  <2> HIDE DEF h
  <2> QED
    BY <1>12
<1>14. \A i \in 0..n : h[i] \in G
  <2> HIDE DEF h
  <2> QED
    BY <1>11, <1>13, HistoryInduction
<1>15. h \in [0..n -> G]
  BY <1>14
<1> HIDE DEF h
<1> QED
  BY <1>7, <1>11, <1>12, <1>15 DEF AddTermsHistory

(* The vertices of the variables of an expression. *)
AddVertices(base, seq) == FoldLeft(LAMBDA a, x : get_vert(a, x), base, seq)

AddVerticesHistory(base, seq, n, G) ==
  \E h \in [0..n -> G] :
    /\ h[0] = base
    /\ \A i \in 1..n : h[i] = get_vert(h[i - 1], seq[i])
    /\ AddVertices(base, seq) = h[n]

LEMMA AddVerticesWithin ==
  ASSUME NEW G, NEW B, NEW base \in G, NEW n \in Nat, NEW seq,
         DOMAIN seq = 1..n, \A i \in 1..n : seq[i] \in B,
         \A a \in G : \A x \in B : get_vert(a, x) \in G
  PROVE  AddVerticesHistory(base, seq, n, G)
<1> DEFINE F == [y \in G \X B |-> get_vert(y[1], y[2])]
           Body(f, s) == IF s = {} THEN base ELSE get_vert(f[s \ {Max(s)}], seq[Max(s)])
           f == CHOOSE ff : ff = [s \in SUBSET (DOMAIN seq) |-> Body(ff, s)]
           h == [i \in 0..n |-> f[1..i]]
<1>1. F \in [G \X B -> G] /\ \A a \in G : \A x \in B : F[<<a, x>>] = get_vert(a, x)
  OBVIOUS
<1>2. PICK e \in [SUBSET (1..n) -> G] : \A s \in SUBSET (1..n) : e[s] = FoldBody(F, base, seq, e, s)
  <2> HIDE DEF F, f, h, Body
  <2>1. F \in [G \X B -> G]
    BY <1>1
  <2>2. HasFold(F, base, seq, n, G)
    BY <2>1, FoldExists
  <2> QED
    BY <2>2 DEF HasFold
<1>3. \A s \in SUBSET (1..n) : s # {} => s \ {Max(s)} \in SUBSET (1..n) /\ Max(s) \in 1..n
  BY MaxOfIndices
<1>4. \A s \in SUBSET (1..n) : e[s] = Body(e, s)
  <2> TAKE s \in SUBSET (1..n)
  <2>1. CASE s = {}
    BY <1>2, <2>1 DEF FoldBody
  <2>2. CASE s # {}
    <3> DEFINE r == s \ {Max(s)}
               m == Max(s)
    <3>1. e[r] \in G /\ seq[m] \in B
      BY <1>3, <2>2
    <3>2. e[s] = F[<<e[r], seq[m]>>]
      BY <1>2, <2>2 DEF FoldBody
    <3>3. Body(e, s) = get_vert(e[r], seq[m])
      BY <2>2
    <3> HIDE DEF F, r, m, Body
    <3> QED
      BY <1>1, <3>1, <3>2, <3>3
  <2> QED
    BY <2>1, <2>2
<1>5. e = [s \in SUBSET (DOMAIN seq) |-> Body(e, s)]
  <2> HIDE DEF Body
  <2> QED
    BY <1>4
<1>6. f = [s \in SUBSET (DOMAIN seq) |-> Body(f, s)]
  <2> HIDE DEF Body
  <2> QED
    BY <1>5
<1>7. AddVertices(base, seq) = f[1..n]
  BY DEF AddVertices, FoldLeft, MapThenFoldSet
<1> HIDE DEF f
<1>8. f[{}] = base /\ 1..0 = {}
  BY <1>6
<1>9. \A i \in 1..n : f[1..i] = get_vert(f[1..(i - 1)], seq[i])
  <2> TAKE i \in 1..n
  <2>1. Max(1..i) = i /\ (1..i) \ {i} = 1..(i - 1) /\ 1..i # {}
    <3>1. i \in Nat /\ i # 0
      OBVIOUS
    <3> HIDE DEF h, F, Body
    <3> QED
      BY <3>1, MaxOfInterval
  <2>2. 1..i \in SUBSET (1..n)
    OBVIOUS
  <2>3. f[1..i] = Body(f, 1..i)
    BY <1>6, <2>2
  <2> QED
    BY <2>1, <2>3
<1>10. /\ \A i \in 0..n : h[i] = f[1..i]
       /\ \A i \in 1..n : i \in 0..n /\ i - 1 \in 0..n
       /\ 0 \in 0..n /\ n \in 0..n
  OBVIOUS
<1>11. h[0] = base /\ h[n] = f[1..n]
  <2> HIDE DEF h
  <2> QED
    BY <1>8, <1>10
<1>12. \A i \in 1..n : h[i] = get_vert(h[i - 1], seq[i])
  <2> HIDE DEF h
  <2> QED
    BY <1>9, <1>10
<1>13. \A i \in 1..n : h[i - 1] \in G => h[i] \in G
  <2> HIDE DEF h
  <2> QED
    BY <1>12
<1>14. \A i \in 0..n : h[i] \in G
  <2> HIDE DEF h
  <2> QED
    BY <1>11, <1>13, HistoryInduction
<1>15. h \in [0..n -> G]
  BY <1>14
<1> HIDE DEF h
<1> QED
  BY <1>7, <1>11, <1>12, <1>15 DEF AddVerticesHistory

(* Bounds of the new vertex. *)
UpdateEdges(base, seq) == FoldLeft(LAMBDA a, x : update_edge(a, x[1], x[2], x[3]), base, seq)

LEMMA UpdateEdgesWithin ==
  ASSUME NEW G, NEW B, NEW base \in G, NEW n \in Nat, NEW seq,
         DOMAIN seq = 1..n, \A i \in 1..n : seq[i] \in B,
         \A a \in G : \A x \in B : update_edge(a, x[1], x[2], x[3]) \in G
  PROVE  UpdateEdges(base, seq) \in G
<1> DEFINE F == [y \in G \X B |-> update_edge(y[1], y[2][1], y[2][2], y[2][3])]
           Body(f, s) == IF s = {} THEN base ELSE update_edge(f[s \ {Max(s)}], seq[Max(s)][1], seq[Max(s)][2], seq[Max(s)][3])
           f == CHOOSE ff : ff = [s \in SUBSET (DOMAIN seq) |-> Body(ff, s)]
           h == [i \in 0..n |-> f[1..i]]
<1>1. F \in [G \X B -> G] /\ \A a \in G : \A x \in B : F[<<a, x>>] = update_edge(a, x[1], x[2], x[3])
  OBVIOUS
<1>2. PICK e \in [SUBSET (1..n) -> G] : \A s \in SUBSET (1..n) : e[s] = FoldBody(F, base, seq, e, s)
  <2> HIDE DEF F, f, h, Body
  <2>1. F \in [G \X B -> G]
    BY <1>1
  <2>2. HasFold(F, base, seq, n, G)
    BY <2>1, FoldExists
  <2> QED
    BY <2>2 DEF HasFold
<1>3. \A s \in SUBSET (1..n) : s # {} => s \ {Max(s)} \in SUBSET (1..n) /\ Max(s) \in 1..n
  BY MaxOfIndices
<1>4. \A s \in SUBSET (1..n) : e[s] = Body(e, s)
  <2> TAKE s \in SUBSET (1..n)
  <2>1. CASE s = {}
    BY <1>2, <2>1 DEF FoldBody
  <2>2. CASE s # {}
    <3> DEFINE r == s \ {Max(s)}
               m == Max(s)
    <3>1. e[r] \in G /\ seq[m] \in B
      BY <1>3, <2>2
    <3>2. e[s] = F[<<e[r], seq[m]>>]
      BY <1>2, <2>2 DEF FoldBody
    <3>3. Body(e, s) = update_edge(e[r], seq[m][1], seq[m][2], seq[m][3])
      BY <2>2
    <3> HIDE DEF F, r, m, Body
    <3> QED
      BY <1>1, <3>1, <3>2, <3>3
  <2> QED
    BY <2>1, <2>2
<1>5. e = [s \in SUBSET (DOMAIN seq) |-> Body(e, s)]
  <2> HIDE DEF Body
  <2> QED
    BY <1>4
<1>6. f = [s \in SUBSET (DOMAIN seq) |-> Body(f, s)]
  <2> HIDE DEF Body
  <2> QED
    BY <1>5
<1>7. UpdateEdges(base, seq) = f[1..n]
  BY DEF UpdateEdges, FoldLeft, MapThenFoldSet
<1> HIDE DEF f
<1>8. f[{}] = base /\ 1..0 = {}
  BY <1>6
<1>9. \A i \in 1..n : f[1..i] = update_edge(f[1..(i - 1)], seq[i][1], seq[i][2], seq[i][3])
  <2> TAKE i \in 1..n
  <2>1. Max(1..i) = i /\ (1..i) \ {i} = 1..(i - 1) /\ 1..i # {}
    <3>1. i \in Nat /\ i # 0
      OBVIOUS
    <3> HIDE DEF h, F, Body
    <3> QED
      BY <3>1, MaxOfInterval
  <2>2. 1..i \in SUBSET (1..n)
    OBVIOUS
  <2>3. f[1..i] = Body(f, 1..i)
    BY <1>6, <2>2
  <2> QED
    BY <2>1, <2>3
<1>10. /\ \A i \in 0..n : h[i] = f[1..i]
       /\ \A i \in 1..n : i \in 0..n /\ i - 1 \in 0..n
       /\ 0 \in 0..n /\ n \in 0..n
  OBVIOUS
<1>11. h[0] = base /\ h[n] = f[1..n]
  <2> HIDE DEF h
  <2> QED
    BY <1>8, <1>10
<1>12. \A i \in 1..n : h[i] = update_edge(h[i - 1], seq[i][1], seq[i][2], seq[i][3])
  <2> HIDE DEF h
  <2> QED
    BY <1>9, <1>10
<1>13. \A i \in 1..n : h[i - 1] \in G => h[i] \in G
  <2> HIDE DEF h
  <2> QED
    BY <1>12
<1>14. \A i \in 0..n : h[i] \in G
  <2> HIDE DEF h
  <2> QED
    BY <1>11, <1>13, HistoryInduction
<1>15. h \in [0..n -> G]
  BY <1>14
<1> HIDE DEF h
<1> QED
  BY <1>7, <1>11, <1>14, <1>10

(* Lower bounds. *)
AddLowers(base, seq) == FoldLeft(LAMBDA a, x : AddLower(a, x), base, seq)

LEMMA AddLowersWithin ==
  ASSUME NEW G, NEW B, NEW base \in G, NEW n \in Nat, NEW seq,
         DOMAIN seq = 1..n, \A i \in 1..n : seq[i] \in B,
         \A a \in G : \A x \in B : AddLower(a, x) \in G
  PROVE  AddLowers(base, seq) \in G
<1> DEFINE F == [y \in G \X B |-> AddLower(y[1], y[2])]
           Body(f, s) == IF s = {} THEN base ELSE AddLower(f[s \ {Max(s)}], seq[Max(s)])
           f == CHOOSE ff : ff = [s \in SUBSET (DOMAIN seq) |-> Body(ff, s)]
           h == [i \in 0..n |-> f[1..i]]
<1>1. F \in [G \X B -> G] /\ \A a \in G : \A x \in B : F[<<a, x>>] = AddLower(a, x)
  OBVIOUS
<1>2. PICK e \in [SUBSET (1..n) -> G] : \A s \in SUBSET (1..n) : e[s] = FoldBody(F, base, seq, e, s)
  <2> HIDE DEF F, f, h, Body
  <2>1. F \in [G \X B -> G]
    BY <1>1
  <2>2. HasFold(F, base, seq, n, G)
    BY <2>1, FoldExists
  <2> QED
    BY <2>2 DEF HasFold
<1>3. \A s \in SUBSET (1..n) : s # {} => s \ {Max(s)} \in SUBSET (1..n) /\ Max(s) \in 1..n
  BY MaxOfIndices
<1>4. \A s \in SUBSET (1..n) : e[s] = Body(e, s)
  <2> TAKE s \in SUBSET (1..n)
  <2>1. CASE s = {}
    BY <1>2, <2>1 DEF FoldBody
  <2>2. CASE s # {}
    <3> DEFINE r == s \ {Max(s)}
               m == Max(s)
    <3>1. e[r] \in G /\ seq[m] \in B
      BY <1>3, <2>2
    <3>2. e[s] = F[<<e[r], seq[m]>>]
      BY <1>2, <2>2 DEF FoldBody
    <3>3. Body(e, s) = AddLower(e[r], seq[m])
      BY <2>2
    <3> HIDE DEF F, r, m, Body
    <3> QED
      BY <1>1, <3>1, <3>2, <3>3
  <2> QED
    BY <2>1, <2>2
<1>5. e = [s \in SUBSET (DOMAIN seq) |-> Body(e, s)]
  <2> HIDE DEF Body
  <2> QED
    BY <1>4
<1>6. f = [s \in SUBSET (DOMAIN seq) |-> Body(f, s)]
  <2> HIDE DEF Body
  <2> QED
    BY <1>5
<1>7. AddLowers(base, seq) = f[1..n]
  BY DEF AddLowers, FoldLeft, MapThenFoldSet
<1> HIDE DEF f
<1>8. f[{}] = base /\ 1..0 = {}
  BY <1>6
<1>9. \A i \in 1..n : f[1..i] = AddLower(f[1..(i - 1)], seq[i])
  <2> TAKE i \in 1..n
  <2>1. Max(1..i) = i /\ (1..i) \ {i} = 1..(i - 1) /\ 1..i # {}
    <3>1. i \in Nat /\ i # 0
      OBVIOUS
    <3> HIDE DEF h, F, Body
    <3> QED
      BY <3>1, MaxOfInterval
  <2>2. 1..i \in SUBSET (1..n)
    OBVIOUS
  <2>3. f[1..i] = Body(f, 1..i)
    BY <1>6, <2>2
  <2> QED
    BY <2>1, <2>3
<1>10. /\ \A i \in 0..n : h[i] = f[1..i]
       /\ \A i \in 1..n : i \in 0..n /\ i - 1 \in 0..n
       /\ 0 \in 0..n /\ n \in 0..n
  OBVIOUS
<1>11. h[0] = base /\ h[n] = f[1..n]
  <2> HIDE DEF h
  <2> QED
    BY <1>8, <1>10
<1>12. \A i \in 1..n : h[i] = AddLower(h[i - 1], seq[i])
  <2> HIDE DEF h
  <2> QED
    BY <1>9, <1>10
<1>13. \A i \in 1..n : h[i - 1] \in G => h[i] \in G
  <2> HIDE DEF h
  <2> QED
    BY <1>12
<1>14. \A i \in 0..n : h[i] \in G
  <2> HIDE DEF h
  <2> QED
    BY <1>11, <1>13, HistoryInduction
<1>15. h \in [0..n -> G]
  BY <1>14
<1> HIDE DEF h
<1> QED
  BY <1>7, <1>11, <1>14, <1>10

(* Upper bounds. *)
AddUppers(base, seq) == FoldLeft(LAMBDA a, x : AddUpper(a, x), base, seq)

LEMMA AddUppersWithin ==
  ASSUME NEW G, NEW B, NEW base \in G, NEW n \in Nat, NEW seq,
         DOMAIN seq = 1..n, \A i \in 1..n : seq[i] \in B,
         \A a \in G : \A x \in B : AddUpper(a, x) \in G
  PROVE  AddUppers(base, seq) \in G
<1> DEFINE F == [y \in G \X B |-> AddUpper(y[1], y[2])]
           Body(f, s) == IF s = {} THEN base ELSE AddUpper(f[s \ {Max(s)}], seq[Max(s)])
           f == CHOOSE ff : ff = [s \in SUBSET (DOMAIN seq) |-> Body(ff, s)]
           h == [i \in 0..n |-> f[1..i]]
<1>1. F \in [G \X B -> G] /\ \A a \in G : \A x \in B : F[<<a, x>>] = AddUpper(a, x)
  OBVIOUS
<1>2. PICK e \in [SUBSET (1..n) -> G] : \A s \in SUBSET (1..n) : e[s] = FoldBody(F, base, seq, e, s)
  <2> HIDE DEF F, f, h, Body
  <2>1. F \in [G \X B -> G]
    BY <1>1
  <2>2. HasFold(F, base, seq, n, G)
    BY <2>1, FoldExists
  <2> QED
    BY <2>2 DEF HasFold
<1>3. \A s \in SUBSET (1..n) : s # {} => s \ {Max(s)} \in SUBSET (1..n) /\ Max(s) \in 1..n
  BY MaxOfIndices
<1>4. \A s \in SUBSET (1..n) : e[s] = Body(e, s)
  <2> TAKE s \in SUBSET (1..n)
  <2>1. CASE s = {}
    BY <1>2, <2>1 DEF FoldBody
  <2>2. CASE s # {}
    <3> DEFINE r == s \ {Max(s)}
               m == Max(s)
    <3>1. e[r] \in G /\ seq[m] \in B
      BY <1>3, <2>2
    <3>2. e[s] = F[<<e[r], seq[m]>>]
      BY <1>2, <2>2 DEF FoldBody
    <3>3. Body(e, s) = AddUpper(e[r], seq[m])
      BY <2>2
    <3> HIDE DEF F, r, m, Body
    <3> QED
      BY <1>1, <3>1, <3>2, <3>3
  <2> QED
    BY <2>1, <2>2
<1>5. e = [s \in SUBSET (DOMAIN seq) |-> Body(e, s)]
  <2> HIDE DEF Body
  <2> QED
    BY <1>4
<1>6. f = [s \in SUBSET (DOMAIN seq) |-> Body(f, s)]
  <2> HIDE DEF Body
  <2> QED
    BY <1>5
<1>7. AddUppers(base, seq) = f[1..n]
  BY DEF AddUppers, FoldLeft, MapThenFoldSet
<1> HIDE DEF f
<1>8. f[{}] = base /\ 1..0 = {}
  BY <1>6
<1>9. \A i \in 1..n : f[1..i] = AddUpper(f[1..(i - 1)], seq[i])
  <2> TAKE i \in 1..n
  <2>1. Max(1..i) = i /\ (1..i) \ {i} = 1..(i - 1) /\ 1..i # {}
    <3>1. i \in Nat /\ i # 0
      OBVIOUS
    <3> HIDE DEF h, F, Body
    <3> QED
      BY <3>1, MaxOfInterval
  <2>2. 1..i \in SUBSET (1..n)
    OBVIOUS
  <2>3. f[1..i] = Body(f, 1..i)
    BY <1>6, <2>2
  <2> QED
    BY <2>1, <2>3
<1>10. /\ \A i \in 0..n : h[i] = f[1..i]
       /\ \A i \in 1..n : i \in 0..n /\ i - 1 \in 0..n
       /\ 0 \in 0..n /\ n \in 0..n
  OBVIOUS
<1>11. h[0] = base /\ h[n] = f[1..n]
  <2> HIDE DEF h
  <2> QED
    BY <1>8, <1>10
<1>12. \A i \in 1..n : h[i] = AddUpper(h[i - 1], seq[i])
  <2> HIDE DEF h
  <2> QED
    BY <1>9, <1>10
<1>13. \A i \in 1..n : h[i - 1] \in G => h[i] \in G
  <2> HIDE DEF h
  <2> QED
    BY <1>12
<1>14. \A i \in 0..n : h[i] \in G
  <2> HIDE DEF h
  <2> QED
    BY <1>11, <1>13, HistoryInduction
<1>15. h \in [0..n -> G]
  BY <1>14
<1> HIDE DEF h
<1> QED
  BY <1>7, <1>11, <1>14, <1>10

(* Differences. *)
AddDifferences(base, seq) == FoldLeft(LAMBDA a, x : AddDifference(a, x), base, seq)

LEMMA AddDifferencesWithin ==
  ASSUME NEW G, NEW B, NEW base \in G, NEW n \in Nat, NEW seq,
         DOMAIN seq = 1..n, \A i \in 1..n : seq[i] \in B,
         \A a \in G : \A x \in B : AddDifference(a, x) \in G
  PROVE  AddDifferences(base, seq) \in G
<1> DEFINE F == [y \in G \X B |-> AddDifference(y[1], y[2])]
           Body(f, s) == IF s = {} THEN base ELSE AddDifference(f[s \ {Max(s)}], seq[Max(s)])
           f == CHOOSE ff : ff = [s \in SUBSET (DOMAIN seq) |-> Body(ff, s)]
           h == [i \in 0..n |-> f[1..i]]
<1>1. F \in [G \X B -> G] /\ \A a \in G : \A x \in B : F[<<a, x>>] = AddDifference(a, x)
  OBVIOUS
<1>2. PICK e \in [SUBSET (1..n) -> G] : \A s \in SUBSET (1..n) : e[s] = FoldBody(F, base, seq, e, s)
  <2> HIDE DEF F, f, h, Body
  <2>1. F \in [G \X B -> G]
    BY <1>1
  <2>2. HasFold(F, base, seq, n, G)
    BY <2>1, FoldExists
  <2> QED
    BY <2>2 DEF HasFold
<1>3. \A s \in SUBSET (1..n) : s # {} => s \ {Max(s)} \in SUBSET (1..n) /\ Max(s) \in 1..n
  BY MaxOfIndices
<1>4. \A s \in SUBSET (1..n) : e[s] = Body(e, s)
  <2> TAKE s \in SUBSET (1..n)
  <2>1. CASE s = {}
    BY <1>2, <2>1 DEF FoldBody
  <2>2. CASE s # {}
    <3> DEFINE r == s \ {Max(s)}
               m == Max(s)
    <3>1. e[r] \in G /\ seq[m] \in B
      BY <1>3, <2>2
    <3>2. e[s] = F[<<e[r], seq[m]>>]
      BY <1>2, <2>2 DEF FoldBody
    <3>3. Body(e, s) = AddDifference(e[r], seq[m])
      BY <2>2
    <3> HIDE DEF F, r, m, Body
    <3> QED
      BY <1>1, <3>1, <3>2, <3>3
  <2> QED
    BY <2>1, <2>2
<1>5. e = [s \in SUBSET (DOMAIN seq) |-> Body(e, s)]
  <2> HIDE DEF Body
  <2> QED
    BY <1>4
<1>6. f = [s \in SUBSET (DOMAIN seq) |-> Body(f, s)]
  <2> HIDE DEF Body
  <2> QED
    BY <1>5
<1>7. AddDifferences(base, seq) = f[1..n]
  BY DEF AddDifferences, FoldLeft, MapThenFoldSet
<1> HIDE DEF f
<1>8. f[{}] = base /\ 1..0 = {}
  BY <1>6
<1>9. \A i \in 1..n : f[1..i] = AddDifference(f[1..(i - 1)], seq[i])
  <2> TAKE i \in 1..n
  <2>1. Max(1..i) = i /\ (1..i) \ {i} = 1..(i - 1) /\ 1..i # {}
    <3>1. i \in Nat /\ i # 0
      OBVIOUS
    <3> HIDE DEF h, F, Body
    <3> QED
      BY <3>1, MaxOfInterval
  <2>2. 1..i \in SUBSET (1..n)
    OBVIOUS
  <2>3. f[1..i] = Body(f, 1..i)
    BY <1>6, <2>2
  <2> QED
    BY <2>1, <2>3
<1>10. /\ \A i \in 0..n : h[i] = f[1..i]
       /\ \A i \in 1..n : i \in 0..n /\ i - 1 \in 0..n
       /\ 0 \in 0..n /\ n \in 0..n
  OBVIOUS
<1>11. h[0] = base /\ h[n] = f[1..n]
  <2> HIDE DEF h
  <2> QED
    BY <1>8, <1>10
<1>12. \A i \in 1..n : h[i] = AddDifference(h[i - 1], seq[i])
  <2> HIDE DEF h
  <2> QED
    BY <1>9, <1>10
<1>13. \A i \in 1..n : h[i - 1] \in G => h[i] \in G
  <2> HIDE DEF h
  <2> QED
    BY <1>12
<1>14. \A i \in 0..n : h[i] \in G
  <2> HIDE DEF h
  <2> QED
    BY <1>11, <1>13, HistoryInduction
<1>15. h \in [0..n -> G]
  BY <1>14
<1> HIDE DEF h
<1> QED
  BY <1>7, <1>11, <1>14, <1>10

(* A stronger lower bound passed on. *)
RaiseLowers(v, k, base, seq) == FoldLeft(LAMBDA a, x : Strengthen(a, x, edge_val(a.g, x, v) - k, 0), base, seq)

LEMMA RaiseLowersWithin ==
  ASSUME NEW v, NEW k, NEW G, NEW B, NEW base \in G, NEW n \in Nat, NEW seq,
         DOMAIN seq = 1..n, \A i \in 1..n : seq[i] \in B,
         \A a \in G : \A x \in B : Strengthen(a, x, edge_val(a.g, x, v) - k, 0) \in G
  PROVE  RaiseLowers(v, k, base, seq) \in G
<1> DEFINE F == [y \in G \X B |-> Strengthen(y[1], y[2], edge_val(y[1].g, y[2], v) - k, 0)]
           Body(f, s) == IF s = {} THEN base ELSE Strengthen(f[s \ {Max(s)}], seq[Max(s)], edge_val(f[s \ {Max(s)}].g, seq[Max(s)], v) - k, 0)
           f == CHOOSE ff : ff = [s \in SUBSET (DOMAIN seq) |-> Body(ff, s)]
           h == [i \in 0..n |-> f[1..i]]
<1>1. F \in [G \X B -> G] /\ \A a \in G : \A x \in B : F[<<a, x>>] = Strengthen(a, x, edge_val(a.g, x, v) - k, 0)
  OBVIOUS
<1>2. PICK e \in [SUBSET (1..n) -> G] : \A s \in SUBSET (1..n) : e[s] = FoldBody(F, base, seq, e, s)
  <2> HIDE DEF F, f, h, Body
  <2>1. F \in [G \X B -> G]
    BY <1>1
  <2>2. HasFold(F, base, seq, n, G)
    BY <2>1, FoldExists
  <2> QED
    BY <2>2 DEF HasFold
<1>3. \A s \in SUBSET (1..n) : s # {} => s \ {Max(s)} \in SUBSET (1..n) /\ Max(s) \in 1..n
  BY MaxOfIndices
<1>4. \A s \in SUBSET (1..n) : e[s] = Body(e, s)
  <2> TAKE s \in SUBSET (1..n)
  <2>1. CASE s = {}
    BY <1>2, <2>1 DEF FoldBody
  <2>2. CASE s # {}
    <3> DEFINE r == s \ {Max(s)}
               m == Max(s)
    <3>1. e[r] \in G /\ seq[m] \in B
      BY <1>3, <2>2
    <3>2. e[s] = F[<<e[r], seq[m]>>]
      BY <1>2, <2>2 DEF FoldBody
    <3>3. Body(e, s) = Strengthen(e[r], seq[m], edge_val(e[r].g, seq[m], v) - k, 0)
      BY <2>2
    <3> HIDE DEF F, r, m, Body
    <3> QED
      BY <1>1, <3>1, <3>2, <3>3
  <2> QED
    BY <2>1, <2>2
<1>5. e = [s \in SUBSET (DOMAIN seq) |-> Body(e, s)]
  <2> HIDE DEF Body
  <2> QED
    BY <1>4
<1>6. f = [s \in SUBSET (DOMAIN seq) |-> Body(f, s)]
  <2> HIDE DEF Body
  <2> QED
    BY <1>5
<1>7. RaiseLowers(v, k, base, seq) = f[1..n]
  BY DEF RaiseLowers, FoldLeft, MapThenFoldSet
<1> HIDE DEF f
<1>8. f[{}] = base /\ 1..0 = {}
  BY <1>6
<1>9. \A i \in 1..n : f[1..i] = Strengthen(f[1..(i - 1)], seq[i], edge_val(f[1..(i - 1)].g, seq[i], v) - k, 0)
  <2> TAKE i \in 1..n
  <2>1. Max(1..i) = i /\ (1..i) \ {i} = 1..(i - 1) /\ 1..i # {}
    <3>1. i \in Nat /\ i # 0
      OBVIOUS
    <3> HIDE DEF h, F, Body
    <3> QED
      BY <3>1, MaxOfInterval
  <2>2. 1..i \in SUBSET (1..n)
    OBVIOUS
  <2>3. f[1..i] = Body(f, 1..i)
    BY <1>6, <2>2
  <2> QED
    BY <2>1, <2>3
<1>10. /\ \A i \in 0..n : h[i] = f[1..i]
       /\ \A i \in 1..n : i \in 0..n /\ i - 1 \in 0..n
       /\ 0 \in 0..n /\ n \in 0..n
  OBVIOUS
<1>11. h[0] = base /\ h[n] = f[1..n]
  <2> HIDE DEF h
  <2> QED
    BY <1>8, <1>10
<1>12. \A i \in 1..n : h[i] = Strengthen(h[i - 1], seq[i], edge_val(h[i - 1].g, seq[i], v) - k, 0)
  <2> HIDE DEF h
  <2> QED
    BY <1>9, <1>10
<1>13. \A i \in 1..n : h[i - 1] \in G => h[i] \in G
  <2> HIDE DEF h
  <2> QED
    BY <1>12
<1>14. \A i \in 0..n : h[i] \in G
  <2> HIDE DEF h
  <2> QED
    BY <1>11, <1>13, HistoryInduction
<1>15. h \in [0..n -> G]
  BY <1>14
<1> HIDE DEF h
<1> QED
  BY <1>7, <1>11, <1>14, <1>10

(* A stronger upper bound passed on. *)
LowerUppers(v, k, base, seq) == FoldLeft(LAMBDA a, x : Strengthen(a, 0, k + edge_val(a.g, v, x), x), base, seq)

LEMMA LowerUppersWithin ==
  ASSUME NEW v, NEW k, NEW G, NEW B, NEW base \in G, NEW n \in Nat, NEW seq,
         DOMAIN seq = 1..n, \A i \in 1..n : seq[i] \in B,
         \A a \in G : \A x \in B : Strengthen(a, 0, k + edge_val(a.g, v, x), x) \in G
  PROVE  LowerUppers(v, k, base, seq) \in G
<1> DEFINE F == [y \in G \X B |-> Strengthen(y[1], 0, k + edge_val(y[1].g, v, y[2]), y[2])]
           Body(f, s) == IF s = {} THEN base ELSE Strengthen(f[s \ {Max(s)}], 0, k + edge_val(f[s \ {Max(s)}].g, v, seq[Max(s)]), seq[Max(s)])
           f == CHOOSE ff : ff = [s \in SUBSET (DOMAIN seq) |-> Body(ff, s)]
           h == [i \in 0..n |-> f[1..i]]
<1>1. F \in [G \X B -> G] /\ \A a \in G : \A x \in B : F[<<a, x>>] = Strengthen(a, 0, k + edge_val(a.g, v, x), x)
  OBVIOUS
<1>2. PICK e \in [SUBSET (1..n) -> G] : \A s \in SUBSET (1..n) : e[s] = FoldBody(F, base, seq, e, s)
  <2> HIDE DEF F, f, h, Body
  <2>1. F \in [G \X B -> G]
    BY <1>1
  <2>2. HasFold(F, base, seq, n, G)
    BY <2>1, FoldExists
  <2> QED
    BY <2>2 DEF HasFold
<1>3. \A s \in SUBSET (1..n) : s # {} => s \ {Max(s)} \in SUBSET (1..n) /\ Max(s) \in 1..n
  BY MaxOfIndices
<1>4. \A s \in SUBSET (1..n) : e[s] = Body(e, s)
  <2> TAKE s \in SUBSET (1..n)
  <2>1. CASE s = {}
    BY <1>2, <2>1 DEF FoldBody
  <2>2. CASE s # {}
    <3> DEFINE r == s \ {Max(s)}
               m == Max(s)
    <3>1. e[r] \in G /\ seq[m] \in B
      BY <1>3, <2>2
    <3>2. e[s] = F[<<e[r], seq[m]>>]
      BY <1>2, <2>2 DEF FoldBody
    <3>3. Body(e, s) = Strengthen(e[r], 0, k + edge_val(e[r].g, v, seq[m]), seq[m])
      BY <2>2
    <3> HIDE DEF F, r, m, Body
    <3> QED
      BY <1>1, <3>1, <3>2, <3>3
  <2> QED
    BY <2>1, <2>2
<1>5. e = [s \in SUBSET (DOMAIN seq) |-> Body(e, s)]
  <2> HIDE DEF Body
  <2> QED
    BY <1>4
<1>6. f = [s \in SUBSET (DOMAIN seq) |-> Body(f, s)]
  <2> HIDE DEF Body
  <2> QED
    BY <1>5
<1>7. LowerUppers(v, k, base, seq) = f[1..n]
  BY DEF LowerUppers, FoldLeft, MapThenFoldSet
<1> HIDE DEF f
<1>8. f[{}] = base /\ 1..0 = {}
  BY <1>6
<1>9. \A i \in 1..n : f[1..i] = Strengthen(f[1..(i - 1)], 0, k + edge_val(f[1..(i - 1)].g, v, seq[i]), seq[i])
  <2> TAKE i \in 1..n
  <2>1. Max(1..i) = i /\ (1..i) \ {i} = 1..(i - 1) /\ 1..i # {}
    <3>1. i \in Nat /\ i # 0
      OBVIOUS
    <3> HIDE DEF h, F, Body
    <3> QED
      BY <3>1, MaxOfInterval
  <2>2. 1..i \in SUBSET (1..n)
    OBVIOUS
  <2>3. f[1..i] = Body(f, 1..i)
    BY <1>6, <2>2
  <2> QED
    BY <2>1, <2>3
<1>10. /\ \A i \in 0..n : h[i] = f[1..i]
       /\ \A i \in 1..n : i \in 0..n /\ i - 1 \in 0..n
       /\ 0 \in 0..n /\ n \in 0..n
  OBVIOUS
<1>11. h[0] = base /\ h[n] = f[1..n]
  <2> HIDE DEF h
  <2> QED
    BY <1>8, <1>10
<1>12. \A i \in 1..n : h[i] = Strengthen(h[i - 1], 0, k + edge_val(h[i - 1].g, v, seq[i]), seq[i])
  <2> HIDE DEF h
  <2> QED
    BY <1>9, <1>10
<1>13. \A i \in 1..n : h[i - 1] \in G => h[i] \in G
  <2> HIDE DEF h
  <2> QED
    BY <1>12
<1>14. \A i \in 0..n : h[i] \in G
  <2> HIDE DEF h
  <2> QED
    BY <1>11, <1>13, HistoryInduction
<1>15. h \in [0..n -> G]
  BY <1>14
<1> HIDE DEF h
<1> QED
  BY <1>7, <1>11, <1>14, <1>10

(* A disequation for each of its variables. *)
ExcludeAll(lin, base, seq) == FoldLeft(LAMBDA a, x : Exclude(a, lin, x), base, seq)

LEMMA ExcludeAllWithin ==
  ASSUME NEW lin, NEW G, NEW B, NEW base \in G, NEW n \in Nat, NEW seq,
         DOMAIN seq = 1..n, \A i \in 1..n : seq[i] \in B,
         \A a \in G : \A x \in B : Exclude(a, lin, x) \in G
  PROVE  ExcludeAll(lin, base, seq) \in G
<1> DEFINE F == [y \in G \X B |-> Exclude(y[1], lin, y[2])]
           Body(f, s) == IF s = {} THEN base ELSE Exclude(f[s \ {Max(s)}], lin, seq[Max(s)])
           f == CHOOSE ff : ff = [s \in SUBSET (DOMAIN seq) |-> Body(ff, s)]
           h == [i \in 0..n |-> f[1..i]]
<1>1. F \in [G \X B -> G] /\ \A a \in G : \A x \in B : F[<<a, x>>] = Exclude(a, lin, x)
  OBVIOUS
<1>2. PICK e \in [SUBSET (1..n) -> G] : \A s \in SUBSET (1..n) : e[s] = FoldBody(F, base, seq, e, s)
  <2> HIDE DEF F, f, h, Body
  <2>1. F \in [G \X B -> G]
    BY <1>1
  <2>2. HasFold(F, base, seq, n, G)
    BY <2>1, FoldExists
  <2> QED
    BY <2>2 DEF HasFold
<1>3. \A s \in SUBSET (1..n) : s # {} => s \ {Max(s)} \in SUBSET (1..n) /\ Max(s) \in 1..n
  BY MaxOfIndices
<1>4. \A s \in SUBSET (1..n) : e[s] = Body(e, s)
  <2> TAKE s \in SUBSET (1..n)
  <2>1. CASE s = {}
    BY <1>2, <2>1 DEF FoldBody
  <2>2. CASE s # {}
    <3> DEFINE r == s \ {Max(s)}
               m == Max(s)
    <3>1. e[r] \in G /\ seq[m] \in B
      BY <1>3, <2>2
    <3>2. e[s] = F[<<e[r], seq[m]>>]
      BY <1>2, <2>2 DEF FoldBody
    <3>3. Body(e, s) = Exclude(e[r], lin, seq[m])
      BY <2>2
    <3> HIDE DEF F, r, m, Body
    <3> QED
      BY <1>1, <3>1, <3>2, <3>3
  <2> QED
    BY <2>1, <2>2
<1>5. e = [s \in SUBSET (DOMAIN seq) |-> Body(e, s)]
  <2> HIDE DEF Body
  <2> QED
    BY <1>4
<1>6. f = [s \in SUBSET (DOMAIN seq) |-> Body(f, s)]
  <2> HIDE DEF Body
  <2> QED
    BY <1>5
<1>7. ExcludeAll(lin, base, seq) = f[1..n]
  BY DEF ExcludeAll, FoldLeft, MapThenFoldSet
<1> HIDE DEF f
<1>8. f[{}] = base /\ 1..0 = {}
  BY <1>6
<1>9. \A i \in 1..n : f[1..i] = Exclude(f[1..(i - 1)], lin, seq[i])
  <2> TAKE i \in 1..n
  <2>1. Max(1..i) = i /\ (1..i) \ {i} = 1..(i - 1) /\ 1..i # {}
    <3>1. i \in Nat /\ i # 0
      OBVIOUS
    <3> HIDE DEF h, F, Body
    <3> QED
      BY <3>1, MaxOfInterval
  <2>2. 1..i \in SUBSET (1..n)
    OBVIOUS
  <2>3. f[1..i] = Body(f, 1..i)
    BY <1>6, <2>2
  <2> QED
    BY <2>1, <2>3
<1>10. /\ \A i \in 0..n : h[i] = f[1..i]
       /\ \A i \in 1..n : i \in 0..n /\ i - 1 \in 0..n
       /\ 0 \in 0..n /\ n \in 0..n
  OBVIOUS
<1>11. h[0] = base /\ h[n] = f[1..n]
  <2> HIDE DEF h
  <2> QED
    BY <1>8, <1>10
<1>12. \A i \in 1..n : h[i] = Exclude(h[i - 1], lin, seq[i])
  <2> HIDE DEF h
  <2> QED
    BY <1>9, <1>10
<1>13. \A i \in 1..n : h[i - 1] \in G => h[i] \in G
  <2> HIDE DEF h
  <2> QED
    BY <1>12
<1>14. \A i \in 0..n : h[i] \in G
  <2> HIDE DEF h
  <2> QED
    BY <1>11, <1>13, HistoryInduction
<1>15. h \in [0..n -> G]
  BY <1>14
<1> HIDE DEF h
<1> QED
  BY <1>7, <1>11, <1>14, <1>10

(* The inequalities of a constraint. *)
AddInequalities(base, seq) == FoldLeft(LAMBDA a, x : add_linear_leq(a, x), base, seq)

LEMMA AddInequalitiesWithin ==
  ASSUME NEW G, NEW B, NEW base \in G, NEW n \in Nat, NEW seq,
         DOMAIN seq = 1..n, \A i \in 1..n : seq[i] \in B,
         \A a \in G : \A x \in B : add_linear_leq(a, x) \in G
  PROVE  AddInequalities(base, seq) \in G
<1> DEFINE F == [y \in G \X B |-> add_linear_leq(y[1], y[2])]
           Body(f, s) == IF s = {} THEN base ELSE add_linear_leq(f[s \ {Max(s)}], seq[Max(s)])
           f == CHOOSE ff : ff = [s \in SUBSET (DOMAIN seq) |-> Body(ff, s)]
           h == [i \in 0..n |-> f[1..i]]
<1>1. F \in [G \X B -> G] /\ \A a \in G : \A x \in B : F[<<a, x>>] = add_linear_leq(a, x)
  OBVIOUS
<1>2. PICK e \in [SUBSET (1..n) -> G] : \A s \in SUBSET (1..n) : e[s] = FoldBody(F, base, seq, e, s)
  <2> HIDE DEF F, f, h, Body
  <2>1. F \in [G \X B -> G]
    BY <1>1
  <2>2. HasFold(F, base, seq, n, G)
    BY <2>1, FoldExists
  <2> QED
    BY <2>2 DEF HasFold
<1>3. \A s \in SUBSET (1..n) : s # {} => s \ {Max(s)} \in SUBSET (1..n) /\ Max(s) \in 1..n
  BY MaxOfIndices
<1>4. \A s \in SUBSET (1..n) : e[s] = Body(e, s)
  <2> TAKE s \in SUBSET (1..n)
  <2>1. CASE s = {}
    BY <1>2, <2>1 DEF FoldBody
  <2>2. CASE s # {}
    <3> DEFINE r == s \ {Max(s)}
               m == Max(s)
    <3>1. e[r] \in G /\ seq[m] \in B
      BY <1>3, <2>2
    <3>2. e[s] = F[<<e[r], seq[m]>>]
      BY <1>2, <2>2 DEF FoldBody
    <3>3. Body(e, s) = add_linear_leq(e[r], seq[m])
      BY <2>2
    <3> HIDE DEF F, r, m, Body
    <3> QED
      BY <1>1, <3>1, <3>2, <3>3
  <2> QED
    BY <2>1, <2>2
<1>5. e = [s \in SUBSET (DOMAIN seq) |-> Body(e, s)]
  <2> HIDE DEF Body
  <2> QED
    BY <1>4
<1>6. f = [s \in SUBSET (DOMAIN seq) |-> Body(f, s)]
  <2> HIDE DEF Body
  <2> QED
    BY <1>5
<1>7. AddInequalities(base, seq) = f[1..n]
  BY DEF AddInequalities, FoldLeft, MapThenFoldSet
<1> HIDE DEF f
<1>8. f[{}] = base /\ 1..0 = {}
  BY <1>6
<1>9. \A i \in 1..n : f[1..i] = add_linear_leq(f[1..(i - 1)], seq[i])
  <2> TAKE i \in 1..n
  <2>1. Max(1..i) = i /\ (1..i) \ {i} = 1..(i - 1) /\ 1..i # {}
    <3>1. i \in Nat /\ i # 0
      OBVIOUS
    <3> HIDE DEF h, F, Body
    <3> QED
      BY <3>1, MaxOfInterval
  <2>2. 1..i \in SUBSET (1..n)
    OBVIOUS
  <2>3. f[1..i] = Body(f, 1..i)
    BY <1>6, <2>2
  <2> QED
    BY <2>1, <2>3
<1>10. /\ \A i \in 0..n : h[i] = f[1..i]
       /\ \A i \in 1..n : i \in 0..n /\ i - 1 \in 0..n
       /\ 0 \in 0..n /\ n \in 0..n
  OBVIOUS
<1>11. h[0] = base /\ h[n] = f[1..n]
  <2> HIDE DEF h
  <2> QED
    BY <1>8, <1>10
<1>12. \A i \in 1..n : h[i] = add_linear_leq(h[i - 1], seq[i])
  <2> HIDE DEF h
  <2> QED
    BY <1>9, <1>10
<1>13. \A i \in 1..n : h[i - 1] \in G => h[i] \in G
  <2> HIDE DEF h
  <2> QED
    BY <1>12
<1>14. \A i \in 0..n : h[i] \in G
  <2> HIDE DEF h
  <2> QED
    BY <1>11, <1>13, HistoryInduction
<1>15. h \in [0..n -> G]
  BY <1>14
<1> HIDE DEF h
<1> QED
  BY <1>7, <1>11, <1>14, <1>10

(* Relations added to a joined graph. *)
MeetGraphs(base, seq) == FoldLeft(LAMBDA a, x : SyntacticMeet(a, x), base, seq)

LEMMA MeetGraphsWithin ==
  ASSUME NEW G, NEW B, NEW base \in G, NEW n \in Nat, NEW seq,
         DOMAIN seq = 1..n, \A i \in 1..n : seq[i] \in B,
         \A a \in G : \A x \in B : SyntacticMeet(a, x) \in G
  PROVE  MeetGraphs(base, seq) \in G
<1> DEFINE F == [y \in G \X B |-> SyntacticMeet(y[1], y[2])]
           Body(f, s) == IF s = {} THEN base ELSE SyntacticMeet(f[s \ {Max(s)}], seq[Max(s)])
           f == CHOOSE ff : ff = [s \in SUBSET (DOMAIN seq) |-> Body(ff, s)]
           h == [i \in 0..n |-> f[1..i]]
<1>1. F \in [G \X B -> G] /\ \A a \in G : \A x \in B : F[<<a, x>>] = SyntacticMeet(a, x)
  OBVIOUS
<1>2. PICK e \in [SUBSET (1..n) -> G] : \A s \in SUBSET (1..n) : e[s] = FoldBody(F, base, seq, e, s)
  <2> HIDE DEF F, f, h, Body
  <2>1. F \in [G \X B -> G]
    BY <1>1
  <2>2. HasFold(F, base, seq, n, G)
    BY <2>1, FoldExists
  <2> QED
    BY <2>2 DEF HasFold
<1>3. \A s \in SUBSET (1..n) : s # {} => s \ {Max(s)} \in SUBSET (1..n) /\ Max(s) \in 1..n
  BY MaxOfIndices
<1>4. \A s \in SUBSET (1..n) : e[s] = Body(e, s)
  <2> TAKE s \in SUBSET (1..n)
  <2>1. CASE s = {}
    BY <1>2, <2>1 DEF FoldBody
  <2>2. CASE s # {}
    <3> DEFINE r == s \ {Max(s)}
               m == Max(s)
    <3>1. e[r] \in G /\ seq[m] \in B
      BY <1>3, <2>2
    <3>2. e[s] = F[<<e[r], seq[m]>>]
      BY <1>2, <2>2 DEF FoldBody
    <3>3. Body(e, s) = SyntacticMeet(e[r], seq[m])
      BY <2>2
    <3> HIDE DEF F, r, m, Body
    <3> QED
      BY <1>1, <3>1, <3>2, <3>3
  <2> QED
    BY <2>1, <2>2
<1>5. e = [s \in SUBSET (DOMAIN seq) |-> Body(e, s)]
  <2> HIDE DEF Body
  <2> QED
    BY <1>4
<1>6. f = [s \in SUBSET (DOMAIN seq) |-> Body(f, s)]
  <2> HIDE DEF Body
  <2> QED
    BY <1>5
<1>7. MeetGraphs(base, seq) = f[1..n]
  BY DEF MeetGraphs, FoldLeft, MapThenFoldSet
<1> HIDE DEF f
<1>8. f[{}] = base /\ 1..0 = {}
  BY <1>6
<1>9. \A i \in 1..n : f[1..i] = SyntacticMeet(f[1..(i - 1)], seq[i])
  <2> TAKE i \in 1..n
  <2>1. Max(1..i) = i /\ (1..i) \ {i} = 1..(i - 1) /\ 1..i # {}
    <3>1. i \in Nat /\ i # 0
      OBVIOUS
    <3> HIDE DEF h, F, Body
    <3> QED
      BY <3>1, MaxOfInterval
  <2>2. 1..i \in SUBSET (1..n)
    OBVIOUS
  <2>3. f[1..i] = Body(f, 1..i)
    BY <1>6, <2>2
  <2> QED
    BY <2>1, <2>3
<1>10. /\ \A i \in 0..n : h[i] = f[1..i]
       /\ \A i \in 1..n : i \in 0..n /\ i - 1 \in 0..n
       /\ 0 \in 0..n /\ n \in 0..n
  OBVIOUS
<1>11. h[0] = base /\ h[n] = f[1..n]
  <2> HIDE DEF h
  <2> QED
    BY <1>8, <1>10
<1>12. \A i \in 1..n : h[i] = SyntacticMeet(h[i - 1], seq[i])
  <2> HIDE DEF h
  <2> QED
    BY <1>9, <1>10
<1>13. \A i \in 1..n : h[i - 1] \in G => h[i] \in G
  <2> HIDE DEF h
  <2> QED
    BY <1>12
<1>14. \A i \in 0..n : h[i] \in G
  <2> HIDE DEF h
  <2> QED
    BY <1>11, <1>13, HistoryInduction
<1>15. h \in [0..n -> G]
  BY <1>14
<1> HIDE DEF h
<1> QED
  BY <1>7, <1>11, <1>14, <1>10

-----------------------------------------------------------------------------
(***************************************************************************)
(* The closing algorithms of graph_ops.hpp add only edges that follow from *)
(* those of the graph.                                                     *)
(***************************************************************************)

LEMMA MinMaxPair ==
  ASSUME NEW a \in Int, NEW b \in Int
  PROVE  /\ Min({a, b}) = IF a <= b THEN a ELSE b
         /\ Max({a, b}) = IF a >= b THEN a ELSE b
<1>1. CASE a <= b
  <2>1. \A x \in {a, b} : (\A y \in {a, b} : x <= y) => x = a
    BY <1>1
  <2>2. \A x \in {a, b} : (\A y \in {a, b} : x >= y) => x = b
    BY <1>1
  <2>3. (\A y \in {a, b} : a <= y) /\ (\A y \in {a, b} : b >= y)
    BY <1>1
  <2> QED
    BY <1>1, <2>1, <2>2, <2>3 DEF Min, Max
<1>2. CASE ~ (a <= b)
  <2>1. \A x \in {a, b} : (\A y \in {a, b} : x <= y) => x = b
    BY <1>2
  <2>2. \A x \in {a, b} : (\A y \in {a, b} : x >= y) => x = a
    BY <1>2
  <2>3. (\A y \in {a, b} : b <= y) /\ (\A y \in {a, b} : a >= y)
    BY <1>2
  <2> QED
    BY <1>2, <2>1, <2>2, <2>3 DEF Min, Max
<1> QED
  BY <1>1, <1>2

(* Upper bounds of the differences to v. *)
Distances(V, Q, v) == {f \in Partial(V, Int) : \A d \in DOMAIN f : \A q \in Q : q[d] - q[v] <= f[d]}

LEMMA DistancesElim ==
  ASSUME NEW V, NEW Q, NEW v, NEW f \in Distances(V, Q, v)
  PROVE  /\ DOMAIN f \in SUBSET V /\ f \in [DOMAIN f -> Int]
         /\ \A d \in DOMAIN f : f[d] \in Int /\ \A q \in Q : q[d] - q[v] <= f[d]
<1>1. f \in Partial(V, Int)
  BY DEF Distances
<1>2. DOMAIN f \in SUBSET V /\ f \in [DOMAIN f -> Int]
  BY <1>1, PartialElim
<1> QED
  BY <1>2 DEF Distances

LEMMA DistancesIntro ==
  ASSUME NEW V, NEW Q, NEW v, NEW D \in SUBSET V, NEW f \in [D -> Int],
         \A d \in D : \A q \in Q : q[d] - q[v] <= f[d]
  PROVE  f \in Distances(V, Q, v)
<1>1. f \in Partial(V, Int)
  BY PartialIntro
<1> QED
  BY <1>1 DEF Distances

LEMMA VisitSound ==
  ASSUME NEW V \in SUBSET Verts, NEW Q \in SUBSET Valuations, NEW g \in Gr(V, Q), NEW v \in V,
         NEW dist \in Distances(V, Q, v), NEW d \in DOMAIN dist
  PROVE  Visit(g, dist, d) \in Distances(V, Q, v) /\ DOMAIN dist \subseteq DOMAIN Visit(g, dist, d)
<1> DEFINE D == (DOMAIN dist) \cup succs(g, d)
           f == Visit(g, dist, d)
<1>1. /\ DOMAIN dist \in SUBSET V /\ dist \in [DOMAIN dist -> Int]
      /\ \A u \in DOMAIN dist : dist[u] \in Int /\ \A q \in Q : q[u] - q[v] <= dist[u]
  BY DistancesElim
<1>2. D \in SUBSET V /\ d \in V
  BY <1>1, ElemFacts
<1>3. ASSUME NEW u \in D
      PROVE  f[u] \in Int /\ \A q \in Q : q[u] - q[v] <= f[u]
  <2>0. f[u] = IF ~ elem(g, d, u) THEN dist[u]
               ELSE IF u \notin DOMAIN dist THEN dist[d] + edge_val(g, d, u)
               ELSE Min({dist[u], dist[d] + edge_val(g, d, u)})
    BY DEF Visit
  <2> HIDE DEF f
  <2>1. CASE ~ elem(g, d, u)
    <3>1. u \in DOMAIN dist
      BY <2>1, ElemFacts
    <3> QED
      BY <1>1, <2>0, <2>1, <3>1
  <2>2. CASE elem(g, d, u)
    <3> DEFINE w == edge_val(g, d, u)
    <3>1. w \in Int /\ \A q \in Q : q[u] - q[d] <= w
      BY <2>2, ElemFacts
    <3>2. dist[d] \in Int /\ \A q \in Q : q[d] - q[v] <= dist[d]
      BY <1>1
    <3>3. \A q \in Q : q[u] \in Int /\ q[d] \in Int /\ q[v] \in Int
      BY <1>2, ValuationFacts
    <3>4. f[u] = IF u \notin DOMAIN dist THEN dist[d] + w ELSE Min({dist[u], dist[d] + w})
      BY <2>0, <2>2
    <3> HIDE DEF w, D
    <3>5. dist[d] + w \in Int /\ \A q \in Q : q[u] - q[v] <= dist[d] + w
      BY <3>1, <3>2, <3>3
    <3>6. CASE u \notin DOMAIN dist
      BY <3>4, <3>5, <3>6
    <3>7. CASE u \in DOMAIN dist
      <4>1. f[u] \in {dist[u], dist[d] + w}
        BY <1>1, <3>4, <3>5, <3>7, MinMaxPair
      <4> QED
        BY <1>1, <3>5, <3>7, <4>1
    <3> QED
      BY <3>6, <3>7
  <2> QED
    BY <2>1, <2>2
<1>4. f \in [D -> Int] /\ DOMAIN f = D
  BY <1>3 DEF Visit
<1>5. f \in Distances(V, Q, v)
  <2> HIDE DEF D, f
  <2> QED
    BY <1>2, <1>3, <1>4, DistancesIntro
<1> QED
  BY <1>4, <1>5

LEMMA AssignFwdSound ==
  ASSUME NEW V \in SUBSET Verts, NEW Q \in SUBSET Valuations, NEW g \in Gr(V, Q), NEW v \in V,
         NEW p, \A u \in V : p[u] \in Int
  PROVE  close_after_assign_fwd(g, p, v) \in Distances(V, Q, v)
<1> DEFINE next == succs(g, v) \ {v}
           direct == [d \in next |-> edge_val(g, v, d)]
           start == [d \in {v} |-> 0] ++ direct
           key == [d \in next |-> direct[d] - p[d]]
           seq == SortedBy(next, key)
           n == Cardinality(next)
           G == {f \in Distances(V, Q, v) : next \subseteq DOMAIN f}
           reach == VisitAll(g, start, seq)
<1>1. next \in SUBSET V /\ \A d \in next : elem(g, v, d)
  BY ElemFacts
<1>2. IsFiniteSet(next) /\ n \in Nat
  BY <1>1, VertFacts
<1>3. \A d \in next : direct[d] \in Int /\ \A q \in Q : q[d] - q[v] <= direct[d]
  BY <1>1, ElemFacts
<1>4. \A d \in next : key[d] \in Int
  BY <1>1, <1>3
<1>5. Lists(seq, next)
  <2> HIDE DEF next, key
  <2> QED
    BY <1>2, <1>4, SortedByFacts
<1>6. DOMAIN seq = 1..n /\ \A i \in 1..n : seq[i] \in next
  <2> HIDE DEF next, seq
  <2> QED
    BY <1>5 DEF Lists
<1>7. start \in G
  <2>2. start \in [next \cup {v} -> Int] /\ DOMAIN start = next \cup {v}
    BY <1>3 DEF ++
  <2>3. \A d \in next \cup {v} : \A q \in Q : q[d] - q[v] <= start[d]
    <3>1. start[v] = 0 /\ \A d \in next : start[d] = direct[d]
      BY DEF ++
    <3> HIDE DEF start, direct, next
    <3>2. \A q \in Q : q[v] \in Int
      BY ValuationFacts
    <3> QED
      BY <1>3, <3>1, <3>2
  <2>4. next \cup {v} \in SUBSET V
    BY <1>1
  <2>5. start \in Distances(V, Q, v)
    <3> DEFINE D == next \cup {v}
    <3> HIDE DEF D, start
    <3>1. D \in SUBSET V /\ start \in [D -> Int] /\ \A d \in D : \A q \in Q : q[d] - q[v] <= start[d]
      BY <2>2, <2>3, <2>4 DEF D
    <3> QED
      BY <3>1, DistancesIntro
  <2> HIDE DEF start, next
  <2> QED
    BY <2>2, <2>5
<1>8. \A a \in G : \A x \in next : Visit(g, a, x) \in G
  <2> HIDE DEF next
  <2> SUFFICES ASSUME NEW a \in G, NEW x \in next
               PROVE  Visit(g, a, x) \in G
    OBVIOUS
  <2>1. a \in Distances(V, Q, v) /\ x \in DOMAIN a /\ next \subseteq DOMAIN a
    OBVIOUS
  <2>2. Visit(g, a, x) \in Distances(V, Q, v) /\ DOMAIN a \subseteq DOMAIN Visit(g, a, x)
    BY <2>1, VisitSound
  <2> QED
    BY <2>1, <2>2
<1>9. reach \in G
  <2> HIDE DEF G, start, seq, n, next
  <2> QED
    BY <1>2, <1>6, <1>7, <1>8, VisitAllWithin
<1>10. close_after_assign_fwd(g, p, v) = [d \in DOMAIN reach \ {v} |-> reach[d]]
  BY DEF close_after_assign_fwd, VisitAll
<1> HIDE DEF reach, next
<1>11. reach \in Distances(V, Q, v)
  BY <1>9
<1>12. /\ DOMAIN reach \in SUBSET V
       /\ \A d \in DOMAIN reach : reach[d] \in Int /\ \A q \in Q : q[d] - q[v] <= reach[d]
  BY <1>11, DistancesElim
<1> DEFINE D == DOMAIN reach \ {v}
           f == [d \in D |-> reach[d]]
<1>13. D \in SUBSET V /\ f \in [D -> Int] /\ \A d \in D : \A q \in Q : q[d] - q[v] <= f[d]
  BY <1>12
<1>14. f \in Distances(V, Q, v)
  <2> HIDE DEF D, f
  <2> QED
    BY <1>13, DistancesIntro
<1> QED
  BY <1>10, <1>14

LEMMA CloseAssignSound ==
  ASSUME NEW V \in SUBSET Verts, NEW Q \in SUBSET Valuations, NEW g \in Gr(V, Q), NEW v \in V,
         NEW p, \A u \in V : p[u] \in Int, V \subseteq DOMAIN p
  PROVE  close_after_assign(g, p, v) \in Gr(V, Q)
<1> DEFINE R == {Negated(q) : q \in Q}
           m == [u \in DOMAIN p |-> - p[u]]
           out == close_after_assign_fwd(g, p, v)
           in == close_after_assign_fwd(GraphRev(g), m, v)
           From == [e \in {v} \X (DOMAIN out) |-> out[e[2]]]
           To == [e \in (DOMAIN in) \X {v} |-> in[e[1]]]
<1>1. out \in Distances(V, Q, v)
  BY AssignFwdSound
<1>2. in \in Distances(V, R, v)
  <2>1. R \in SUBSET Valuations /\ GraphRev(g) \in Gr(V, R)
    BY GraphRevGr
  <2>2. \A u \in V : m[u] \in Int
    OBVIOUS
  <2> HIDE DEF R, m
  <2> QED
    BY <2>1, <2>2, AssignFwdSound
<1>3. close_after_assign(g, p, v) = From ++ To
  <2> HIDE DEF out, in
  <2>1. Let(out, LAMBDA dist : [e \in {v} \X (DOMAIN dist) |-> dist[e[2]]]) = From
    BY DEF Let
  <2>2. Let(in, LAMBDA dist : [e \in (DOMAIN dist) \X {v} |-> dist[e[1]]]) = To
    BY DEF Let
  <2> QED
    BY <2>1, <2>2 DEF close_after_assign, out, in
<1> HIDE DEF out, in
<1>4. From \in Gr(V, Q)
  <2> DEFINE D == {v} \X (DOMAIN out)
  <2>1. /\ DOMAIN out \in SUBSET V
        /\ \A d \in DOMAIN out : out[d] \in Int /\ \A q \in Q : q[d] - q[v] <= out[d]
    BY <1>1, DistancesElim
  <2>2. D \in SUBSET (V \X V) /\ From \in [D -> Int]
    BY <2>1
  <2>3. \A e \in D : \A q \in Q : q[e[2]] - q[e[1]] <= From[e]
    BY <2>1
  <2> HIDE DEF D, From
  <2> QED
    BY <2>2, <2>3, GrIntro
<1>5. To \in Gr(V, Q)
  <2> DEFINE D == (DOMAIN in) \X {v}
  <2>1. /\ DOMAIN in \in SUBSET V
        /\ \A d \in DOMAIN in : in[d] \in Int /\ \A q \in R : q[d] - q[v] <= in[d]
    BY <1>2, DistancesElim
  <2>2. D \in SUBSET (V \X V) /\ To \in [D -> Int]
    BY <2>1
  <2>3. ASSUME NEW e \in D, NEW q \in Q
        PROVE  q[e[2]] - q[e[1]] <= To[e]
    <3>1. e[1] \in DOMAIN in /\ e[2] = v /\ To[e] = in[e[1]]
      OBVIOUS
    <3>2. Negated(q)[e[1]] - Negated(q)[v] <= in[e[1]] /\ in[e[1]] \in Int
      BY <2>1, <3>1
    <3>3. e[1] \in V
      BY <2>1, <3>1
    <3> HIDE DEF To, D
    <3>4. Negated(q)[e[1]] = - q[e[1]] /\ Negated(q)[v] = - q[v] /\ q[e[1]] \in Int /\ q[v] \in Int
      BY <3>3, ValuationFacts DEF Negated
    <3> QED
      BY <3>1, <3>2, <3>4
  <2> HIDE DEF D, To
  <2> QED
    BY <2>2, <2>3, GrIntro
<1> QED
  BY <1>3, <1>4, <1>5, MergeGr

(* The paths that a new edge shortens. *)
LEMMA CloseOverEdgeSound ==
  ASSUME NEW V \in SUBSET Verts, NEW Q \in SUBSET Valuations, NEW g \in Gr(V, Q),
         NEW ii, NEW jj, elem(g, ii, jj)
  PROVE  close_over_edge(g, ii, jj) \in Gr(V, Q)
<1> DEFINE c == edge_val(g, ii, jj)
           Lighter(s, w, d) == ~ elem(g, s, d) \/ w < edge_val(g, s, d)
           src_dec == {s \in preds(g, ii) \ {0, jj} : Lighter(s, edge_val(g, s, ii) + c, jj)}
           dest_dec == {d \in succs(g, jj) \ {0, ii} : Lighter(ii, c + edge_val(g, jj, d), d)}
           both == {e \in src_dec \X dest_dec :
                      Lighter(e[1], edge_val(g, e[1], ii) + c + edge_val(g, jj, e[2]), e[2])}
           A == [s \in src_dec \X {jj} |-> edge_val(g, s[1], ii) + c]
           B == [d \in {ii} \X dest_dec |-> c + edge_val(g, jj, d[2])]
           C == [e \in both |-> edge_val(g, e[1], ii) + c + edge_val(g, jj, e[2])]
<1>1. close_over_edge(g, ii, jj) = ((A ++ B) ++ C) ++ g
  BY DEF close_over_edge
<1>2. c \in Int /\ ii \in V /\ jj \in V /\ \A q \in Q : q[jj] - q[ii] <= c
  BY ElemFacts
<1>3. ASSUME NEW s \in src_dec
      PROVE  s \in V /\ edge_val(g, s, ii) \in Int /\ \A q \in Q : q[ii] - q[s] <= edge_val(g, s, ii)
  BY ElemFacts
<1>4. ASSUME NEW d \in dest_dec
      PROVE  d \in V /\ edge_val(g, jj, d) \in Int /\ \A q \in Q : q[d] - q[jj] <= edge_val(g, jj, d)
  BY ElemFacts
<1>5. \A q \in Q : \A u \in V : q[u] \in Int
  BY ValuationFacts
<1>6. both \in SUBSET (src_dec \X dest_dec)
  OBVIOUS
<1> HIDE DEF c, src_dec, dest_dec, both
<1>7. A \in Gr(V, Q)
  <2> DEFINE D == src_dec \X {jj}
  <2>1. D \in SUBSET (V \X V)
    BY <1>2, <1>3
  <2>2. \A e \in D : A[e] = edge_val(g, e[1], ii) + c /\ e[1] \in src_dec /\ e[2] = jj
    OBVIOUS
  <2>3. \A e \in D : A[e] \in Int /\ \A q \in Q : q[e[2]] - q[e[1]] <= A[e]
    <3> HIDE DEF A, D
    <3> QED
      BY <1>2, <1>3, <1>5, <2>2
  <2>4. A \in [D -> Int]
    BY <2>3
  <2> HIDE DEF A, D
  <2> QED
    BY <2>1, <2>3, <2>4, GrIntro
<1>8. B \in Gr(V, Q)
  <2> DEFINE D == {ii} \X dest_dec
  <2>1. D \in SUBSET (V \X V)
    BY <1>2, <1>4
  <2>2. \A e \in D : B[e] = c + edge_val(g, jj, e[2]) /\ e[2] \in dest_dec /\ e[1] = ii
    OBVIOUS
  <2>3. \A e \in D : B[e] \in Int /\ \A q \in Q : q[e[2]] - q[e[1]] <= B[e]
    <3> HIDE DEF B, D
    <3> QED
      BY <1>2, <1>4, <1>5, <2>2
  <2>4. B \in [D -> Int]
    BY <2>3
  <2> HIDE DEF B, D
  <2> QED
    BY <2>1, <2>3, <2>4, GrIntro
<1>9. C \in Gr(V, Q)
  <2>1. both \in SUBSET (V \X V)
    BY <1>3, <1>4, <1>6
  <2>2. \A e \in both : C[e] = edge_val(g, e[1], ii) + c + edge_val(g, jj, e[2]) /\ e[1] \in src_dec /\ e[2] \in dest_dec
    BY <1>6
  <2>3. \A e \in both : C[e] \in Int /\ \A q \in Q : q[e[2]] - q[e[1]] <= C[e]
    <3> HIDE DEF C
    <3> QED
      BY <1>2, <1>3, <1>4, <1>5, <2>2
  <2>4. C \in [both -> Int]
    BY <2>3
  <2> HIDE DEF C
  <2> QED
    BY <2>1, <2>3, <2>4, GrIntro
<1> HIDE DEF A, B, C
<1>10. (A ++ B) ++ C \in Gr(V, Q)
  BY <1>7, <1>8, <1>9, MergeGr
<1> QED
  BY <1>1, <1>10, MergeGr

-----------------------------------------------------------------------------
(* Dijkstra's algorithm: a reduced distance stands for a bound of the       *)
(* difference to src, and so does each edge in out.                         *)

Marks == SUBSET {"L", "R", "stable"}

DijkstraStates(V, Q, p, src) ==
  {st \in [dist : Partial(V, Int), mark : Partial(V, Marks), heap : SUBSET V, out : Gr(V, Q)] :
     /\ st.heap \subseteq DOMAIN st.dist
     /\ \A d \in DOMAIN st.dist : \A q \in Q : q[d] - q[src] <= st.dist[d] + p[d] - p[src]}

LEMMA NearestInHeap ==
  ASSUME NEW V \in SUBSET Verts, NEW st, st.heap \in SUBSET V, st.heap # {},
         \A u \in st.heap : st.dist[u] \in Int
  PROVE  Nearest(st) \in st.heap /\ \A u \in st.heap : st.dist[Nearest(st)] <= st.dist[u]
<1> DEFINE H == st.heap
           key == st.dist
<1>1. IsFiniteSet(H)
  BY VertFacts
<1>2. \E a \in H : \A u \in H : key[a] <= key[u]
  <2> HIDE DEF H, key
  <2>1. \A u \in H : key[u] \in Int
    BY DEF H, key
  <2>2. H \in SUBSET H /\ H # {}
    BY DEF H
  <2> QED
    BY <1>1, <2>1, <2>2, LeastKey
<1> QED
  BY <1>2 DEF Nearest

LEMMA DijkstraStepSound ==
  ASSUME NEW V \in SUBSET Verts, NEW Q \in SUBSET Valuations, NEW g \in Gr(V, Q),
         NEW p, \A u \in V : p[u] \in Int, NEW src \in V,
         NEW st \in DijkstraStates(V, Q, p, src), NEW es \in st.heap,
         NEW heads, heads \subseteq succs(g, es),
         NEW colour, \A e \in DOMAIN g : colour[e] \in Marks
  PROVE  DijkstraStep(g, p, src, st, es, heads, colour) \in DijkstraStates(V, Q, p, src)
<1> DEFINE cost == st.dist[es] + p[es]
           val == cost - p[src]
           Dist(ed) == cost + edge_val(g, es, ed) - p[ed]
           lower == {ed \in heads : ed \notin DOMAIN st.dist \/ Dist(ed) < st.dist[ed]}
           same == {ed \in (heads \ lower) \cap DOMAIN st.mark : Dist(ed) = st.dist[ed]}
           fromLower == [ed \in lower |-> Dist(ed)]
           dist == fromLower ++ st.dist
           m1 == [ed \in lower |-> colour[<<es, ed>>]]
           m2 == [ed \in same |-> st.mark[ed] \cup colour[<<es, ed>>]]
           mark == (m1 ++ m2) ++ st.mark
           heap == (st.heap \ {es}) \cup lower
           out == IF elem(g, src, es) /\ edge_val(g, src, es) <= val THEN st.out
                  ELSE [e \in {<<src, es>>} |-> val] ++ st.out
<1>1. DijkstraStep(g, p, src, st, es, heads, colour) = [dist |-> dist, mark |-> mark, heap |-> heap, out |-> out]
  BY DEF DijkstraStep
<1>2. /\ st.dist \in Partial(V, Int) /\ st.mark \in Partial(V, Marks) /\ st.heap \in SUBSET V
      /\ st.out \in Gr(V, Q) /\ st.heap \subseteq DOMAIN st.dist
      /\ \A d \in DOMAIN st.dist : \A q \in Q : q[d] - q[src] <= st.dist[d] + p[d] - p[src]
  BY DEF DijkstraStates
<1>3. es \in V /\ es \in DOMAIN st.dist /\ DOMAIN st.dist \in SUBSET V /\ \A d \in DOMAIN st.dist : st.dist[d] \in Int
  BY <1>2, PartialElim
<1>4. cost \in Int /\ val \in Int /\ \A q \in Q : q[es] - q[src] <= cost - p[src]
  BY <1>2, <1>3
<1>5. \A ed \in heads : ed \in V /\ elem(g, es, ed) /\ edge_val(g, es, ed) \in Int
                        /\ \A q \in Q : q[ed] - q[es] <= edge_val(g, es, ed)
  BY ElemFacts
<1>6. \A q \in Q : \A u \in V : q[u] \in Int
  BY ValuationFacts
<1>7. lower \subseteq heads /\ same \subseteq heads /\ same \subseteq DOMAIN st.mark
  OBVIOUS
<1> HIDE DEF lower, same, cost
<1>8. ASSUME NEW ed \in heads
      PROVE  Dist(ed) \in Int /\ \A q \in Q : q[ed] - q[src] <= Dist(ed) + p[ed] - p[src]
  <2>1. ed \in V /\ edge_val(g, es, ed) \in Int /\ p[ed] \in Int /\ p[src] \in Int
    BY <1>5
  <2>2. Dist(ed) \in Int
    BY <1>4, <2>1
  <2>3. ASSUME NEW q \in Q
        PROVE  q[ed] - q[src] <= Dist(ed) + p[ed] - p[src]
    <3>1. q[ed] \in Int /\ q[src] \in Int /\ q[es] \in Int
      BY <1>3, <1>6, <2>1
    <3>2. q[ed] - q[es] <= edge_val(g, es, ed) /\ q[es] - q[src] <= cost - p[src]
      BY <1>4, <1>5
    <3> QED
      BY <1>4, <2>1, <3>1, <3>2
  <2> QED
    BY <2>2, <2>3
<1>9. dist \in Partial(V, Int) /\ heap \subseteq DOMAIN dist /\ heap \in SUBSET V
  <2>1. lower \in SUBSET V /\ fromLower \in [lower -> Int]
    BY <1>5, <1>7, <1>8
  <2>2. fromLower \in Partial(V, Int) /\ DOMAIN fromLower = lower
    BY <2>1, PartialIntro
  <2> HIDE DEF fromLower
  <2>3. dist \in Partial(V, Int) /\ DOMAIN dist = lower \cup DOMAIN st.dist
    BY <1>2, <2>2, MergePartial, MergeFacts
  <2> HIDE DEF dist
  <2> QED
    BY <1>2, <2>1, <2>3
<1>10. \A d \in DOMAIN dist : \A q \in Q : q[d] - q[src] <= dist[d] + p[d] - p[src]
  <2> HIDE DEF fromLower
  <2>0. DOMAIN fromLower = lower /\ \A d \in lower : fromLower[d] = Dist(d)
    BY DEF fromLower
  <2>1. DOMAIN dist = lower \cup DOMAIN st.dist
    BY <2>0, MergeFacts
  <2>2. \A d \in lower : dist[d] = Dist(d)
    BY <2>0, MergeFacts
  <2>3. \A d \in DOMAIN st.dist \ lower : dist[d] = st.dist[d]
    <3>1. \A d \in (DOMAIN st.dist) \ (DOMAIN fromLower) : dist[d] = st.dist[d]
      BY MergeFacts
    <3> QED
      BY <2>0, <3>1
  <2> HIDE DEF dist, Dist
  <2>4. \A d \in lower : \A q \in Q : q[d] - q[src] <= Dist(d) + p[d] - p[src]
    BY <1>7, <1>8
  <2> QED
    BY <1>2, <2>1, <2>2, <2>3, <2>4
<1>11. mark \in Partial(V, Marks)
  <2>1. \A ed \in heads : colour[<<es, ed>>] \in Marks
    BY <1>5 DEF elem
  <2>2. m1 \in [lower -> Marks] /\ lower \in SUBSET V
    BY <1>5, <1>7, <2>1
  <2>3. \A ed \in same : st.mark[ed] \in Marks
    BY <1>2, <1>7, PartialElim
  <2>4. m2 \in [same -> Marks] /\ same \in SUBSET V
    <3>1. \A ed \in same : st.mark[ed] \cup colour[<<es, ed>>] \in Marks
      BY <1>7, <2>1, <2>3 DEF Marks
    <3> QED
      BY <1>5, <1>7, <3>1
  <2> HIDE DEF m1, m2
  <2>5. m1 \in Partial(V, Marks) /\ m2 \in Partial(V, Marks)
    BY <2>2, <2>4, PartialIntro
  <2>6. m1 ++ m2 \in Partial(V, Marks)
    BY <2>5, MergePartial
  <2> QED
    BY <1>2, <2>6, MergePartial
<1>12. out \in Gr(V, Q)
  <2> DEFINE new == [e \in {<<src, es>>} |-> val]
  <2>1. new \in Gr(V, Q)
    <3> HIDE DEF val
    <3>1. \A q \in Q : q[es] - q[src] <= val
      BY <1>4 DEF val
    <3> QED
      BY <1>3, <1>4, <3>1, EdgeGr
  <2>2. out = st.out \/ out = new ++ st.out
    OBVIOUS
  <2> HIDE DEF new, out
  <2> QED
    BY <1>2, <2>1, <2>2, MergeGr
<1> HIDE DEF dist, mark, heap, out
<1> QED
  BY <1>1, <1>9, <1>10, <1>11, <1>12 DEF DijkstraStates

LEMMA DijkstraStartSound ==
  ASSUME NEW V \in SUBSET Verts, NEW Q \in SUBSET Valuations, NEW g \in Gr(V, Q),
         NEW p, \A u \in V : p[u] \in Int, NEW src \in V,
         NEW marks, marks \in [succs(g, src) -> Marks]
  PROVE  DijkstraStart(g, p, src, marks) \in DijkstraStates(V, Q, p, src)
<1> DEFINE D == succs(g, src)
           near == [d \in D |-> p[src] + edge_val(g, src, d) - p[d]]
           zero == [d \in {src} |-> 0]
           dist == near ++ zero
<1>1. DijkstraStart(g, p, src, marks) = [dist |-> dist, mark |-> marks, heap |-> D, out |-> <<>>]
  BY DEF DijkstraStart
<1>2. /\ D \in SUBSET V
      /\ \A d \in D : edge_val(g, src, d) \in Int /\ \A q \in Q : q[d] - q[src] <= edge_val(g, src, d)
  BY ElemFacts
<1>3. near \in [D -> Int] /\ zero \in [{src} -> Int] /\ {src} \in SUBSET V
  BY <1>2
<1>4. near \in Partial(V, Int) /\ zero \in Partial(V, Int) /\ DOMAIN near = D /\ DOMAIN zero = {src}
  <2>1. DOMAIN near = D /\ DOMAIN zero = {src}
    OBVIOUS
  <2> HIDE DEF near, zero, D
  <2> QED
    BY <1>2, <1>3, <2>1, PartialIntro
<1>5. /\ \A d \in D : near[d] = p[src] + edge_val(g, src, d) - p[d]
      /\ zero[src] = 0
  OBVIOUS
<1>6. marks \in Partial(V, Marks)
  BY <1>2, PartialIntro
<1> HIDE DEF near, zero
<1>7. /\ dist \in Partial(V, Int)
      /\ DOMAIN dist = D \cup {src}
      /\ \A d \in D : dist[d] = p[src] + edge_val(g, src, d) - p[d]
      /\ src \notin D => dist[src] = 0
  <2>1. dist \in Partial(V, Int) /\ DOMAIN dist = D \cup {src}
    BY <1>4, MergePartial, MergeFacts
  <2>2. \A d \in DOMAIN near : dist[d] = near[d]
    BY MergeFacts
  <2>3. \A d \in (DOMAIN zero) \ (DOMAIN near) : dist[d] = zero[d]
    BY MergeFacts
  <2> HIDE DEF dist, D
  <2> QED
    BY <1>4, <1>5, <2>1, <2>2, <2>3
<1> HIDE DEF dist
<1>8. ASSUME NEW d \in DOMAIN dist, NEW q \in Q
      PROVE  q[d] - q[src] <= dist[d] + p[d] - p[src]
  <2>0. q[src] \in Int /\ p[src] \in Int
    BY ValuationFacts
  <2>1. CASE d \in D
    <3> DEFINE w == edge_val(g, src, d)
    <3>1. q[d] \in Int /\ p[d] \in Int /\ w \in Int /\ q[d] - q[src] <= w /\ dist[d] = p[src] + w - p[d]
      BY <1>2, <1>7, <2>1, ValuationFacts
    <3> HIDE DEF w
    <3> QED
      BY <2>0, <3>1
  <2>2. CASE d \notin D
    <3>1. d = src /\ dist[d] = 0
      BY <1>7, <2>2
    <3> QED
      BY <2>0, <3>1
  <2> QED
    BY <2>1, <2>2
<1>9. <<>> \in Gr(V, Q)
  BY EmptyGr
<1> HIDE DEF D
<1> QED
  BY <1>1, <1>2, <1>6, <1>7, <1>8, <1>9 DEF DijkstraStates

LEMMA ChromeSound ==
  ASSUME NEW V \in SUBSET Verts, NEW Q \in SUBSET Valuations, NEW g \in Gr(V, Q),
         NEW p, \A u \in V : p[u] \in Int, NEW src \in V,
         NEW colour, \A e \in DOMAIN g : colour[e] \in Marks
  PROVE  chrome_dijkstra(g, p, colour, src) \in Gr(V, Q)
<1> DEFINE marks == [d \in succs(g, src) |-> colour[<<src, d>>]]
           start == DijkstraStart(g, p, src, marks)
           k == 2 * NumVars
           seq == [n \in 1..k |-> n]
           G == DijkstraStates(V, Q, p, src)
           end == ChromeAll(g, p, colour, src, start, seq)
<1>1. marks \in [succs(g, src) -> Marks]
  BY ElemFacts DEF elem
<1>2. start \in G
  <2> HIDE DEF marks
  <2> QED
    BY <1>1, DijkstraStartSound
<1>3. ASSUME NEW st \in G
      PROVE  ChromeStep(g, p, colour, src, st) \in G
  <2>1. CASE st.heap = {}
    BY <2>1 DEF ChromeStep
  <2>2. CASE st.heap # {}
    <3> DEFINE es == Nearest(st)
               heads == Alternate(g, colour, st, es)
    <3>1. st.heap \in SUBSET V /\ \A u \in st.heap : st.dist[u] \in Int
      BY PartialElim DEF DijkstraStates
    <3>2. es \in st.heap
      BY <2>2, <3>1, NearestInHeap
    <3>3. heads \subseteq succs(g, es)
      BY DEF Alternate
    <3>4. ChromeStep(g, p, colour, src, st) = DijkstraStep(g, p, src, st, es, heads, colour)
      BY <2>2 DEF ChromeStep
    <3> HIDE DEF es, heads
    <3> QED
      BY <3>2, <3>3, <3>4, DijkstraStepSound
  <2> QED
    BY <2>1, <2>2
<1>4. k \in Nat
  BY NumVarsAssumption
<1>5. DOMAIN seq = 1..k /\ \A i \in 1..k : seq[i] \in Nat
  <2> HIDE DEF k
  <2> QED
    BY <1>4
<1>6. end \in G
  <2> HIDE DEF G, seq, start, k
  <2>1. \A a \in G : \A x \in Nat : ChromeStep(g, p, colour, src, a) \in G
    BY <1>3
  <2> QED
    BY <1>2, <1>4, <1>5, <2>1, ChromeAllWithin
<1>7. chrome_dijkstra(g, p, colour, src) = end.out
  BY DEF chrome_dijkstra, ChromeAll
<1> HIDE DEF end
<1> QED
  BY <1>6, <1>7 DEF DijkstraStates

LEMMA RecoverSound ==
  ASSUME NEW V \in SUBSET Verts, NEW Q \in SUBSET Valuations, NEW g \in Gr(V, Q),
         NEW p, \A u \in V : p[u] \in Int, NEW src \in V, NEW S
  PROVE  dijkstra_recover(g, p, S, src) \in Gr(V, Q)
<1> DEFINE colour == [e \in DOMAIN g |-> IF e[1] \in S THEN {"stable"} ELSE {}]
           marks == [d \in succs(g, src) |-> {}]
           start == DijkstraStart(g, p, src, marks)
           k == 2 * NumVars
           seq == [n \in 1..k |-> n]
           G == DijkstraStates(V, Q, p, src)
           end == RecoverAll(g, p, colour, src, start, seq)
<1>1. marks \in [succs(g, src) -> Marks]
  BY DEF Marks
<1>0. \A e \in DOMAIN g : colour[e] \in Marks
  BY DEF Marks
<1>2. start \in G
  <2> HIDE DEF marks
  <2> QED
    BY <1>1, DijkstraStartSound
<1>7. dijkstra_recover(g, p, S, src) = end.out
  BY DEF dijkstra_recover, RecoverAll
<1> HIDE DEF colour
<1>3. ASSUME NEW st \in G
      PROVE  RecoverStep(g, p, colour, src, st) \in G
  <2>1. CASE st.heap = {}
    BY <2>1 DEF RecoverStep
  <2>2. CASE st.heap # {}
    <3> DEFINE es == Nearest(st)
               heads == IF st.mark[es] = {"stable"} THEN {} ELSE succs(g, es)
    <3>1. st.heap \in SUBSET V /\ \A u \in st.heap : st.dist[u] \in Int
      BY PartialElim DEF DijkstraStates
    <3>2. es \in st.heap
      BY <2>2, <3>1, NearestInHeap
    <3>3. heads \subseteq succs(g, es)
      OBVIOUS
    <3>4. RecoverStep(g, p, colour, src, st) = DijkstraStep(g, p, src, st, es, heads, colour)
      BY <2>2 DEF RecoverStep
    <3> HIDE DEF es, heads
    <3> QED
      BY <1>0, <3>2, <3>3, <3>4, DijkstraStepSound
  <2> QED
    BY <2>1, <2>2
<1>4. k \in Nat
  BY NumVarsAssumption
<1>5. DOMAIN seq = 1..k /\ \A i \in 1..k : seq[i] \in Nat
  <2> HIDE DEF k
  <2> QED
    BY <1>4
<1>6. end \in G
  <2> HIDE DEF G, seq, start, k
  <2>1. \A a \in G : \A x \in Nat : RecoverStep(g, p, colour, src, a) \in G
    BY <1>3
  <2> QED
    BY <1>2, <1>4, <1>5, <2>1, RecoverAllWithin
<1> HIDE DEF end
<1> QED
  BY <1>6, <1>7 DEF DijkstraStates

LEMMA CloseMeetSound ==
  ASSUME NEW p, DOMAIN p \in SUBSET Verts, \A u \in DOMAIN p : p[u] \in Int,
         NEW Q \in SUBSET Valuations, NEW g \in Gr(DOMAIN p, Q), NEW l, NEW r
  PROVE  close_after_meet(g, p, l, r) \in Gr(DOMAIN p, Q)
<1> DEFINE HasWeight(h, e) == e \in DOMAIN h /\ h[e] = g[e]
           colour == [e \in DOMAIN g |-> (IF HasWeight(l, e) THEN {"L"} ELSE {})
                                            \cup (IF HasWeight(r, e) THEN {"R"} ELSE {})]
           V == DOMAIN p
           S == V \ {0}
           seq == InOrder(S)
           n == Cardinality(S)
           G == Gr(V, Q)
           end == MeetDeltas(g, p, colour, <<>>, seq)
<1>1. \A e \in DOMAIN g : colour[e] \in Marks
  BY DEF Marks
<1>2. close_after_meet(g, p, l, r) = end
  BY DEF close_after_meet, MeetDeltas
<1> HIDE DEF colour, end
<1>3. S \in SUBSET Verts /\ S \in SUBSET V
  OBVIOUS
<1>4. IsFiniteSet(S) /\ S \subseteq Int /\ n \in Nat
  BY <1>3, VertFacts
<1>5. DOMAIN seq = 1..n /\ \A i \in 1..n : seq[i] \in S
  <2> HIDE DEF S, seq, n
  <2>1. Lists(seq, S)
    BY <1>4, InOrderFacts DEF seq
  <2> QED
    BY <2>1 DEF Lists, n
<1>6. ASSUME NEW a \in G, NEW x \in S
      PROVE  chrome_dijkstra(g, p, colour, x) ++ a \in G
  <2>1. chrome_dijkstra(g, p, colour, x) \in Gr(V, Q)
    BY <1>1, ChromeSound
  <2> QED
    BY <2>1, MergeGr
<1>7. <<>> \in G
  BY EmptyGr
<1>8. end \in G
  <2> HIDE DEF S, seq, n, G
  <2> QED
    BY <1>4, <1>5, <1>6, <1>7, MeetDeltasWithin DEF end
<1> QED
  BY <1>2, <1>8

LEMMA CloseWidenSound ==
  ASSUME NEW p, DOMAIN p \in SUBSET Verts, \A u \in DOMAIN p : p[u] \in Int,
         NEW Q \in SUBSET Valuations, NEW g \in Gr(DOMAIN p, Q), NEW U
  PROVE  close_after_widen(g, p, U) \in Gr(DOMAIN p, Q)
<1> DEFINE V == DOMAIN p
           S == V \ ({0} \cup U)
           seq == InOrder(S)
           n == Cardinality(S)
           G == Gr(V, Q)
           end == WidenDeltas(g, p, U, <<>>, seq)
<1>2. close_after_widen(g, p, U) = end
  BY DEF close_after_widen, WidenDeltas
<1> HIDE DEF end
<1>3. S \in SUBSET Verts /\ S \in SUBSET V
  OBVIOUS
<1>4. IsFiniteSet(S) /\ S \subseteq Int /\ n \in Nat
  BY <1>3, VertFacts
<1>5. DOMAIN seq = 1..n /\ \A i \in 1..n : seq[i] \in S
  <2> HIDE DEF S, seq, n
  <2>1. Lists(seq, S)
    BY <1>4, InOrderFacts DEF seq
  <2> QED
    BY <2>1 DEF Lists, n
<1>6. ASSUME NEW a \in G, NEW x \in S
      PROVE  dijkstra_recover(g, p, U, x) ++ a \in G
  <2>1. dijkstra_recover(g, p, U, x) \in Gr(V, Q)
    BY RecoverSound
  <2> QED
    BY <2>1, MergeGr
<1>7. <<>> \in G
  BY EmptyGr
<1>8. end \in G
  <2> HIDE DEF S, seq, n, G
  <2> QED
    BY <1>4, <1>5, <1>6, <1>7, WidenDeltasWithin DEF end
<1> QED
  BY <1>2, <1>8

(* Syntactic join, meet and widening of the edges. *)
LEMMA SyntacticJoinSound ==
  ASSUME NEW V, NEW P \in SUBSET Valuations, NEW Q \in SUBSET Valuations, V \subseteq Verts,
         NEW l \in Gr(V, P), NEW r \in Gr(V, Q)
  PROVE  SyntacticJoin(l, r) \in Gr(V, P \cup Q)
<1> DEFINE D == DOMAIN l \cap DOMAIN r
           j == [e \in D |-> Max({l[e], r[e]})]
<1>1. /\ DOMAIN l \in SUBSET (V \X V)
      /\ \A e \in DOMAIN l : l[e] \in Int /\ \A q \in P : q[e[2]] - q[e[1]] <= l[e]
  BY GrElim
<1>2. \A e \in DOMAIN r : r[e] \in Int /\ \A q \in Q : q[e[2]] - q[e[1]] <= r[e]
  BY GrElim
<1>3. ASSUME NEW e \in D
      PROVE  j[e] \in Int /\ \A q \in P \cup Q : q[e[2]] - q[e[1]] <= j[e]
  <2>1. l[e] \in Int /\ r[e] \in Int /\ j[e] = Max({l[e], r[e]}) /\ e[1] \in Verts /\ e[2] \in Verts
    BY <1>1, <1>2
  <2> HIDE DEF j
  <2>2. j[e] \in Int /\ l[e] <= j[e] /\ r[e] <= j[e]
    <3>1. j[e] = IF l[e] >= r[e] THEN l[e] ELSE r[e]
      BY <2>1, MinMaxPair
    <3> QED
      BY <2>1, <3>1
  <2>3. \A q \in P \cup Q : q[e[1]] \in Int /\ q[e[2]] \in Int /\ (q[e[2]] - q[e[1]] <= l[e] \/ q[e[2]] - q[e[1]] <= r[e])
    BY <1>1, <1>2, <2>1 DEF Valuations
  <2> HIDE DEF D
  <2>4. ASSUME NEW q \in P \cup Q
        PROVE  q[e[2]] - q[e[1]] <= j[e]
    <3>1. q[e[1]] \in Int /\ q[e[2]] \in Int /\ (q[e[2]] - q[e[1]] <= l[e] \/ q[e[2]] - q[e[1]] <= r[e])
      BY <2>3
    <3> QED
      BY <2>1, <2>2, <3>1
  <2> QED
    BY <2>2, <2>4
<1>4. D \in SUBSET (V \X V) /\ j \in [D -> Int]
  BY <1>1, <1>3
<1>5. j \in Gr(V, P \cup Q)
  <2> DEFINE R == P \cup Q
  <2> HIDE DEF j, D, R
  <2>1. \A e \in D : \A q \in R : q[e[2]] - q[e[1]] <= j[e]
    BY <1>3 DEF R
  <2>2. j \in Gr(V, R)
    BY <1>4, <2>1, GrIntro
  <2> QED
    BY <2>2 DEF R
<1> QED
  BY <1>5 DEF SyntacticJoin

LEMMA SyntacticMeetSound ==
  ASSUME NEW V, NEW Q, NEW l \in Gr(V, Q), NEW r \in Gr(V, Q)
  PROVE  SyntacticMeet(l, r) \in Gr(V, Q)
<1> DEFINE D == DOMAIN l \cup DOMAIN r
           m == SyntacticMeet(l, r)
<1>1. /\ DOMAIN l \in SUBSET (V \X V)
      /\ \A e \in DOMAIN l : l[e] \in Int /\ \A q \in Q : q[e[2]] - q[e[1]] <= l[e]
  BY GrElim
<1>2. /\ DOMAIN r \in SUBSET (V \X V)
      /\ \A e \in DOMAIN r : r[e] \in Int /\ \A q \in Q : q[e[2]] - q[e[1]] <= r[e]
  BY GrElim
<1>3. ASSUME NEW e \in D
      PROVE  m[e] \in Int /\ \A q \in Q : q[e[2]] - q[e[1]] <= m[e]
  <2>1. m[e] = IF e \notin DOMAIN r THEN l[e] ELSE IF e \notin DOMAIN l THEN r[e] ELSE Min({l[e], r[e]})
    BY DEF SyntacticMeet
  <2>2. e \in DOMAIN l /\ e \in DOMAIN r => Min({l[e], r[e]}) \in {l[e], r[e]}
    BY <1>1, <1>2, MinMaxPair
  <2> HIDE DEF m
  <2> QED
    BY <1>1, <1>2, <2>1, <2>2
<1>4. D \in SUBSET (V \X V) /\ m \in [D -> Int]
  BY <1>1, <1>2, <1>3 DEF SyntacticMeet
<1> HIDE DEF m, D
<1>5. m \in Gr(V, Q)
  BY <1>3, <1>4, GrIntro
<1> QED
  BY <1>5 DEF m

LEMMA SyntacticWidenSound ==
  ASSUME NEW V, NEW P \in SUBSET Valuations, NEW Q \in SUBSET Valuations, V \subseteq Verts,
         NEW l \in Gr(V, P), NEW r \in Gr(V, Q)
  PROVE  SyntacticWiden(l, r) \in Gr(V, P \cup Q)
<1> DEFINE D == {f \in DOMAIN l \cap DOMAIN r : r[f] <= l[f]}
           j == [e \in D |-> l[e]]
<1>1. /\ DOMAIN l \in SUBSET (V \X V)
      /\ \A e \in DOMAIN l : l[e] \in Int /\ \A q \in P : q[e[2]] - q[e[1]] <= l[e]
  BY GrElim
<1>2. \A e \in DOMAIN r : r[e] \in Int /\ \A q \in Q : q[e[2]] - q[e[1]] <= r[e]
  BY GrElim
<1>3. ASSUME NEW e \in D
      PROVE  j[e] \in Int /\ \A q \in P \cup Q : q[e[2]] - q[e[1]] <= j[e]
  <2>1. l[e] \in Int /\ r[e] \in Int /\ j[e] = l[e] /\ r[e] <= l[e] /\ e[1] \in Verts /\ e[2] \in Verts
    BY <1>1, <1>2
  <2>3. \A q \in P \cup Q : q[e[1]] \in Int /\ q[e[2]] \in Int /\ (q[e[2]] - q[e[1]] <= l[e] \/ q[e[2]] - q[e[1]] <= r[e])
    BY <1>1, <1>2, <2>1 DEF Valuations
  <2> HIDE DEF D, j
  <2> QED
    BY <2>1, <2>3
<1>4. D \in SUBSET (V \X V) /\ j \in [D -> Int]
  BY <1>1, <1>3
<1>5. j \in Gr(V, P \cup Q)
  <2> DEFINE R == P \cup Q
  <2> HIDE DEF j, D, R
  <2>1. \A e \in D : \A q \in R : q[e[2]] - q[e[1]] <= j[e]
    BY <1>3 DEF R
  <2>2. j \in Gr(V, R)
    BY <1>4, <2>1, GrIntro
  <2> QED
    BY <2>2 DEF R
<1> QED
  BY <1>5 DEF SyntacticWiden

-----------------------------------------------------------------------------
(***************************************************************************)
(* repair_potential.  The vertices that have got a new potential are done. *)
(* A negative distance is that of a path from ii, so that none leads back  *)
(* to ii when the graph has a solution.  Vertices are done in the order of *)
(* their distances, and so no edge between two of them is violated; an     *)
(* edge that leaves them is accounted for in the distance of its head,     *)
(* which is 0 once the heap is empty.                                      *)
(***************************************************************************)

Done(p, st) == {v \in DOMAIN p : st.alt[v] # p[v]}

(* p satisfies the edges other than ii -> jj. *)
ModelBut(g, p, ii, jj) == \A e \in DOMAIN g : e # <<ii, jj>> => p[e[2]] - p[e[1]] <= g[e]

RepairTypes(p) == [dist : [DOMAIN p -> Int], alt : [DOMAIN p -> Int], heap : SUBSET DOMAIN p]

RepairDist(p, st) ==
  /\ \A v \in DOMAIN p : st.dist[v] <= 0
  /\ \A v \in Done(p, st) : st.alt[v] = p[v] + st.dist[v]
  /\ \A v \in st.heap : st.dist[v] < 0 /\ v \notin Done(p, st)
  /\ \A v \in DOMAIN p \ st.heap : v \notin Done(p, st) => st.dist[v] = 0

RepairPaths(p, ii, Q, st) ==
  \A v \in DOMAIN p : st.dist[v] < 0 => \A q \in Q : q[v] - q[ii] <= p[v] + st.dist[v] - p[ii]

RepairOrder(p, st) == \A f \in Done(p, st) : \A v \in st.heap : st.dist[f] <= st.dist[v]

RepairEdges(g, p, ii, jj, st) ==
  \A e \in DOMAIN g : e[1] \in Done(p, st) =>
    /\ e[2] \notin Done(p, st) => st.alt[e[1]] + g[e] - p[e[2]] >= st.dist[e[2]]
    /\ e[2] \in Done(p, st) /\ e # <<ii, jj>> => st.alt[e[1]] + g[e] - st.alt[e[2]] >= 0

RepairFirst(p, jj, slack, st) ==
  /\ st.dist[jj] = slack
  /\ jj \in Done(p, st) \/ (st.heap = {jj} /\ Done(p, st) = {})

RepairStates(g, p, ii, jj, slack, Q) ==
  {st \in RepairTypes(p) :
     /\ RepairDist(p, st)
     /\ RepairPaths(p, ii, Q, st)
     /\ RepairOrder(p, st)
     /\ RepairEdges(g, p, ii, jj, st)
     /\ RepairFirst(p, jj, slack, st)}

LEMMA RepairStepSound ==
  ASSUME NEW p, DOMAIN p \in SUBSET Verts, p \in [DOMAIN p -> Int],
         NEW Q \in SUBSET Valuations, NEW g \in Gr(DOMAIN p, Q),
         NEW ii, NEW jj, elem(g, ii, jj), ModelBut(g, p, ii, jj), NEW slack \in Int,
         NEW st \in RepairStates(g, p, ii, jj, slack, Q), st.heap # {}
  PROVE  /\ RepairNearest(g, p, st) \in RepairStates(g, p, ii, jj, slack, Q)
         /\ \E es \in DOMAIN p : es \notin Done(p, st) /\ Done(p, RepairNearest(g, p, st)) = Done(p, st) \cup {es}
<1> DEFINE V == DOMAIN p
           es == Nearest(st)
           alt == [st.alt EXCEPT ![es] = p[es] + st.dist[es]]
           Slack(ed) == alt[es] + edge_val(g, es, ed) - alt[ed]
           lower == {ed \in succs(g, es) : alt[ed] = p[ed] /\ Slack(ed) < st.dist[ed]}
           dist == [v \in V |-> IF v \in lower THEN Slack(v) ELSE st.dist[v]]
           heap == (st.heap \ {es}) \cup lower
           new == [dist |-> dist, alt |-> alt, heap |-> heap]
           F == Done(p, st)
<1>1. RepairNearest(g, p, st) = new
  BY DEF RepairNearest, Repair
<1>2. /\ st.dist \in [V -> Int] /\ st.alt \in [V -> Int] /\ st.heap \in SUBSET V
      /\ RepairDist(p, st) /\ RepairPaths(p, ii, Q, st) /\ RepairOrder(p, st)
      /\ RepairEdges(g, p, ii, jj, st) /\ RepairFirst(p, jj, slack, st)
  BY DEF RepairStates, RepairTypes
<1>3. es \in st.heap /\ \A u \in st.heap : st.dist[es] <= st.dist[u]
  BY <1>2, NearestInHeap
<1> HIDE DEF es
<1>4. /\ es \in V /\ p[es] \in Int /\ st.dist[es] \in Int /\ st.dist[es] < 0 /\ es \notin F
  BY <1>2, <1>3 DEF RepairDist
<1>5. /\ alt \in [V -> Int] /\ alt[es] = p[es] + st.dist[es] /\ alt[es] # p[es]
      /\ \A v \in V \ {es} : alt[v] = st.alt[v]
  BY <1>2, <1>4
<1> HIDE DEF alt
<1>6. F \in SUBSET V /\ \A v \in V : v \in F <=> st.alt[v] # p[v]
  BY DEF Done
<1>7. Done(p, new) = F \cup {es}
  BY <1>4, <1>5, <1>6 DEF Done
<1>8. /\ jj \in V /\ ii \in V
      /\ \A ed \in succs(g, es) : ed \in V /\ elem(g, es, ed) /\ edge_val(g, es, ed) \in Int
                                  /\ \A q \in Q : q[ed] - q[es] <= edge_val(g, es, ed)
  BY ElemFacts
<1>9. ASSUME NEW ed \in lower
      PROVE  /\ ed \in V /\ ed \notin F /\ ed # es /\ elem(g, es, ed)
             /\ Slack(ed) \in Int /\ Slack(ed) < st.dist[ed]
             /\ Slack(ed) = p[es] + st.dist[es] + edge_val(g, es, ed) - p[ed]
  <2>1. ed \in succs(g, es) /\ alt[ed] = p[ed] /\ Slack(ed) < st.dist[ed]
    OBVIOUS
  <2>2. ed \in V /\ elem(g, es, ed) /\ ed # es
    BY <1>5, <1>8, <2>1
  <2>3. ed \notin F
    BY <1>5, <1>6, <2>1, <2>2
  <2> HIDE DEF lower
  <2>4. edge_val(g, es, ed) \in Int /\ p[ed] \in Int
    BY <1>8, <2>1, <2>2
  <2> QED
    BY <1>4, <1>5, <2>1, <2>2, <2>3, <2>4
<1>10. \A ed \in succs(g, es) \ lower : ed \notin F \cup {es} => Slack(ed) >= st.dist[ed] /\ alt[ed] = p[ed]
  <2> SUFFICES ASSUME NEW ed \in succs(g, es), ed \notin lower, ed \notin F, ed # es
               PROVE  Slack(ed) >= st.dist[ed] /\ alt[ed] = p[ed]
    OBVIOUS
  <2>1. ed \in V /\ edge_val(g, es, ed) \in Int
    BY <1>8
  <2>2. alt[ed] = p[ed]
    BY <1>5, <1>6, <2>1
  <2>3. ~ (Slack(ed) < st.dist[ed])
    BY <2>2
  <2>4. alt[es] \in Int /\ alt[ed] \in Int /\ st.dist[ed] \in Int
    BY <1>2, <1>4, <1>5, <2>1
  <2> HIDE DEF lower
  <2> QED
    BY <2>1, <2>2, <2>3, <2>4
<1> HIDE DEF lower
<1>11. lower \subseteq V
  BY <1>9
<1>12. /\ dist \in [V -> Int]
       /\ \A v \in lower : dist[v] = Slack(v)
       /\ \A v \in V \ lower : dist[v] = st.dist[v]
       /\ \A v \in V : dist[v] <= st.dist[v]
  <2>1. /\ \A v \in lower : dist[v] = Slack(v)
        /\ \A v \in V \ lower : dist[v] = st.dist[v]
    BY <1>11
  <2>2. dist \in [V -> Int]
    BY <1>2, <1>9
  <2> HIDE DEF dist
  <2>3. \A v \in V : dist[v] <= st.dist[v]
    BY <1>2, <1>9, <2>1, <2>2
  <2> QED
    BY <2>1, <2>2, <2>3
<1> HIDE DEF dist
<1>13. new \in RepairTypes(p)
  BY <1>2, <1>5, <1>11, <1>12 DEF RepairTypes
<1>14. new.dist = dist /\ new.alt = alt /\ new.heap = heap
  OBVIOUS
<1> HIDE DEF new
<1>15. es \notin lower /\ dist[es] = st.dist[es] /\ \A f \in F : f \notin lower /\ dist[f] = st.dist[f] /\ alt[f] = st.alt[f] /\ f # es
  BY <1>4, <1>5, <1>6, <1>9, <1>12
<1>16. RepairDist(p, new)
  <2>1. \A v \in V : dist[v] <= 0
    <3> SUFFICES ASSUME NEW v \in V PROVE dist[v] <= 0
      OBVIOUS
    <3>1. dist[v] \in Int /\ st.dist[v] \in Int /\ dist[v] <= st.dist[v] /\ st.dist[v] <= 0
      BY <1>2, <1>12 DEF RepairDist
    <3> QED
      BY <3>1
  <2>2. \A v \in F \cup {es} : alt[v] = p[v] + dist[v]
    BY <1>2, <1>5, <1>15 DEF RepairDist
  <2>3. \A v \in heap : dist[v] < 0 /\ v \notin F \cup {es}
    <3>1. ASSUME NEW v \in lower
          PROVE  dist[v] < 0 /\ v \notin F \cup {es}
      <4>1. dist[v] < st.dist[v] /\ st.dist[v] <= 0 /\ dist[v] \in Int /\ st.dist[v] \in Int
        BY <1>2, <1>9, <1>12 DEF RepairDist
      <4> QED
        BY <1>9, <4>1
    <3>2. ASSUME NEW v \in st.heap \ {es}, v \notin lower
          PROVE  dist[v] < 0 /\ v \notin F \cup {es}
      BY <1>2, <1>12, <3>2 DEF RepairDist
    <3> QED
      BY <3>1, <3>2
  <2>4. \A v \in V \ heap : v \notin F \cup {es} => dist[v] = 0
    BY <1>2, <1>12 DEF RepairDist
  <2> QED
    BY <1>7, <1>14, <2>1, <2>2, <2>3, <2>4 DEF RepairDist
<1>17. RepairPaths(p, ii, Q, new)
  <2> SUFFICES ASSUME NEW v \in V, dist[v] < 0, NEW q \in Q
               PROVE  q[v] - q[ii] <= p[v] + dist[v] - p[ii]
    BY <1>14 DEF RepairPaths
  <2>1. CASE v \notin lower
    <3>1. dist[v] = st.dist[v]
      BY <1>12, <2>1
    <3> QED
      BY <1>2, <3>1 DEF RepairPaths
  <2>2. CASE v \in lower
    <3> DEFINE w == edge_val(g, es, v)
    <3>1. q[es] - q[ii] <= p[es] + st.dist[es] - p[ii]
      BY <1>2, <1>4 DEF RepairPaths
    <3>2. q[v] - q[es] <= w /\ w \in Int
      BY <1>8, <1>9, <2>2, ElemFacts
    <3>3. dist[v] = p[es] + st.dist[es] + w - p[v]
      BY <1>9, <1>12, <2>2
    <3>4. q[v] \in Int /\ q[ii] \in Int /\ q[es] \in Int /\ p[v] \in Int /\ p[ii] \in Int
      BY <1>4, <1>8, ValuationFacts
    <3> HIDE DEF w
    <3> QED
      BY <1>4, <3>1, <3>2, <3>3, <3>4
  <2> QED
    BY <2>1, <2>2
<1>18. ASSUME NEW ed \in lower
       PROVE  <<es, ed>> # <<ii, jj>>
  <2> SUFFICES ASSUME es = ii, ed = jj PROVE FALSE
    OBVIOUS
  <2>1. jj \notin F /\ jj # es
    BY <1>9
  <2>2. st.heap = {jj}
    BY <1>2, <2>1 DEF RepairFirst
  <2> QED
    BY <1>3, <2>1, <2>2
<1>19. ASSUME NEW ed \in lower
       PROVE  st.dist[es] <= dist[ed]
  <2> DEFINE w == edge_val(g, es, ed)
  <2>1. <<es, ed>> \in DOMAIN g /\ g[<<es, ed>>] = w
    BY <1>9 DEF elem, edge_val
  <2>2. p[ed] - p[es] <= w
    <3> DEFINE e == <<es, ed>>
    <3>1. e \in DOMAIN g /\ e # <<ii, jj>> /\ g[e] = w /\ e[1] = es /\ e[2] = ed
      BY <1>18, <2>1
    <3> HIDE DEF e
    <3> QED
      BY <3>1 DEF ModelBut
  <2>3. dist[ed] = p[es] + st.dist[es] + w - p[ed] /\ p[ed] \in Int /\ w \in Int
    BY <1>8, <1>9, <1>12, ElemFacts
  <2> HIDE DEF w
  <2> QED
    BY <1>4, <2>2, <2>3
<1>20. RepairOrder(p, new)
  <2>1. ASSUME NEW f \in F \cup {es}
        PROVE  f \in V /\ dist[f] \in Int /\ dist[f] <= st.dist[es]
    BY <1>2, <1>3, <1>4, <1>6, <1>12, <1>15 DEF RepairOrder
  <2>2. ASSUME NEW v \in heap
        PROVE  v \in V /\ dist[v] \in Int /\ st.dist[es] <= dist[v]
    BY <1>2, <1>3, <1>11, <1>12, <1>19
  <2> SUFFICES ASSUME NEW f \in F \cup {es}, NEW v \in heap
               PROVE  dist[f] <= dist[v]
    BY <1>7, <1>14 DEF RepairOrder
  <2> HIDE DEF F, heap
  <2> QED
    BY <1>4, <2>1, <2>2
<1>21. RepairEdges(g, p, ii, jj, new)
  <2> SUFFICES ASSUME NEW e \in DOMAIN g, e[1] \in F \cup {es}
               PROVE  /\ e[2] \notin F \cup {es} => alt[e[1]] + g[e] - p[e[2]] >= dist[e[2]]
                      /\ e[2] \in F \cup {es} /\ e # <<ii, jj>> => alt[e[1]] + g[e] - alt[e[2]] >= 0
    BY <1>7, <1>14 DEF RepairEdges
  <2> DEFINE s == e[1]
             t == e[2]
             w == g[e]
  <2>0. e = <<s, t>> /\ s \in V /\ t \in V /\ w \in Int
    <3>1. DOMAIN g \in SUBSET (V \X V) /\ g[e] \in Int
      BY GrElim
    <3> QED
      BY <3>1
  <2>1. w = edge_val(g, s, t) /\ elem(g, s, t)
    BY <2>0 DEF edge_val, elem
  <2>2. e # <<ii, jj>> => p[t] - p[s] <= w
    BY DEF ModelBut
  <2>3. s \in F => /\ t \notin F => st.alt[s] + w - p[t] >= st.dist[t]
                   /\ t \in F /\ e # <<ii, jj>> => st.alt[s] + w - st.alt[t] >= 0
    BY <1>2 DEF RepairEdges
  <2>4. s \in F \/ s = es
    OBVIOUS
  <2> HIDE DEF s, t, w
  <2>5. p[s] \in Int /\ p[t] \in Int /\ st.alt[s] \in Int /\ st.alt[t] \in Int /\ st.dist[t] \in Int /\ dist[t] \in Int /\ st.dist[s] \in Int
    BY <1>2, <1>12, <2>0
  <2>6. ASSUME t \notin F \cup {es}
        PROVE  alt[s] + w - p[t] >= dist[t]
    <3>1. CASE s \in F
      <4>1. alt[s] = st.alt[s] /\ dist[t] <= st.dist[t] /\ st.alt[s] + w - p[t] >= st.dist[t]
        BY <1>12, <1>15, <2>0, <2>3, <2>6, <3>1
      <4> QED
        BY <2>0, <2>5, <4>1
    <3>2. CASE s = es /\ t \in lower
      <4>1. dist[t] = p[es] + st.dist[es] + w - p[t]
        BY <1>9, <1>12, <2>1, <3>2
      <4> QED
        BY <1>4, <1>5, <2>0, <2>5, <3>2, <4>1
    <3>3. CASE s = es /\ t \notin lower
      <4>1. t \in succs(g, es)
        BY <2>1, <3>3, ElemFacts
      <4>2. Slack(t) >= st.dist[t] /\ alt[t] = p[t] /\ dist[t] = st.dist[t]
        BY <1>10, <1>12, <2>0, <2>6, <3>3, <4>1
      <4> QED
        BY <2>1, <3>3, <4>2
    <3> QED
      BY <2>4, <3>1, <3>2, <3>3
  <2>7. ASSUME t \in F \cup {es}, e # <<ii, jj>>
        PROVE  alt[s] + w - alt[t] >= 0
    <3>1. CASE s \in F /\ t \in F
      BY <1>15, <2>3, <2>7, <3>1
    <3>2. CASE s \in F /\ t = es
      <4>1. alt[s] = st.alt[s] /\ st.alt[s] + w - p[es] >= st.dist[es]
        BY <1>4, <1>15, <2>3, <3>2
      <4> QED
        BY <1>4, <1>5, <2>0, <2>5, <3>2, <4>1
    <3>3. CASE s = es /\ t \in F
      <4>1. alt[t] = p[t] + st.dist[t] /\ st.dist[t] <= st.dist[es]
        BY <1>2, <1>3, <1>15, <3>3 DEF RepairDist, RepairOrder
      <4>2. p[t] - p[es] <= w
        BY <2>2, <2>7, <3>3
      <4> QED
        BY <1>4, <1>5, <2>0, <2>5, <3>3, <4>1, <4>2
    <3>4. CASE s = es /\ t = es
      <4>1. p[es] - p[es] <= w
        BY <2>2, <2>7, <3>4
      <4> QED
        BY <1>4, <1>5, <2>0, <3>4, <4>1
    <3> QED
      BY <2>4, <2>7, <3>1, <3>2, <3>3, <3>4
  <2> QED
    BY <2>6, <2>7 DEF s, t, w
<1>22. RepairFirst(p, jj, slack, new)
  <2>1. jj \notin lower
    <3> SUFFICES ASSUME jj \in lower PROVE FALSE
      OBVIOUS
    <3>1. jj \notin F /\ jj # es
      BY <1>9
    <3> QED
      BY <1>2, <1>3, <3>1 DEF RepairFirst
  <2>2. dist[jj] = slack
    BY <1>2, <1>8, <1>12, <2>1 DEF RepairFirst
  <2>3. jj \in F \cup {es}
    BY <1>2, <1>3 DEF RepairFirst
  <2> QED
    BY <1>7, <1>14, <2>2, <2>3 DEF RepairFirst
<1>23. new \in RepairStates(g, p, ii, jj, slack, Q)
  BY <1>13, <1>16, <1>17, <1>20, <1>21, <1>22 DEF RepairStates
<1> QED
  BY <1>1, <1>4, <1>7, <1>23

(* After as many steps as there are vertices the heap is empty. *)
LEMMA RepairEnds ==
  ASSUME NEW p, DOMAIN p \in SUBSET Verts, DOMAIN p # {}, p \in [DOMAIN p -> Int],
         NEW Q \in SUBSET Valuations, NEW g \in Gr(DOMAIN p, Q),
         NEW ii, NEW jj, elem(g, ii, jj), ModelBut(g, p, ii, jj), NEW slack \in Int,
         NEW start \in RepairStates(g, p, ii, jj, slack, Q), Done(p, start) = {},
         NEW k, k = 2 * Cardinality(DOMAIN p)
  PROVE  /\ RepairAll(g, p, start, [n \in 1..k |-> n]) \in RepairStates(g, p, ii, jj, slack, Q)
         /\ RepairAll(g, p, start, [n \in 1..k |-> n]).heap = {}
<1> DEFINE V == DOMAIN p
           G == RepairStates(g, p, ii, jj, slack, Q)
           seq == [n \in 1..k |-> n]
<1>1. Cardinality(V) \in Nat /\ Cardinality(V) # 0 /\ k \in Nat /\ IsFiniteSet(V)
  BY VertFacts, FS_EmptySet
<1>2. DOMAIN seq = 1..k /\ \A i \in 1..k : seq[i] \in Nat
  BY <1>1
<1>3. ASSUME NEW st \in G
      PROVE  RepairNearest(g, p, st) \in G
  <2>1. CASE st.heap = {}
    BY <2>1 DEF RepairNearest
  <2>2. CASE st.heap # {}
    BY <2>2, RepairStepSound
  <2> QED
    BY <2>1, <2>2
<1>4. PICK h \in [0..k -> G] : /\ h[0] = start
                               /\ \A i \in 1..k : h[i] = RepairNearest(g, p, h[i - 1])
                               /\ RepairAll(g, p, start, seq) = h[k]
  <2> HIDE DEF G, seq
  <2>1. \A a \in G : \A x \in Nat : RepairNearest(g, p, a) \in G
    BY <1>3
  <2>2. start \in G
    BY DEF G
  <2>3. RepairAllHistory(g, p, start, seq, k, G)
    BY <1>1, <1>2, <2>1, <2>2, RepairAllWithin
  <2> QED
    BY <2>3 DEF RepairAllHistory
<1>5. \A st : IsFiniteSet(Done(p, st)) /\ Cardinality(Done(p, st)) \in Nat /\ Cardinality(Done(p, st)) <= Cardinality(V)
  <2>1. \A st : Done(p, st) \subseteq V
    BY DEF Done
  <2> QED
    BY <1>1, <2>1, FS_Subset, FS_CardinalityType
<1> DEFINE H == [i \in 0..k |-> <<i, h[i]>>]
           K == {y \in Nat \X G : y[2].heap = {} \/ Cardinality(Done(p, y[2])) = y[1]}
<1>6. H[0] \in K
  <2>1. H[0] = <<0, start>>
    BY <1>1, <1>4
  <2>2. Cardinality(Done(p, start)) = 0
    BY FS_EmptySet
  <2>3. start \in G
    OBVIOUS
  <2> DEFINE y == <<0, start>>
  <2>4. y[1] = 0 /\ y[2] = start /\ y \in Nat \X G
    BY <2>3
  <2>5. Cardinality(Done(p, y[2])) = y[1]
    BY <2>2, <2>4
  <2> HIDE DEF y, G
  <2>6. y \in K
    BY <2>4, <2>5
  <2> QED
    BY <2>1, <2>6 DEF y
<1>7. ASSUME NEW i \in 1..k, H[i - 1] \in K
      PROVE  H[i] \in K
  <2> DEFINE a == h[i - 1]
             b == h[i]
  <2>1. H[i - 1] = <<i - 1, a>> /\ H[i] = <<i, b>> /\ i - 1 \in 0..k /\ i \in 0..k /\ i \in Nat
    BY <1>1
  <2>2. a \in G /\ b \in G /\ b = RepairNearest(g, p, a)
    BY <1>4, <2>1
  <2> HIDE DEF a, b, H
  <2>3. a.heap = {} \/ Cardinality(Done(p, a)) = i - 1
    BY <1>7, <2>1
  <2>4. CASE a.heap = {}
    <3>1. b.heap = {}
      BY <2>2, <2>4 DEF RepairNearest
    <3> QED
      BY <2>1, <2>2, <3>1
  <2>5. CASE a.heap # {}
    <3>1. PICK es \in V : es \notin Done(p, a) /\ Done(p, b) = Done(p, a) \cup {es}
      BY <2>2, <2>5, RepairStepSound
    <3>2. Cardinality(Done(p, b)) = Cardinality(Done(p, a)) + 1
      BY <1>5, <3>1, FS_AddElement
    <3>3. Cardinality(Done(p, b)) = i
      BY <2>1, <2>3, <2>5, <3>2
    <3> HIDE DEF G
    <3> QED
      BY <2>1, <2>2, <3>3
  <2> QED
    BY <2>4, <2>5
<1>8. H[k] \in K
  <2> HIDE DEF H, K
  <2>1. \A i \in 0..k : H[i] \in K
    BY <1>1, <1>6, <1>7, HistoryInduction
  <2> QED
    BY <1>1, <2>1
<1>9. h[k].heap = {} \/ Cardinality(Done(p, h[k])) = k
  BY <1>1, <1>8
<1>10. k > Cardinality(V)
  BY <1>1
<1>11. h[k].heap = {}
  <2>1. Cardinality(Done(p, h[k])) # k
    BY <1>1, <1>5, <1>10
  <2> QED
    BY <1>9, <2>1
<1>12. h[k] \in G
  BY <1>1, <1>4
<1> QED
  BY <1>4, <1>11, <1>12

LEMMA RepairSound ==
  ASSUME NEW p, DOMAIN p \in SUBSET Verts, p \in [DOMAIN p -> Int],
         NEW Q \in SUBSET Valuations, NEW g \in Gr(DOMAIN p, Q),
         NEW ii, NEW jj, elem(g, ii, jj), ModelBut(g, p, ii, jj),
         NEW r, r = repair_potential(g, p, ii, jj)
  PROVE  /\ r.ok \in BOOLEAN
         /\ Q # {} => r.ok
         /\ r.p \in [DOMAIN p -> Int]
         /\ r.ok => \A e \in DOMAIN g : r.p[e[2]] - r.p[e[1]] <= g[e]
<1> DEFINE V == DOMAIN p
           w == edge_val(g, ii, jj)
           slack == p[ii] + w - p[jj]
           dist == [v \in V |-> IF v = jj THEN slack ELSE 0]
           start == [dist |-> dist, alt |-> p, heap |-> {jj}]
           k == 2 * Cardinality(V)
           seq == [n \in 1..k |-> n]
           end == RepairAll(g, p, start, seq)
           G == RepairStates(g, p, ii, jj, slack, Q)
<1>1. /\ ii \in V /\ jj \in V /\ w \in Int /\ p[ii] \in Int /\ p[jj] \in Int /\ slack \in Int
      /\ \A q \in Q : q[jj] - q[ii] <= w
  BY ElemFacts
<1>2. ASSUME NEW e \in DOMAIN g
      PROVE  e[1] \in V /\ e[2] \in V /\ g[e] \in Int /\ e = <<e[1], e[2]>>
  BY GrElim
<1>3. r = IF slack >= 0 THEN [ok |-> TRUE, p |-> p]
          ELSE IF end.dist[ii] < 0 THEN [ok |-> FALSE, p |-> p] ELSE [ok |-> TRUE, p |-> end.alt]
  <2> DEFINE End(st) == IF st.dist[ii] < 0 THEN [ok |-> FALSE, p |-> p] ELSE [ok |-> TRUE, p |-> st.alt]
  <2>1. r = IF slack >= 0 THEN [ok |-> TRUE, p |-> p] ELSE Let(end, End)
    BY DEF repair_potential, RepairAll
  <2> HIDE DEF end, slack
  <2>2. Let(end, End) = End(end)
    BY DEF Let
  <2> QED
    BY <2>1, <2>2
<1>4. CASE slack >= 0
  <2>1. r = [ok |-> TRUE, p |-> p]
    BY <1>3, <1>4
  <2>2. ASSUME NEW e \in DOMAIN g
        PROVE  p[e[2]] - p[e[1]] <= g[e]
    <3>1. CASE e # <<ii, jj>>
      BY <3>1 DEF ModelBut
    <3>2. CASE e = <<ii, jj>>
      <4>1. e[1] = ii /\ e[2] = jj /\ g[e] = w
        BY <3>2 DEF edge_val
      <4> HIDE DEF w
      <4> QED
        BY <1>1, <1>4, <4>1
    <3> QED
      BY <3>1, <3>2
  <2> QED
    BY <2>1, <2>2
<1>5. CASE ~ (slack >= 0)
  <2>0. slack < 0
    BY <1>1, <1>5
  <2>1. start \in G /\ Done(p, start) = {}
    <3>1. start.dist = dist /\ start.alt = p /\ start.heap = {jj}
      OBVIOUS
    <3>2. dist \in [V -> Int] /\ dist[jj] = slack /\ \A v \in V : v # jj => dist[v] = 0
      <4> HIDE DEF slack
      <4> QED
        BY <1>1
    <3>3. start \in RepairTypes(p)
      <4> HIDE DEF dist
      <4> QED
        BY <1>1, <3>2 DEF RepairTypes
    <3> HIDE DEF start, dist
    <3>4. Done(p, start) = {}
      BY <3>1 DEF Done
    <3> HIDE DEF slack
    <3>5. RepairDist(p, start)
      BY <1>1, <2>0, <3>1, <3>2, <3>4 DEF RepairDist
    <3>6. RepairPaths(p, ii, Q, start)
      <4> SUFFICES ASSUME NEW v \in V, dist[v] < 0, NEW q \in Q
                   PROVE  q[v] - q[ii] <= p[v] + dist[v] - p[ii]
        BY <3>1 DEF RepairPaths
      <4>1. v = jj
        BY <3>2
      <4>2. q[jj] - q[ii] <= w /\ q[jj] \in Int /\ q[ii] \in Int /\ w \in Int /\ dist[v] = p[ii] + w - p[jj]
        BY <1>1, <3>2, <4>1, ValuationFacts DEF slack
      <4> HIDE DEF w
      <4> QED
        BY <1>1, <4>1, <4>2
    <3>7. RepairOrder(p, start) /\ RepairEdges(g, p, ii, jj, start) /\ RepairFirst(p, jj, slack, start)
      BY <3>1, <3>2, <3>4 DEF RepairOrder, RepairEdges, RepairFirst
    <3> QED
      BY <3>3, <3>4, <3>5, <3>6, <3>7 DEF RepairStates
  <2>2. V # {}
    BY <1>1
  <2>3. end \in G /\ end.heap = {}
    <3> HIDE DEF start, slack
    <3> QED
      BY <1>1, <2>1, <2>2, RepairEnds
  <2>4. /\ end.dist \in [V -> Int] /\ end.alt \in [V -> Int]
        /\ RepairDist(p, end) /\ RepairPaths(p, ii, Q, end) /\ RepairEdges(g, p, ii, jj, end)
        /\ RepairFirst(p, jj, slack, end)
    BY <2>3 DEF RepairStates, RepairTypes
  <2>5. r = IF end.dist[ii] < 0 THEN [ok |-> FALSE, p |-> p] ELSE [ok |-> TRUE, p |-> end.alt]
    BY <1>3, <1>5
  <2> HIDE DEF end
  <2>6. CASE end.dist[ii] < 0
    <3>1. r = [ok |-> FALSE, p |-> p]
      BY <2>5, <2>6
    <3>2. Q = {}
      <4> SUFFICES ASSUME NEW q \in Q PROVE FALSE
        OBVIOUS
      <4>1. q[ii] - q[ii] <= p[ii] + end.dist[ii] - p[ii]
        BY <1>1, <2>4, <2>6 DEF RepairPaths
      <4>2. q[ii] \in Int /\ end.dist[ii] \in Int /\ p[ii] \in Int
        BY <1>1, <2>4, ValuationFacts
      <4> QED
        BY <2>6, <4>1, <4>2
    <3> QED
      BY <3>1, <3>2
  <2>7. CASE ~ (end.dist[ii] < 0)
    <3>1. r = [ok |-> TRUE, p |-> end.alt]
      BY <2>5, <2>7
    <3> DEFINE alt == end.alt
               F == Done(p, end)
    <3>2. F \in SUBSET V /\ \A v \in V : v \in F <=> alt[v] # p[v]
      BY DEF Done
    <3>3. \A v \in V : v \in F => alt[v] = p[v] + end.dist[v] /\ end.dist[v] <= 0
      BY <2>4, <3>2 DEF RepairDist
    <3>4. \A v \in V : v \notin F => alt[v] = p[v] /\ end.dist[v] = 0
      BY <2>3, <2>4, <3>2 DEF RepairDist
    <3>5. ii \notin F
      <4> SUFFICES ASSUME ii \in F PROVE FALSE
        OBVIOUS
      <4>1. alt[ii] = p[ii] + end.dist[ii] /\ alt[ii] # p[ii] /\ end.dist[ii] <= 0 /\ end.dist[ii] \in Int
        BY <1>1, <2>4, <3>2, <3>3
      <4> HIDE DEF alt
      <4> QED
        BY <1>1, <2>7, <4>1
    <3>6. jj \in F /\ end.dist[jj] = slack
      <4>1. ~ (end.heap = {jj})
        BY <2>3
      <4> QED
        BY <2>4, <4>1 DEF RepairFirst
    <3> HIDE DEF F, alt
    <3>7. ASSUME NEW e \in DOMAIN g
          PROVE  alt[e[2]] - alt[e[1]] <= g[e]
      <4> DEFINE s == e[1]
                 t == e[2]
                 c == g[e]
      <4>1. s \in V /\ t \in V /\ c \in Int
        BY <1>2
      <4>2. e # <<ii, jj>> => p[t] - p[s] <= c
        BY DEF ModelBut
      <4>3. e = <<ii, jj>> => s = ii /\ t = jj /\ c = w
        BY DEF edge_val
      <4>4. s \in F => /\ t \notin F => alt[s] + c - p[t] >= end.dist[t]
                       /\ t \in F /\ e # <<ii, jj>> => alt[s] + c - alt[t] >= 0
        BY <2>4 DEF RepairEdges, F, alt
      <4> HIDE DEF s, t, c
      <4>5. p[s] \in Int /\ p[t] \in Int /\ alt[s] \in Int /\ alt[t] \in Int /\ end.dist[t] \in Int
        BY <2>4, <4>1 DEF alt
      <4>6. CASE e = <<ii, jj>>
        <5>1. alt[s] = p[ii] /\ alt[t] = p[jj] + (p[ii] + w - p[jj]) /\ c = w
          BY <1>1, <3>3, <3>4, <3>5, <3>6, <4>3, <4>6
        <5> HIDE DEF w
        <5> QED
          BY <1>1, <5>1 DEF s, t, c
      <4>7. CASE e # <<ii, jj>>
        <5>1. p[t] - p[s] <= c
          BY <4>2, <4>7
        <5>2. CASE s \in F /\ t \in F
          BY <4>1, <4>4, <4>5, <4>7, <5>2 DEF s, t, c
        <5>3. CASE s \in F /\ t \notin F
          <6>1. alt[s] + c - p[t] >= 0 /\ alt[t] = p[t]
            BY <3>4, <4>1, <4>4, <5>3
          <6>2. alt[t] - alt[s] <= c
            BY <4>1, <4>5, <6>1
          <6> QED
            BY <6>2 DEF s, t, c
        <5>4. CASE s \notin F
          <6>1. alt[s] = p[s] /\ (alt[t] = p[t] \/ (alt[t] = p[t] + end.dist[t] /\ end.dist[t] <= 0))
            BY <3>3, <3>4, <4>1, <5>4
          <6>2. alt[t] - alt[s] <= c
            BY <4>1, <4>5, <5>1, <6>1
          <6> QED
            BY <6>2 DEF s, t, c
        <5> QED
          BY <5>2, <5>3, <5>4
      <4> QED
        BY <4>6, <4>7
    <3> QED
      BY <2>4, <3>1, <3>7 DEF alt
  <2> QED
    BY <2>6, <2>7
<1> QED
  BY <1>4, <1>5

-----------------------------------------------------------------------------
(***************************************************************************)
(* Zones.  Zone(Q) has the well-formed zones that contain the valuations   *)
(* of Q, and whose potential satisfies their graph.  The potential is one  *)
(* more valuation, relative to the potential of zero; a vertex that a zone *)
(* does not have yet will get the potential 0.                             *)
(***************************************************************************)

Live == {0} \cup Vars

Potentials == {p \in Partial(Live, Int) : 0 \in DOMAIN p}

Model(p) == [v \in Verts |-> (IF v \in DOMAIN p THEN p[v] ELSE 0) - p[0]]

With(Q, p) == Q \cup {Model(p)}

Zone(Q) ==
  {z \in [ok : BOOLEAN, g : GraphsOn(Verts), p : Potentials] :
     /\ z.g \in Gr(DOMAIN z.p, With(Q, z.p))
     /\ Q # {} => z.ok}

LEMMA LiveFacts ==
  /\ Live \subseteq Verts /\ Fresh \notin Live /\ 0 \in Live /\ Vars \subseteq Live
  /\ \A v \in Live : v = 0 \/ v \in Vars
  /\ \A v \in Verts : v \in Live \/ v = Fresh
  BY VertFacts DEF Live

LEMMA PotentialElim ==
  ASSUME NEW p \in Potentials
  PROVE  /\ DOMAIN p \in SUBSET Live /\ DOMAIN p \in SUBSET Verts /\ p \in [DOMAIN p -> Int] /\ 0 \in DOMAIN p
         /\ p[0] \in Int /\ \A v \in DOMAIN p : p[v] \in Int
<1>1. p \in Partial(Live, Int) /\ 0 \in DOMAIN p
  BY DEF Potentials
<1>2. DOMAIN p \in SUBSET Live /\ p \in [DOMAIN p -> Int]
  BY <1>1, PartialElim
<1> QED
  BY <1>1, <1>2, LiveFacts

LEMMA PotentialIntro ==
  ASSUME NEW D \in SUBSET Live, NEW p \in [D -> Int], 0 \in D
  PROVE  p \in Potentials
<1>1. p \in Partial(Live, Int)
  BY PartialIntro
<1> QED
  BY <1>1 DEF Potentials

LEMMA ModelFacts ==
  ASSUME NEW p \in Potentials
  PROVE  /\ Model(p) \in Valuations
         /\ \A v \in DOMAIN p : Model(p)[v] = p[v] - p[0]
         /\ \A v \in Verts \ DOMAIN p : Model(p)[v] = - p[0]
         /\ \A v \in Verts : Model(p)[v] \in Int
<1>1. DOMAIN p \in SUBSET Verts /\ 0 \in DOMAIN p /\ p[0] \in Int /\ \A v \in DOMAIN p : p[v] \in Int
  BY PotentialElim
<1>2. \A v \in DOMAIN p : Model(p)[v] = p[v] - p[0]
  BY <1>1 DEF Model
<1>3. \A v \in Verts \ DOMAIN p : Model(p)[v] = - p[0]
  BY <1>1 DEF Model
<1>4. Model(p) \in [Verts -> Int]
  BY <1>1 DEF Model
<1>5. Model(p)[0] = 0
  BY <1>1, <1>2
<1> QED
  BY <1>2, <1>3, <1>4, <1>5 DEF Valuations

LEMMA WithFacts ==
  ASSUME NEW Q \in SUBSET Valuations, NEW p \in Potentials
  PROVE  With(Q, p) \in SUBSET Valuations /\ Q \subseteq With(Q, p) /\ Model(p) \in With(Q, p)
  BY ModelFacts DEF With

LEMMA ZoneElim ==
  ASSUME NEW Q \in SUBSET Valuations, NEW z \in Zone(Q)
  PROVE  /\ z.p \in Potentials /\ DOMAIN z.p \in SUBSET Verts /\ z.p \in [DOMAIN z.p -> Int]
         /\ DOMAIN z.p \in SUBSET Live
         /\ 0 \in DOMAIN z.p /\ \A v \in DOMAIN z.p : z.p[v] \in Int
         /\ z.ok \in BOOLEAN /\ (Q # {} => z.ok)
         /\ z.g \in Gr(DOMAIN z.p, With(Q, z.p)) /\ z.g \in Gr(DOMAIN z.p, Q)
         /\ z = [ok |-> z.ok, g |-> z.g, p |-> z.p]
         /\ With(Q, z.p) \in SUBSET Valuations
<1>1. /\ z.p \in Potentials /\ z.ok \in BOOLEAN /\ (Q # {} => z.ok)
      /\ z.g \in Gr(DOMAIN z.p, With(Q, z.p))
      /\ z = [ok |-> z.ok, g |-> z.g, p |-> z.p]
  BY DEF Zone
<1>2. With(Q, z.p) \in SUBSET Valuations /\ Q \subseteq With(Q, z.p)
  BY <1>1, WithFacts
<1>3. z.g \in Gr(DOMAIN z.p, Q)
  BY <1>1, <1>2, GrMono
<1> QED
  BY <1>1, <1>2, <1>3, PotentialElim

LEMMA ZoneIntro ==
  ASSUME NEW Q \in SUBSET Valuations, NEW ok \in BOOLEAN, Q # {} => ok,
         NEW p \in Potentials, NEW g \in Gr(DOMAIN p, With(Q, p))
  PROVE  [ok |-> ok, g |-> g, p |-> p] \in Zone(Q)
<1>1. g \in GraphsOn(Verts)
  <2>1. DOMAIN p \subseteq Verts
    BY PotentialElim
  <2>2. g \in Gr(Verts, With(Q, p))
    BY <2>1, GrMono
  <2> QED
    BY <2>2 DEF Gr
<1> DEFINE z == [ok |-> ok, g |-> g, p |-> p]
<1>2. z \in [ok : BOOLEAN, g : GraphsOn(Verts), p : Potentials] /\ z.p = p /\ z.g = g /\ z.ok = ok
  BY <1>1
<1> HIDE DEF z
<1>3. z \in Zone(Q)
  BY <1>2 DEF Zone
<1> QED
  BY <1>3 DEF z

LEMMA EmptyZones ==
  /\ BottomZone \in Zone({}) /\ BottomZone.ok = FALSE
  /\ \A Q \in SUBSET Valuations : TopZone \in Zone(Q)
<1> DEFINE p == [v \in {0} |-> 0]
<1>1. p \in Potentials
  <2>1. p \in [{0} -> Int] /\ {0} \in SUBSET Live
    BY LiveFacts
  <2> HIDE DEF p
  <2> QED
    BY <2>1, PotentialIntro
<1>2. \A Q : <<>> \in Gr(DOMAIN p, With(Q, p))
  BY EmptyGr
<1>3. {} \in SUBSET Valuations
  OBVIOUS
<1>4. BottomZone = [ok |-> FALSE, g |-> <<>>, p |-> p] /\ TopZone = [ok |-> TRUE, g |-> <<>>, p |-> p]
  BY DEF BottomZone, TopZone
<1> HIDE DEF p
<1>5. BottomZone \in Zone({})
  BY <1>1, <1>2, <1>3, <1>4, ZoneIntro
<1>6. \A Q \in SUBSET Valuations : TopZone \in Zone(Q)
  BY <1>1, <1>2, <1>4, ZoneIntro
<1> QED
  BY <1>4, <1>5, <1>6

(* Valuations that agree on the vertices satisfy the same graphs. *)
LEMMA GrAgree ==
  ASSUME NEW V, NEW Q, NEW R, NEW g \in Gr(V, Q), \A r \in R : \E q \in Q : \A u \in V : r[u] = q[u]
  PROVE  g \in Gr(V, R)
<1>1. /\ DOMAIN g \in SUBSET (V \X V) /\ g \in [DOMAIN g -> Int]
      /\ \A e \in DOMAIN g : e[1] \in V /\ e[2] \in V
      /\ \A e \in DOMAIN g : \A q \in Q : q[e[2]] - q[e[1]] <= g[e]
  BY GrElim
<1>2. \A e \in DOMAIN g : \A r \in R : r[e[2]] - r[e[1]] <= g[e]
  BY <1>1
<1> QED
  BY <1>1, <1>2, GrIntro

LEMMA GetVertSound ==
  ASSUME NEW Q \in SUBSET Valuations, NEW z \in Zone(Q), NEW v \in Live
  PROVE  /\ get_vert(z, v) \in Zone(Q)
         /\ DOMAIN get_vert(z, v).p = DOMAIN z.p \cup {v}
         /\ get_vert(z, v).g = z.g /\ get_vert(z, v).ok = z.ok
         /\ Model(get_vert(z, v).p) = Model(z.p)
         /\ get_vert(z, v).p[0] = z.p[0]
<1>0. /\ z.p \in Potentials /\ DOMAIN z.p \in SUBSET Live /\ z.p \in [DOMAIN z.p -> Int]
      /\ 0 \in DOMAIN z.p
      /\ z.ok \in BOOLEAN /\ (Q # {} => z.ok) /\ z.g \in Gr(DOMAIN z.p, With(Q, z.p))
      /\ z = [ok |-> z.ok, g |-> z.g, p |-> z.p]
  BY ZoneElim
<1>1. CASE v \in DOMAIN z.p
  BY <1>1 DEF get_vert
<1>2. CASE v \notin DOMAIN z.p
  <2> DEFINE D == DOMAIN z.p \cup {v}
             p == [u \in {v} |-> 0] ++ z.p
  <2>1. get_vert(z, v) = [ok |-> z.ok, g |-> z.g, p |-> p]
    BY <1>0, <1>2 DEF get_vert
  <2>2. p \in [D -> Int] /\ DOMAIN p = D /\ p[v] = 0 /\ \A u \in DOMAIN z.p : p[u] = z.p[u]
    BY <1>0, <1>2 DEF ++
  <2>3. D \in SUBSET Live /\ 0 \in D
    BY <1>0
  <2> HIDE DEF p, D
  <2>4. p \in Potentials
    BY <2>2, <2>3, PotentialIntro
  <2>5. Model(p) = Model(z.p)
    BY <1>0, <1>2, <2>2 DEF Model, D
  <2>6. With(Q, p) = With(Q, z.p)
    BY <2>5 DEF With
  <2>7. z.g \in Gr(DOMAIN p, With(Q, p))
    <3>1. DOMAIN z.p \subseteq DOMAIN p
      BY <2>2 DEF D
    <3> QED
      BY <1>0, <2>6, <3>1, GrMono
  <2>8. get_vert(z, v) \in Zone(Q)
    BY <1>0, <2>1, <2>4, <2>7, ZoneIntro
  <2> QED
    BY <1>0, <2>1, <2>2, <2>5, <2>8 DEF D
<1> QED
  BY <1>1, <1>2

(* A new edge that every valuation satisfies. *)
LEMMA WithEdgeSound ==
  ASSUME NEW Q \in SUBSET Valuations, NEW z \in Zone(Q), NEW g \in Gr(DOMAIN z.p, Q),
         NEW s, NEW d, elem(g, s, d),
         \A e \in DOMAIN g : e # <<s, d>> => e \in DOMAIN z.g /\ g[e] = z.g[e]
  PROVE  /\ WithEdge(z, g, s, d) \in Zone(Q)
         /\ WithEdge(z, g, s, d).ok => WithEdge(z, g, s, d).g = g /\ DOMAIN WithEdge(z, g, s, d).p = DOMAIN z.p
<1> DEFINE r == repair_potential(g, z.p, s, d)
           V == DOMAIN z.p
<1>1. WithEdge(z, g, s, d) = IF r.ok THEN [ok |-> TRUE, g |-> g, p |-> r.p] ELSE BottomZone
  <2> HIDE DEF r
  <2>1. WithEdge(z, g, s, d) = Let(r, LAMBDA y : IF y.ok THEN [ok |-> TRUE, g |-> g, p |-> y.p] ELSE BottomZone)
    BY DEF WithEdge, r
  <2> QED
    BY <2>1 DEF Let
<1>2. /\ z.p \in Potentials /\ DOMAIN z.p \in SUBSET Verts /\ z.p \in [DOMAIN z.p -> Int]
      /\ 0 \in DOMAIN z.p /\ \A v \in DOMAIN z.p : z.p[v] \in Int
      /\ z.g \in Gr(DOMAIN z.p, With(Q, z.p)) /\ DOMAIN z.p \in SUBSET Live
  BY ZoneElim
<1>3. ModelBut(g, z.p, s, d)
  <2> SUFFICES ASSUME NEW e \in DOMAIN g, e # <<s, d>>
               PROVE  z.p[e[2]] - z.p[e[1]] <= g[e]
    BY DEF ModelBut
  <2>1. e \in DOMAIN z.g /\ g[e] = z.g[e]
    OBVIOUS
  <2>2. /\ Model(z.p)[e[2]] - Model(z.p)[e[1]] <= z.g[e]
        /\ e[1] \in V /\ e[2] \in V /\ z.g[e] \in Int
    BY <1>2, <2>1, GrElim DEF With
  <2>3. Model(z.p)[e[2]] = z.p[e[2]] - z.p[0] /\ Model(z.p)[e[1]] = z.p[e[1]] - z.p[0]
    BY <1>2, <2>2, ModelFacts
  <2> QED
    BY <1>2, <2>1, <2>2, <2>3
<1>4. /\ r.ok \in BOOLEAN
      /\ Q # {} => r.ok
      /\ r.p \in [V -> Int]
      /\ r.ok => \A e \in DOMAIN g : r.p[e[2]] - r.p[e[1]] <= g[e]
  BY <1>2, <1>3, RepairSound
<1> HIDE DEF r
<1>5. CASE ~ r.ok
  <2>1. Q = {} /\ WithEdge(z, g, s, d) = BottomZone
    BY <1>1, <1>4, <1>5
  <2> QED
    BY <2>1, EmptyZones
<1>6. CASE r.ok
  <2>1. WithEdge(z, g, s, d) = [ok |-> TRUE, g |-> g, p |-> r.p]
    BY <1>1, <1>6
  <2>2. r.p \in Potentials /\ DOMAIN r.p = V
    BY <1>2, <1>4, PotentialIntro
  <2>3. g \in Gr(V, With(Q, r.p))
    <3>1. /\ DOMAIN g \in SUBSET (V \X V) /\ g \in [DOMAIN g -> Int]
          /\ \A e \in DOMAIN g : e[1] \in V /\ e[2] \in V /\ g[e] \in Int
          /\ \A e \in DOMAIN g : \A q \in Q : q[e[2]] - q[e[1]] <= g[e]
      BY GrElim
    <3>2. ASSUME NEW e \in DOMAIN g
          PROVE  Model(r.p)[e[2]] - Model(r.p)[e[1]] <= g[e]
      <4>1. r.p[e[2]] - r.p[e[1]] <= g[e]
        BY <1>4, <1>6
      <4>2. Model(r.p)[e[2]] = r.p[e[2]] - r.p[0] /\ Model(r.p)[e[1]] = r.p[e[1]] - r.p[0]
        BY <2>2, <3>1, ModelFacts
      <4>3. r.p[e[2]] \in Int /\ r.p[e[1]] \in Int /\ r.p[0] \in Int
        BY <1>2, <1>4, <3>1
      <4> QED
        BY <3>1, <4>1, <4>2, <4>3
    <3>3. \A e \in DOMAIN g : \A q \in With(Q, r.p) : q[e[2]] - q[e[1]] <= g[e]
      BY <3>1, <3>2 DEF With
    <3> QED
      BY <3>1, <3>3, GrIntro
  <2>4. WithEdge(z, g, s, d) \in Zone(Q)
    <3>1. TRUE \in BOOLEAN
      OBVIOUS
    <3> QED
      BY <2>1, <2>2, <2>3, <3>1, ZoneIntro
  <2> QED
    BY <2>1, <2>2, <2>4
<1> QED
  BY <1>4, <1>5, <1>6

LEMMA AddEdgeSound ==
  ASSUME NEW Q \in SUBSET Valuations, NEW z \in Zone(Q), NEW s \in DOMAIN z.p, NEW d \in DOMAIN z.p,
         NEW w \in Int, \A q \in Q : q[d] - q[s] <= w,
         NEW g, g = set_edge(z.g, s, w, d) \/ g = update_edge(z.g, s, w, d)
  PROVE  /\ WithEdge(z, g, s, d) \in Zone(Q)
         /\ WithEdge(z, g, s, d).ok =>
              /\ WithEdge(z, g, s, d).g = g /\ DOMAIN WithEdge(z, g, s, d).p = DOMAIN z.p
              /\ elem(g, s, d) /\ DOMAIN z.g \subseteq DOMAIN g
<1>1. z.g \in Gr(DOMAIN z.p, Q)
  BY ZoneElim
<1>2. g \in Gr(DOMAIN z.p, Q)
  BY <1>1, SetEdgeGr
<1>3. /\ elem(g, s, d) /\ DOMAIN z.g \subseteq DOMAIN g
      /\ \A e \in DOMAIN g : e # <<s, d>> => e \in DOMAIN z.g /\ g[e] = z.g[e]
  <2>1. CASE g = set_edge(z.g, s, w, d)
    <3> DEFINE h == z.g
    <3>1. g = set_edge(h, s, w, d)
      BY <2>1
    <3> HIDE DEF h
    <3>2. DOMAIN g = DOMAIN h \cup {<<s, d>>} /\ \A e \in DOMAIN h : e # <<s, d>> => g[e] = h[e]
      <4>1. /\ DOMAIN set_edge(h, s, w, d) = DOMAIN h \cup {<<s, d>>}
            /\ \A e \in DOMAIN h : e # <<s, d>> => set_edge(h, s, w, d)[e] = h[e]
        BY DEF set_edge, ++
      <4> QED
        BY <3>1, <4>1
    <3>3. elem(g, s, d) /\ DOMAIN h \subseteq DOMAIN g /\ \A e \in DOMAIN g : e # <<s, d>> => e \in DOMAIN h /\ g[e] = h[e]
      BY <3>2 DEF elem
    <3> QED
      BY <3>3 DEF h
  <2>2. CASE g # set_edge(z.g, s, w, d)
    <3>1. g = z.g /\ elem(z.g, s, d)
      BY <2>2 DEF update_edge
    <3> QED
      BY <3>1
  <2> QED
    BY <2>1, <2>2
<1> QED
  BY <1>2, <1>3, WithEdgeSound

LEMMA AddBoundSound ==
  ASSUME NEW Q \in SUBSET Valuations, NEW z \in Zone(Q), NEW s \in DOMAIN z.p, NEW d \in DOMAIN z.p,
         NEW w \in Int, \A q \in Q : q[d] - q[s] <= w
  PROVE  AddBound(z, s, w, d) \in Zone(Q)
  BY AddEdgeSound DEF AddBound

LEMMA StrengthenSound ==
  ASSUME NEW Q \in SUBSET Valuations, NEW z \in Zone(Q), NEW s, NEW d, NEW w, z.ok =>
           s \in DOMAIN z.p /\ d \in DOMAIN z.p /\ w \in Int /\ \A q \in Q : q[d] - q[s] <= w
  PROVE  /\ Strengthen(z, s, w, d) \in Zone(Q)
         /\ Strengthen(z, s, w, d).ok => DOMAIN z.g \subseteq DOMAIN Strengthen(z, s, w, d).g
  BY AddEdgeSound DEF Strengthen

(* The same zone for fewer valuations. *)
LEMMA ZoneMono ==
  ASSUME NEW Q \in SUBSET Valuations, NEW R, R \subseteq Q, NEW z \in Zone(Q)
  PROVE  z \in Zone(R)
<1>1. /\ z.p \in Potentials /\ z.ok \in BOOLEAN /\ (Q # {} => z.ok)
      /\ z.g \in Gr(DOMAIN z.p, With(Q, z.p))
      /\ z = [ok |-> z.ok, g |-> z.g, p |-> z.p]
  BY ZoneElim
<1>2. With(R, z.p) \subseteq With(Q, z.p)
  BY DEF With
<1>3. z.g \in Gr(DOMAIN z.p, With(R, z.p))
  BY <1>1, <1>2, GrMono
<1>4. R \in SUBSET Valuations /\ (R # {} => z.ok)
  BY <1>1
<1> QED
  BY <1>1, <1>3, <1>4, ZoneIntro

(* Another graph for the same potential. *)
LEMMA NewGraph ==
  ASSUME NEW Q \in SUBSET Valuations, NEW z \in Zone(Q), NEW g \in Gr(DOMAIN z.p, With(Q, z.p))
  PROVE  [z EXCEPT !.g = g] \in Zone(Q)
<1>1. /\ z.p \in Potentials /\ z.ok \in BOOLEAN /\ (Q # {} => z.ok)
      /\ z = [ok |-> z.ok, g |-> z.g, p |-> z.p]
  BY ZoneElim
<1>2. [z EXCEPT !.g = g] = [ok |-> z.ok, g |-> g, p |-> z.p]
  BY <1>1
<1> QED
  BY <1>1, <1>2, ZoneIntro

(* Valuations that satisfy a bound or a difference. *)
LowerHolds(Q, b) == b.v \in Vars /\ b.n \in Int /\ \A q \in Q : b.n <= q[b.v]
UpperHolds(Q, b) == b.v \in Vars /\ b.n \in Int /\ \A q \in Q : q[b.v] <= b.n
DifferenceHolds(Q, c) ==
  c.x \in Vars /\ c.y \in Vars /\ c.n \in Int /\ \A q \in Q : q[c.x] - q[c.y] <= c.n

LEMMA AddLowerSound ==
  ASSUME NEW Q \in SUBSET Valuations, NEW z \in Zone(Q), NEW b, LowerHolds(Q, b)
  PROVE  AddLower(z, b) \in Zone(Q)
<1> DEFINE zz == get_vert(z, b.v)
           x == b.v
           w == - b.n
<1>1. x \in Vars /\ w \in Int /\ x \in Live
  BY LiveFacts DEF LowerHolds
<1>2. \A q \in Q : q[0] - q[x] <= w
  <2> SUFFICES ASSUME NEW q \in Q PROVE q[0] - q[x] <= w
    OBVIOUS
  <2>1. q[0] = 0 /\ q[x] \in Int
    BY <1>1, LiveFacts, ValuationFacts
  <2>2. b.n <= q[x] /\ b.n \in Int
    BY DEF LowerHolds
  <2> QED
    BY <2>1, <2>2
<1>3. zz \in Zone(Q) /\ x \in DOMAIN zz.p
  BY <1>1, GetVertSound
<1>4. 0 \in DOMAIN zz.p
  BY <1>3, ZoneElim
<1>5. AddLower(z, b) = AddBound(zz, x, w, 0)
  BY DEF AddLower
<1> HIDE DEF zz, x, w
<1> QED
  BY <1>1, <1>2, <1>3, <1>4, <1>5, AddBoundSound

LEMMA AddUpperSound ==
  ASSUME NEW Q \in SUBSET Valuations, NEW z \in Zone(Q), NEW b, UpperHolds(Q, b)
  PROVE  AddUpper(z, b) \in Zone(Q)
<1> DEFINE zz == get_vert(z, b.v)
           x == b.v
           w == b.n
<1>1. x \in Vars /\ w \in Int /\ x \in Live
  BY LiveFacts DEF UpperHolds
<1>2. \A q \in Q : q[x] - q[0] <= w
  <2> SUFFICES ASSUME NEW q \in Q PROVE q[x] - q[0] <= w
    OBVIOUS
  <2>1. q[0] = 0 /\ q[x] \in Int
    BY <1>1, LiveFacts, ValuationFacts
  <2>2. q[x] <= w
    BY DEF UpperHolds
  <2> QED
    BY <1>1, <2>1, <2>2
<1>3. zz \in Zone(Q) /\ x \in DOMAIN zz.p
  BY <1>1, GetVertSound
<1>4. 0 \in DOMAIN zz.p
  BY <1>3, ZoneElim
<1>5. AddUpper(z, b) = AddBound(zz, 0, w, x)
  BY DEF AddUpper
<1> HIDE DEF zz, x, w
<1> QED
  BY <1>1, <1>2, <1>3, <1>4, <1>5, AddBoundSound

LEMMA AddDifferenceSound ==
  ASSUME NEW Q \in SUBSET Valuations, NEW z \in Zone(Q), NEW c, DifferenceHolds(Q, c)
  PROVE  AddDifference(z, c) \in Zone(Q)
<1> DEFINE x == c.x
           y == c.y
           k == c.n
           z1 == get_vert(get_vert(z, y), x)
           h == update_edge(z1.g, y, k, x)
           z2 == WithEdge(z1, h, y, x)
           z3 == IF z2.ok THEN [z2 EXCEPT !.g = close_over_edge(z2.g, y, x)] ELSE z2
<1>1. x \in Live /\ y \in Live /\ k \in Int /\ \A q \in Q : q[x] - q[y] <= k
  BY LiveFacts DEF DifferenceHolds
<1>2. AddDifference(z, c) = IF z.ok THEN z3 ELSE z
  <2>1. Let(z1, LAMBDA zz : WithEdge(zz, update_edge(zz.g, c.y, c.n, c.x), c.y, c.x)) = z2
    <3> HIDE DEF z1
    <3> QED
      BY DEF Let
  <2>2. Let(z2, LAMBDA zz : IF zz.ok THEN [zz EXCEPT !.g = close_over_edge(@, c.y, c.x)] ELSE zz) = z3
    <3> HIDE DEF z2
    <3> QED
      BY DEF Let
  <2> HIDE DEF z3
  <2> QED
    BY <2>1, <2>2 DEF AddDifference
<1>3. z1 \in Zone(Q) /\ x \in DOMAIN z1.p /\ y \in DOMAIN z1.p
  <2>1. get_vert(z, y) \in Zone(Q) /\ y \in DOMAIN get_vert(z, y).p
    BY <1>1, GetVertSound
  <2> QED
    BY <1>1, <2>1, GetVertSound
<1> HIDE DEF z1, x, y, k
<1>4. z2 \in Zone(Q) /\ (z2.ok => z2.g = h /\ elem(h, y, x))
  BY <1>1, <1>3, AddEdgeSound
<1> HIDE DEF h, z2
<1>5. ASSUME z2.ok PROVE z3 \in Zone(Q)
  <2>1. /\ DOMAIN z2.p \in SUBSET Verts /\ With(Q, z2.p) \in SUBSET Valuations
        /\ z2.g \in Gr(DOMAIN z2.p, With(Q, z2.p))
    BY <1>4, ZoneElim
  <2>2. elem(z2.g, y, x)
    BY <1>4, <1>5
  <2>3. close_over_edge(z2.g, y, x) \in Gr(DOMAIN z2.p, With(Q, z2.p))
    BY <2>1, <2>2, CloseOverEdgeSound
  <2> QED
    BY <1>4, <1>5, <2>3, NewGraph
<1> QED
  BY <1>2, <1>4, <1>5

LEMMA CloseBoundsSound ==
  ASSUME NEW Q \in SUBSET Valuations, NEW z \in Zone(Q)
  PROVE  CloseBounds(z) \in Zone(Q)
<1>1. /\ DOMAIN z.p \in SUBSET Verts /\ With(Q, z.p) \in SUBSET Valuations
      /\ z.g \in Gr(DOMAIN z.p, With(Q, z.p)) /\ 0 \in DOMAIN z.p /\ \A v \in DOMAIN z.p : z.p[v] \in Int
  BY ZoneElim
<1>2. close_after_assign(z.g, z.p, 0) \in Gr(DOMAIN z.p, With(Q, z.p))
  BY <1>1, CloseAssignSound
<1>3. apply_delta(z.g, close_after_assign(z.g, z.p, 0)) \in Gr(DOMAIN z.p, With(Q, z.p))
  BY <1>1, <1>2, MergeGr DEF apply_delta
<1>4. [z EXCEPT !.g = apply_delta(z.g, close_after_assign(z.g, z.p, 0))] \in Zone(Q)
  BY <1>3, NewGraph
<1> QED
  BY <1>4 DEF CloseBounds

-----------------------------------------------------------------------------
(* Forgetting and setting a variable. *)

(* Every valuation of R is one of Q but for v. *)
AgreesOff(R, Q, v) == \A r \in R : \E q \in Q : \A u \in Verts \ {v} : r[u] = q[u]

LEMMA HavocSound ==
  ASSUME NEW Q \in SUBSET Valuations, NEW R \in SUBSET Valuations, NEW z \in Zone(Q), NEW v \in Vars,
         AgreesOff(R, Q, v)
  PROVE  /\ havoc(z, v) \in Zone(R)
         /\ DOMAIN havoc(z, v).p = DOMAIN z.p \ {v}
         /\ havoc(z, v).p[0] = z.p[0] /\ havoc(z, v).ok = z.ok
<1>1. /\ z.p \in Potentials /\ z.ok \in BOOLEAN /\ (Q # {} => z.ok) /\ z.p \in [DOMAIN z.p -> Int]
      /\ DOMAIN z.p \in SUBSET Live /\ 0 \in DOMAIN z.p /\ DOMAIN z.p \in SUBSET Verts
      /\ z.g \in Gr(DOMAIN z.p, With(Q, z.p))
      /\ z = [ok |-> z.ok, g |-> z.g, p |-> z.p]
  BY ZoneElim
<1>2. R # {} => z.ok
  BY <1>1 DEF AgreesOff
<1>3. v # 0
  BY VertFacts
<1>4. CASE v \notin DOMAIN z.p
  <2>1. \A r \in With(R, z.p) : \E q \in With(Q, z.p) : \A u \in DOMAIN z.p : r[u] = q[u]
    BY <1>1, <1>4 DEF With, AgreesOff
  <2>2. z.g \in Gr(DOMAIN z.p, With(R, z.p))
    BY <1>1, <2>1, GrAgree
  <2>3. z \in Zone(R)
    BY <1>1, <1>2, <2>2, ZoneIntro
  <2> QED
    BY <1>4, <2>3 DEF havoc
<1>5. CASE v \in DOMAIN z.p
  <2> DEFINE D == DOMAIN z.p \ {v}
             p == [u \in D |-> z.p[u]]
             g == SubGraph(z.g, v)
  <2>1. havoc(z, v) = [ok |-> z.ok, g |-> g, p |-> p]
    BY <1>1, <1>5 DEF havoc
  <2>2. p \in [D -> Int] /\ DOMAIN p = D /\ 0 \in D /\ D \in SUBSET Live /\ p[0] = z.p[0]
        /\ \A u \in D : p[u] = z.p[u]
    BY <1>1, <1>3
  <2>3. g \in Gr(D, With(Q, z.p))
    BY <1>1, SubGraphGr
  <2>31. D \subseteq Verts \ {v} /\ D \subseteq DOMAIN z.p
    BY <1>1
  <2> HIDE DEF p, g, D
  <2>4. p \in Potentials
    BY <2>2, PotentialIntro
  <2>5. \A u \in D : Model(p)[u] = Model(z.p)[u]
    BY <1>1, <2>2, <2>31, <2>4, ModelFacts
  <2>6. \A r \in With(R, p) : \E q \in With(Q, z.p) : \A u \in D : r[u] = q[u]
    <3>1. \A r \in R : \E q \in With(Q, z.p) : \A u \in D : r[u] = q[u]
      BY <2>31 DEF With, AgreesOff
    <3>2. Model(z.p) \in With(Q, z.p)
      BY DEF With
    <3> QED
      BY <2>5, <3>1, <3>2 DEF With
  <2>7. g \in Gr(D, With(R, p))
    BY <2>3, <2>6, GrAgree
  <2>8. [ok |-> z.ok, g |-> g, p |-> p] \in Zone(R)
    BY <1>1, <1>2, <2>2, <2>4, <2>7, ZoneIntro
  <2> QED
    BY <2>1, <2>2, <2>8 DEF D
<1> QED
  BY <1>4, <1>5

LEMMA SetSound ==
  ASSUME NEW Q \in SUBSET Valuations, NEW R \in SUBSET Valuations, NEW z \in Zone(Q), NEW x \in Vars,
         AgreesOff(R, Q, x),
         NEW i, Proper(i), NEW n \in Int, Holds(i, n), \A r \in R : Holds(i, r[x])
  PROVE  set(z, x, i) \in Zone(R)
<1> DEFINE h == havoc(z, x)
           zz == get_vert(h, x)
           g0 == zz.g
           g1 == IF i.ub.inf THEN g0 ELSE set_edge(g0, 0, i.ub.n, x)
           g2 == IF i.lb.inf THEN g1 ELSE set_edge(g1, x, - i.lb.n, 0)
           k == IF i.lb.inf THEN i.ub.n ELSE i.lb.n
           p == [zz.p EXCEPT ![x] = zz.p[0] + k]
<1>1. /\ h \in Zone(R) /\ DOMAIN h.p = DOMAIN z.p \ {x}
  BY HavocSound
<1>2. CASE is_top(i)
  BY <1>1, <1>2 DEF set
<1>3. CASE ~ is_top(i)
  <2>0. x \in Live /\ x # 0
    BY LiveFacts, VertFacts
  <2> HIDE DEF h
  <2>1. /\ zz \in Zone(R) /\ DOMAIN zz.p = DOMAIN h.p \cup {x} /\ zz.g = h.g
        /\ Model(zz.p) = Model(h.p)
    BY <1>1, <2>0, GetVertSound
  <2>2. /\ zz.p \in Potentials /\ zz.ok \in BOOLEAN /\ (R # {} => zz.ok) /\ zz.p \in [DOMAIN zz.p -> Int]
        /\ DOMAIN zz.p \in SUBSET Live /\ 0 \in DOMAIN zz.p
        /\ zz = [ok |-> zz.ok, g |-> zz.g, p |-> zz.p]
    BY <2>1, ZoneElim
  <2>3. /\ h.g \in Gr(DOMAIN h.p, With(R, h.p)) /\ DOMAIN h.p \in SUBSET Live
        /\ h.p \in Potentials
    BY <1>1, ZoneElim
  <2>4. /\ i.ub \in Bounds /\ i.lb \in Bounds /\ ~ (i.lb.inf /\ i.ub.inf) /\ i.lb.n \in Int /\ i.ub.n \in Int
        /\ i.lb.inf \in BOOLEAN /\ i.ub.inf \in BOOLEAN
    BY <1>3 DEF Proper, is_top, Bounds
  <2>5. k \in Int /\ Holds(i, k)
    BY <2>4 DEF Holds
  <2>6. set(z, x, i) = [ok |-> zz.ok, g |-> g2, p |-> p]
    <3> DEFINE up == IF i.ub.inf THEN zz
                     ELSE [zz EXCEPT !.p[x] = zz.p[0] + i.ub.n, !.g = set_edge(@, 0, i.ub.n, x)]
               lo == IF i.lb.inf THEN up
                     ELSE [up EXCEPT !.p[x] = up.p[0] + i.lb.n, !.g = set_edge(@, x, - i.lb.n, 0)]
    <3>1. Let(zz, LAMBDA y : IF i.ub.inf THEN y
                     ELSE [y EXCEPT !.p[x] = y.p[0] + i.ub.n, !.g = set_edge(@, 0, i.ub.n, x)]) = up
      <4> HIDE DEF zz
      <4> QED
        BY DEF Let
    <3>2. Let(up, LAMBDA y : IF i.lb.inf THEN y
                     ELSE [y EXCEPT !.p[x] = y.p[0] + i.lb.n, !.g = set_edge(@, x, - i.lb.n, 0)]) = lo
      <4> HIDE DEF up
      <4> QED
        BY DEF Let
    <3>3. set(z, x, i) = lo
      <4> HIDE DEF lo
      <4> QED
        BY <1>3, <3>1, <3>2 DEF set, h
    <3>4. lo = [ok |-> zz.ok, g |-> g2, p |-> p]
      <4> HIDE DEF zz
      <4>1. x \in DOMAIN zz.p
        BY <2>1
      <4>2. CASE i.ub.inf
        BY <2>0, <2>2, <2>4, <4>1, <4>2
      <4>3. CASE ~ i.ub.inf /\ i.lb.inf
        BY <2>0, <2>2, <2>4, <4>1, <4>3
      <4>4. CASE ~ i.ub.inf /\ ~ i.lb.inf
        <5> DEFINE p1 == [zz.p EXCEPT ![x] = zz.p[0] + i.ub.n]
                   h1 == set_edge(zz.g, 0, i.ub.n, x)
        <5>1. up = [ok |-> zz.ok, g |-> h1, p |-> p1]
          BY <2>2, <4>1, <4>4
        <5>2. up.p = p1 /\ up.g = h1 /\ up.ok = zz.ok
          BY <5>1
        <5>3. p1[0] = zz.p[0] /\ [p1 EXCEPT ![x] = zz.p[0] + i.lb.n] = [zz.p EXCEPT ![x] = zz.p[0] + i.lb.n]
          BY <2>0, <2>2, <4>1
        <5> HIDE DEF up, p1, h1
        <5>4. lo = [ok |-> zz.ok, g |-> set_edge(h1, x, - i.lb.n, 0), p |-> [p1 EXCEPT ![x] = p1[0] + i.lb.n]]
          BY <4>4, <5>1, <5>2
        <5> QED
          BY <4>4, <5>3, <5>4 DEF h1
      <4> QED
        BY <4>2, <4>3, <4>4
    <3> QED
      BY <3>3, <3>4
  <2>7. p \in [DOMAIN zz.p -> Int] /\ DOMAIN p = DOMAIN zz.p /\ p[x] = zz.p[0] + k /\ p[0] = zz.p[0]
        /\ \A u \in DOMAIN zz.p \ {x} : p[u] = zz.p[u]
    BY <2>0, <2>1, <2>2, <2>5
  <2>8. p \in Potentials
    BY <2>2, <2>7, PotentialIntro
  <2> HIDE DEF k, zz, p
  <2>9. Model(p)[x] = k /\ \A u \in DOMAIN h.p : Model(p)[u] = Model(h.p)[u]
    <3>1. x \in DOMAIN p /\ zz.p[0] \in Int
      BY <2>1, <2>2, <2>7
    <3>2. Model(p)[x] = k
      BY <2>5, <2>7, <2>8, <3>1, ModelFacts
    <3>3. ASSUME NEW u \in DOMAIN h.p PROVE Model(p)[u] = Model(h.p)[u]
      <4>1. u \in DOMAIN zz.p /\ u # x /\ u \in DOMAIN p
        BY <1>1, <2>1, <2>7
      <4>2. Model(p)[u] = p[u] - p[0] /\ Model(zz.p)[u] = zz.p[u] - zz.p[0]
        BY <2>2, <2>8, <4>1, ModelFacts
      <4> QED
        BY <2>1, <2>7, <4>1, <4>2
    <3> QED
      BY <3>2, <3>3
  <2>10. \A w \in With(R, p) : Holds(i, w[x])
    BY <2>5, <2>9 DEF With
  <2>11. With(R, p) \in SUBSET Valuations
    BY <2>8, WithFacts
  <2>12. g0 \in Gr(DOMAIN p, With(R, p))
    <3>1. \A r \in With(R, p) : \E q \in With(R, h.p) : \A u \in DOMAIN h.p : r[u] = q[u]
      BY <2>9 DEF With
    <3>2. h.g \in Gr(DOMAIN h.p, With(R, p))
      BY <2>3, <3>1, GrAgree
    <3>3. DOMAIN h.p \subseteq DOMAIN p
      BY <2>1, <2>7
    <3> QED
      BY <2>1, <3>2, <3>3, GrMono
  <2>13. 0 \in DOMAIN p /\ x \in DOMAIN p
    BY <2>1, <2>2, <2>7
  <2>14. \A w \in With(R, p) : w[0] = 0 /\ w[x] \in Int
    BY <2>0, <2>11, LiveFacts, ValuationFacts
  <2>15. g1 \in Gr(DOMAIN p, With(R, p))
    <3>1. CASE i.ub.inf
      BY <2>12, <3>1
    <3>2. CASE ~ i.ub.inf
      <4>1. \A w \in With(R, p) : w[x] - w[0] <= i.ub.n
        BY <2>4, <2>10, <2>14, <3>2 DEF Holds
      <4> HIDE DEF g0
      <4> QED
        BY <2>4, <2>12, <2>13, <3>2, <4>1, SetEdgeGr
    <3> QED
      BY <3>1, <3>2
  <2> HIDE DEF g1
  <2>16. g2 \in Gr(DOMAIN p, With(R, p))
    <3>1. CASE i.lb.inf
      BY <2>15, <3>1
    <3>2. CASE ~ i.lb.inf
      <4>1. \A w \in With(R, p) : w[0] - w[x] <= - i.lb.n
        BY <2>4, <2>10, <2>14, <3>2 DEF Holds
      <4>2. - i.lb.n \in Int
        BY <2>4
      <4> QED
        BY <2>13, <2>15, <3>2, <4>1, <4>2, SetEdgeGr
    <3> QED
      BY <3>1, <3>2
  <2> HIDE DEF g2
  <2> QED
    BY <2>2, <2>6, <2>8, <2>16, ZoneIntro
<1> QED
  BY <1>2, <1>3

-----------------------------------------------------------------------------
(* Intervals of variables and of linear expressions. *)

LEMMA BoundsOfZone ==
  ASSUME NEW Q \in SUBSET Valuations, NEW z \in Zone(Q), NEW v \in Vars
  PROVE  /\ get_lb(z, v) \in Bounds /\ get_ub(z, v) \in Bounds
         /\ get_lb(z, v).inf => get_lb(z, v).n = -1
         /\ get_ub(z, v).inf => get_ub(z, v).n = 1
         /\ ~ get_lb(z, v).inf => elem(z.g, v, 0) /\ \A w \in With(Q, z.p) : get_lb(z, v).n <= w[v]
         /\ ~ get_ub(z, v).inf => elem(z.g, 0, v) /\ \A w \in With(Q, z.p) : w[v] <= get_ub(z, v).n
<1>1. z.g \in Gr(DOMAIN z.p, With(Q, z.p)) /\ With(Q, z.p) \in SUBSET Valuations
  BY ZoneElim
<1>2. \A w \in With(Q, z.p) : w[0] = 0 /\ w[v] \in Int
  BY <1>1, VertFacts, ValuationFacts
<1> DEFINE lo == edge_val(z.g, v, 0)
           up == edge_val(z.g, 0, v)
<1>3. elem(z.g, v, 0) => lo \in Int /\ \A w \in With(Q, z.p) : w[0] - w[v] <= lo
  BY <1>1, ElemFacts
<1>4. elem(z.g, 0, v) => up \in Int /\ \A w \in With(Q, z.p) : w[v] - w[0] <= up
  BY <1>1, ElemFacts
<1>5. get_lb(z, v) = IF elem(z.g, v, 0) THEN Fin(- lo) ELSE MINUS_INFINITY
  BY DEF get_lb
<1>6. get_ub(z, v) = IF elem(z.g, 0, v) THEN Fin(up) ELSE PLUS_INFINITY
  BY DEF get_ub
<1> HIDE DEF lo, up
<1>7. elem(z.g, v, 0) => - lo \in Int /\ \A w \in With(Q, z.p) : - lo <= w[v]
  BY <1>2, <1>3
<1>8. elem(z.g, 0, v) => \A w \in With(Q, z.p) : w[v] <= up
  BY <1>2, <1>4
<1> QED
  BY <1>4, <1>5, <1>6, <1>7, <1>8, BoundFacts

LEMMA IntervalOfZone ==
  ASSUME NEW Q \in SUBSET Valuations, NEW z \in Zone(Q), NEW v \in Vars
  PROVE  /\ Proper(get_interval(z, v))
         /\ \A w \in With(Q, z.p) : Holds(get_interval(z, v), w[v])
  BY BoundsOfZone DEF get_interval, Proper, Holds

(* The intervals, as a set. *)
ProperIntervals == {i \in [lb : Bounds, ub : Bounds] : Proper(i)}

LEMMA AddTermProper ==
  ASSUME NEW i, Proper(i), NEW x, Proper(x)
  PROVE  IAdd(i, x) \in ProperIntervals
<1>1. Proper(IAdd(i, x))
  BY IAddSound
<1>2. IAdd(i, x) = [lb |-> IAdd(i, x).lb, ub |-> IAdd(i, x).ub]
  BY DEF IAdd, Between, Bottom
<1> HIDE DEF IAdd
<1> QED
  BY <1>1, <1>2 DEF ProperIntervals, Proper

(* A linear expression at a valuation. *)
Products(t, S, w) == [v \in S |-> t[v] * w[v]]

Val(e, w) == e.c + SumFunction(Products(e.t, DOMAIN e.t, w))

LEMMA ProductsInt ==
  ASSUME NEW t, NEW S \in SUBSET Vars, \A v \in S : t[v] \in Int, NEW w \in Valuations
  PROVE  /\ IsFiniteSet(S) /\ IntOn(Products(t, S, w), S)
         /\ \A v \in S : Products(t, S, w)[v] = t[v] * w[v] /\ w[v] \in Int
         /\ DOMAIN Products(t, S, w) = S
<1>1. IsFiniteSet(S)
  <2>1. S \in SUBSET Verts
    BY VertFacts
  <2> QED
    BY <2>1, VertFacts
<1>2. \A v \in S : w[v] \in Int
  BY VertFacts DEF Valuations
<1>3. \A v \in S : t[v] * w[v] \in Int
  BY <1>2
<1> QED
  BY <1>1, <1>2, <1>3 DEF Products, IntOn

LEMMA SumSplit ==
  ASSUME NEW S, IsFiniteSet(S), NEW f, IntOn(f, S), NEW B \in SUBSET S, NEW x \in B, NEW A, A = B \ {x}
  PROVE  SumFunctionOnSet(f, B) = f[x] + SumFunctionOnSet(f, A)
  BY SumStep

LEMMA EvalTermsSound ==
  ASSUME NEW Q \in SUBSET Valuations, NEW z \in Zone(Q), NEW S \in SUBSET Vars, NEW c \in Int,
         NEW t, \A v \in S : t[v] \in Int /\ t[v] # 0
  PROVE  /\ Proper(EvalTerms(z, c, t, S))
         /\ \A w \in With(Q, z.p) : Holds(EvalTerms(z, c, t, S), c + SumFunctionOnSet(Products(t, S, w), S))
<1> DEFINE n == Cardinality(S)
           s == InOrder(S)
           G == ProperIntervals
<1>1. IsFiniteSet(S) /\ S \subseteq Int
  <2>1. S \in SUBSET Verts
    BY VertFacts
  <2> QED
    BY <2>1, VertFacts
<1>2. n \in Nat /\ s \in [1..n -> S] /\ IsInjective(s) /\ \A x \in S : \E i \in 1..n : s[i] = x
  BY <1>1, InOrderFacts DEF Lists
<1>3. EvalTerms(z, c, t, S) = AddTerms(z, t, Just(c), s)
  BY DEF EvalTerms, AddTerms
<1>4. Just(c) \in G
  BY JustProper DEF ProperIntervals, Just, Proper
<1>5. \A v \in S : Proper(IMul(Just(t[v]), get_interval(z, v)))
  <2> TAKE v \in S
  <2>1. Proper(get_interval(z, v))
    BY IntervalOfZone
  <2> HIDE DEF G
  <2> QED
    BY <2>1, IMulSound
<1>6. \A a \in G : \A x \in S : IAdd(a, IMul(Just(t[x]), get_interval(z, x))) \in G
  <2> TAKE a \in G
  <2> TAKE x \in S
  <2>1. Proper(a)
    BY DEF ProperIntervals
  <2> QED
    BY <1>5, <2>1, AddTermProper
<1> HIDE DEF n, s, G
<1>7. AddTermsHistory(z, t, Just(c), s, n, G)
  <2>1. DOMAIN s = 1..n /\ \A i \in 1..n : s[i] \in S
    BY <1>2
  <2> QED
    BY <1>2, <1>4, <1>6, <2>1, AddTermsWithin
<1>8. PICK h \in [0..n -> G] :
        /\ h[0] = Just(c)
        /\ \A i \in 1..n : h[i] = IAdd(h[i - 1], IMul(Just(t[s[i]]), get_interval(z, s[i])))
        /\ AddTerms(z, t, Just(c), s) = h[n]
  BY <1>7 DEF AddTermsHistory
<1>9. Proper(EvalTerms(z, c, t, S))
  BY <1>2, <1>3, <1>8 DEF G, ProperIntervals
<1>10. ASSUME NEW w \in With(Q, z.p)
       PROVE  Holds(EvalTerms(z, c, t, S), c + SumFunctionOnSet(Products(t, S, w), S))
  <2> DEFINE f == Products(t, S, w)
             A(i) == {s[j] : j \in 1..i}
             T(i) == SumFunctionOnSet(f, A(i))
             id == [i \in 0..n |-> i]
             H == {i \in 0..n : Holds(h[i], c + T(i))}
  <2>1. w \in Valuations
    BY ZoneElim
  <2>2. IntOn(f, S) /\ \A v \in S : f[v] = t[v] * w[v] /\ w[v] \in Int
    BY <2>1, ProductsInt
  <2> HIDE DEF f
  <2>3. ASSUME NEW B \in SUBSET S
        PROVE  SumFunctionOnSet(f, B) \in Int
    BY <1>1, <2>2, SumStep
  <2>31. ASSUME NEW B \in SUBSET S, NEW x \in B, NEW C, C = B \ {x}
         PROVE  SumFunctionOnSet(f, B) = f[x] + SumFunctionOnSet(f, C)
    <3>1. IsFiniteSet(S) /\ IntOn(f, S) /\ C = B \ {x}
      BY <1>1, <2>2, <2>31
    <3> QED
      BY <3>1, SumSplit
  <2>4. T(0) = 0
    <3>1. A(0) = {}
      OBVIOUS
    <3>2. SumFunctionOnSet(f, {}) = 0
      BY <1>1, <2>2, SumStep
    <3> QED
      BY <3>1, <3>2
  <2>5. \A i \in 1..n : T(i - 1) \in Int /\ T(i) = f[s[i]] + T(i - 1) /\ s[i] \in S
    <3> TAKE i \in 1..n
    <3>1. A(i) \in SUBSET S /\ A(i - 1) \in SUBSET S /\ s[i] \in A(i) /\ s[i] \in S
      BY <1>2
    <3>2. A(i - 1) = A(i) \ {s[i]}
      <4>1. \A j \in 1..(i - 1) : j \in 1..i /\ s[j] # s[i]
        BY <1>2 DEF IsInjective
      <4>2. \A j \in 1..i : j = i \/ j \in 1..(i - 1)
        OBVIOUS
      <4> QED
        BY <4>1, <4>2
    <3> HIDE DEF A
    <3> QED
      BY <2>3, <2>31, <3>1, <3>2
  <2>51. A(n) = S
    BY <1>2
  <2> HIDE DEF A, T
  <2>6. id[0] \in H
    <3>1. Holds(Just(c), c + 0)
      BY JustProper
    <3> QED
      BY <1>2, <1>8, <2>4, <3>1
  <2>7. \A i \in 1..n : id[i - 1] \in H => id[i] \in H
    <3>0. \A i \in 1..n : i - 1 \in 0..n /\ i \in 0..n /\ id[i - 1] = i - 1 /\ id[i] = i
      BY <1>2
    <3> SUFFICES ASSUME NEW i \in 1..n, Holds(h[i - 1], c + T(i - 1))
                 PROVE  Holds(h[i], c + T(i))
      <4> HIDE DEF id
      <4> QED
        BY <3>0
    <3> DEFINE v == s[i]
               x == get_interval(z, v)
               y == IMul(Just(t[v]), x)
    <3>1. v \in S /\ Proper(x) /\ Holds(x, w[v]) /\ t[v] \in Int /\ t[v] # 0 /\ w[v] \in Int
      BY <2>2, <2>5, IntervalOfZone
    <3> HIDE DEF v, x
    <3>2. Proper(y) /\ Holds(y, t[v] * w[v])
      BY <3>1, IMulSound
    <3> HIDE DEF y
    <3>3. Proper(h[i - 1]) /\ h[i] = IAdd(h[i - 1], y)
      <4>1. h[i - 1] \in G
        BY <1>2, <3>0
      <4>2. Proper(h[i - 1])
        BY <4>1 DEF G, ProperIntervals
      <4>3. h[i] = IAdd(h[i - 1], y)
        BY <1>8 DEF x, y, v
      <4> QED
        BY <4>2, <4>3
    <3>4. c + T(i - 1) \in Int /\ t[v] * w[v] \in Int
      BY <2>5, <3>1
    <3>5. Holds(h[i], (c + T(i - 1)) + t[v] * w[v])
      BY <3>2, <3>3, <3>4, IAddSound
    <3>6. T(i) = f[v] + T(i - 1) /\ T(i - 1) \in Int
      BY <2>5 DEF v
    <3>7. f[v] = t[v] * w[v]
      BY <2>2, <3>1
    <3>8. c + T(i) = (c + T(i - 1)) + t[v] * w[v]
      <4> DEFINE m == t[v] * w[v]
      <4>1. T(i) = m + T(i - 1) /\ m \in Int
        BY <3>4, <3>6, <3>7
      <4> HIDE DEF m
      <4>2. c + T(i) = (c + T(i - 1)) + m
        BY <3>6, <4>1
      <4> QED
        BY <4>2 DEF m
    <3> QED
      BY <3>5, <3>8
  <2>8. \A i \in 0..n : id[i] \in H
    <3> HIDE DEF id, H
    <3> QED
      BY <1>2, <2>6, <2>7, HistoryInduction
  <2>9. Holds(h[n], c + T(n))
    BY <1>2, <2>8
  <2> QED
    BY <1>3, <1>8, <2>9, <2>51 DEF T, f
<1> QED
  BY <1>9, <1>10

LEMMA LinearFacts ==
  ASSUME NEW e, IsLinear(e)
  PROVE  /\ e.c \in Int /\ DOMAIN e.t \in SUBSET Vars /\ e = [c |-> e.c, t |-> e.t]
         /\ e.t \in [DOMAIN e.t -> Int]
         /\ \A v \in DOMAIN e.t : e.t[v] \in Int /\ e.t[v] # 0 /\ v \in Vars
         /\ IsFiniteSet(DOMAIN e.t)
<1>1. /\ e.c \in Int /\ DOMAIN e.t \in SUBSET Vars /\ e = [c |-> e.c, t |-> e.t]
      /\ e.t \in [DOMAIN e.t -> Int \ {0}]
  BY DEF IsLinear
<1>2. DOMAIN e.t \in SUBSET Verts
  BY <1>1, VertFacts
<1>3. IsFiniteSet(DOMAIN e.t)
  BY <1>2, VertFacts
<1> QED
  BY <1>1, <1>3

LEMMA ValSum ==
  ASSUME NEW e, IsLinear(e), NEW w \in Valuations
  PROVE  /\ Val(e, w) = e.c + SumFunctionOnSet(Products(e.t, DOMAIN e.t, w), DOMAIN e.t)
         /\ SumFunctionOnSet(Products(e.t, DOMAIN e.t, w), DOMAIN e.t) \in Int
         /\ Val(e, w) \in Int
<1> DEFINE S == DOMAIN e.t
           f == Products(e.t, S, w)
<1>1. e.c \in Int /\ S \in SUBSET Vars /\ \A v \in S : e.t[v] \in Int
  BY LinearFacts
<1>2. IsFiniteSet(S) /\ IntOn(f, S) /\ DOMAIN f = S
  BY <1>1, ProductsInt
<1>3. Val(e, w) = e.c + SumFunctionOnSet(f, DOMAIN f)
  BY DEF Val, SumFunction
<1> HIDE DEF f, S
<1>4. SumFunctionOnSet(f, S) \in Int
  BY <1>2, SumStep
<1>5. Val(e, w) = e.c + SumFunctionOnSet(f, S) /\ Val(e, w) \in Int
  BY <1>1, <1>2, <1>3, <1>4
<1> QED
  BY <1>4, <1>5 DEF f, S

LEMMA EvalIntervalSound ==
  ASSUME NEW Q \in SUBSET Valuations, NEW z \in Zone(Q), NEW e, IsLinear(e)
  PROVE  /\ Proper(eval_interval(z, e))
         /\ \A w \in With(Q, z.p) : Holds(eval_interval(z, e), Val(e, w))
<1>1. /\ e.c \in Int /\ DOMAIN e.t \in SUBSET Vars
      /\ \A v \in DOMAIN e.t : e.t[v] \in Int /\ e.t[v] # 0
  BY LinearFacts
<1>2. With(Q, z.p) \in SUBSET Valuations
  BY ZoneElim
<1>3. /\ Proper(EvalTerms(z, e.c, e.t, DOMAIN e.t))
      /\ \A w \in With(Q, z.p) : Holds(EvalTerms(z, e.c, e.t, DOMAIN e.t),
                                       e.c + SumFunctionOnSet(Products(e.t, DOMAIN e.t, w), DOMAIN e.t))
  BY <1>1, EvalTermsSound
<1>4. \A w \in With(Q, z.p) : Val(e, w) = e.c + SumFunctionOnSet(Products(e.t, DOMAIN e.t, w), DOMAIN e.t)
  BY <1>2, ValSum
<1> QED
  BY <1>3, <1>4 DEF eval_interval

LEMMA SumNegate ==
  ASSUME NEW S, IsFiniteSet(S), NEW f, IntOn(f, S), NEW g, \A x \in S : g[x] = - f[x]
  PROVE  IntOn(g, S) /\ SumFunctionOnSet(g, S) = - SumFunctionOnSet(f, S)
<1>1. IntOn(g, S) /\ \A x \in S : f[x] \in Int /\ g[x] = - f[x]
  BY DEF IntOn
<1> DEFINE F(A) == SumFunctionOnSet(f, A)
           H(A) == SumFunctionOnSet(g, A)
           P == {A \in SUBSET S : H(A) = - F(A)}
<1>2. \A A \in SUBSET S : F(A) \in Int /\ H(A) \in Int
  BY <1>1, SumStep
<1>3. {} \in P
  <2>1. F({}) = 0 /\ H({}) = 0
    BY <1>1, SumStep
  <2> QED
    BY <2>1
<1>4. \A A \in SUBSET S : \A x \in S \ A : A \in P => A \cup {x} \in P
  <2> SUFFICES ASSUME NEW A \in SUBSET S, NEW x \in S \ A, H(A) = - F(A)
               PROVE  H(A \cup {x}) = - F(A \cup {x})
    OBVIOUS
  <2> DEFINE B == A \cup {x}
  <2>1. A = B \ {x} /\ B \in SUBSET S /\ x \in B
    OBVIOUS
  <2> HIDE DEF B
  <2>2. F(B) = f[x] + F(A)
    BY <2>1, SumSplit
  <2>3. H(B) = g[x] + H(A)
    BY <1>1, <2>1, SumSplit
  <2>4. H(B) = - F(B)
    <3> HIDE DEF F, H
    <3> QED
      BY <1>1, <1>2, <2>2, <2>3
  <2> QED
    BY <2>4 DEF B
<1>5. \A A \in SUBSET S : A \in P
  <2> HIDE DEF P
  <2> QED
    BY <1>3, <1>4, FiniteInduction
<1>6. S \in P
  BY <1>5
<1> QED
  BY <1>1, <1>6

LEMMA NegateVal ==
  ASSUME NEW e, IsLinear(e), NEW w \in Valuations
  PROVE  IsLinear(Negate(e)) /\ Val(Negate(e), w) = - Val(e, w)
<1> DEFINE S == DOMAIN e.t
           ne == Negate(e)
           f == Products(e.t, S, w)
           g == Products(ne.t, S, w)
<1>1. /\ e.c \in Int /\ S \in SUBSET Vars /\ e.t \in [S -> Int]
      /\ \A v \in S : e.t[v] \in Int /\ e.t[v] # 0
      /\ IsFiniteSet(S)
  BY LinearFacts
<1>2. ne.c = - e.c /\ DOMAIN ne.t = S /\ (\A v \in S : ne.t[v] = - e.t[v])
      /\ ne.t = [v \in S |-> - e.t[v]] /\ ne = [c |-> - e.c, t |-> ne.t]
  BY DEF Negate
<1>3. IsLinear(ne)
  <2>1. ne.t \in [S -> Int \ {0}]
    <3>1. \A v \in S : - e.t[v] \in Int \ {0}
      BY <1>1
    <3> HIDE DEF ne, S
    <3> QED
      BY <1>2, <3>1
  <2>2. - e.c \in Int
    BY <1>1
  <2> HIDE DEF ne, S
  <2> QED
    BY <1>1, <1>2, <2>1, <2>2 DEF IsLinear
<1>4. IntOn(f, S) /\ \A v \in S : f[v] = e.t[v] * w[v] /\ w[v] \in Int
  BY <1>1, ProductsInt
<1>5. \A v \in S : g[v] = ne.t[v] * w[v]
  BY DEF Products
<1> HIDE DEF ne, f, g
<1>6. \A v \in S : g[v] = - f[v]
  <2> TAKE v \in S
  <2>1. g[v] = (- e.t[v]) * w[v] /\ f[v] = e.t[v] * w[v] /\ e.t[v] \in Int /\ w[v] \in Int
    BY <1>1, <1>2, <1>4, <1>5
  <2> QED
    BY <2>1
<1>7. SumFunctionOnSet(g, S) = - SumFunctionOnSet(f, S)
  BY <1>1, <1>4, <1>6, SumNegate
<1>8. Val(e, w) = e.c + SumFunctionOnSet(f, S) /\ SumFunctionOnSet(f, S) \in Int
  BY ValSum DEF f
<1>9. Val(ne, w) = ne.c + SumFunctionOnSet(g, S)
  BY <1>2, <1>3, ValSum DEF g
<1>10. Val(ne, w) = - Val(e, w)
  BY <1>1, <1>2, <1>7, <1>8, <1>9
<1> QED
  BY <1>3, <1>10 DEF ne

LEMMA ResidualSound ==
  ASSUME NEW Q \in SUBSET Valuations, NEW z \in Zone(Q), NEW e, IsLinear(e), NEW x \in DOMAIN e.t
  PROVE  /\ Proper(compute_residual(z, e, x))
         /\ \A w \in With(Q, z.p) : Holds(compute_residual(z, e, x), e.t[x] * w[x] - Val(e, w))
<1> DEFINE D == DOMAIN e.t
           S == D \ {x}
           t == [v \in D |-> - e.t[v]]
           c == - e.c
           i == EvalTerms(z, c, t, S)
<1>1. /\ e.c \in Int /\ D \in SUBSET Vars
      /\ \A v \in D : e.t[v] \in Int /\ e.t[v] # 0
      /\ IsFiniteSet(D)
  BY LinearFacts
<1>2. /\ S \in SUBSET Vars /\ c \in Int /\ (\A v \in S : t[v] \in Int /\ t[v] # 0)
      /\ \A v \in D : t[v] = - e.t[v]
      /\ S \in SUBSET D
  BY <1>1
<1>3. compute_residual(z, e, x) = i
  BY DEF compute_residual
<1> HIDE DEF t, c, S
<1>4. /\ Proper(i)
      /\ \A w \in With(Q, z.p) : Holds(i, c + SumFunctionOnSet(Products(t, S, w), S))
  BY <1>2, EvalTermsSound
<1> HIDE DEF i
<1>5. ASSUME NEW w \in With(Q, z.p)
      PROVE  Holds(i, e.t[x] * w[x] - Val(e, w))
  <2> DEFINE f == Products(e.t, D, w)
             g == Products(t, S, w)
  <2>1. w \in Valuations
    BY ZoneElim
  <2>2. IntOn(f, D) /\ \A v \in D : f[v] = e.t[v] * w[v] /\ w[v] \in Int
    BY <1>1, <2>1, ProductsInt
  <2>3. \A v \in S : g[v] = t[v] * w[v]
    BY DEF Products
  <2>4. e.c + SumFunctionOnSet(f, D) = Val(e, w)
    BY <2>1, ValSum
  <2> HIDE DEF f, g, D
  <2>5. IsFiniteSet(S) /\ IntOn(f, S)
    BY <1>1, <1>2, <2>2, FS_Subset DEF IntOn
  <2>6. \A v \in S : g[v] = - f[v]
    <3> TAKE v \in S
    <3>1. g[v] = (- e.t[v]) * w[v] /\ f[v] = e.t[v] * w[v] /\ e.t[v] \in Int /\ w[v] \in Int
      BY <1>1, <1>2, <2>2, <2>3
    <3> QED
      BY <3>1
  <2>7. SumFunctionOnSet(g, S) = - SumFunctionOnSet(f, S)
    BY <2>5, <2>6, SumNegate
  <2>8. SumFunctionOnSet(f, D) = f[x] + SumFunctionOnSet(f, S)
    <3>1. D \in SUBSET D /\ x \in D /\ S = D \ {x}
      BY DEF D, S
    <3> QED
      BY <1>1, <2>2, <3>1, SumSplit
  <2>9. SumFunctionOnSet(f, S) \in Int
    BY <2>5, SumStep
  <2>10. f[x] \in Int /\ f[x] = e.t[x] * w[x]
    BY <2>2 DEF D, IntOn
  <2>11. c + SumFunctionOnSet(g, S) = f[x] - Val(e, w)
    BY <1>1, <2>4, <2>7, <2>8, <2>9, <2>10 DEF c
  <2>12. Holds(i, c + SumFunctionOnSet(g, S))
    BY <1>4 DEF g
  <2> QED
    BY <2>10, <2>11, <2>12
<1> QED
  BY <1>3, <1>4, <1>5

LEMMA EvalExpressionIsVal ==
  ASSUME NEW Q \in SUBSET Valuations, NEW z \in Zone(Q), NEW e, IsLinear(e)
  PROVE  eval_expression(z, e) = Val(e, Model(z.p)) /\ eval_expression(z, e) \in Int
<1>1. DOMAIN e.t \in SUBSET Vars
  BY LinearFacts
<1>2. \A v \in DOMAIN e.t : Model(z.p)[v] = pot_value(z, v) - z.p[0]
  BY <1>1, VertFacts DEF Model, pot_value
<1>3. eval_expression(z, e) = Val(e, Model(z.p))
  BY <1>2 DEF eval_expression, Val, Products
<1>4. Model(z.p) \in Valuations
  BY ZoneElim DEF With
<1> QED
  BY <1>3, <1>4, ValSum

-----------------------------------------------------------------------------
(* Assigning a linear expression. *)

(* k bounds the expression relative to some variables, from above or below. *)
RelativeBounds(k, e, W, upper) ==
  /\ DOMAIN k \in SUBSET Vars /\ k \in [DOMAIN k -> Int]
  /\ \A y \in DOMAIN k : \A w \in W :
       IF upper THEN Val(e, w) - w[y] <= k[y] ELSE k[y] <= Val(e, w) - w[y]

LEMMA RestCompare ==
  ASSUME NEW S, IsFiniteSet(S), NEW x \in S, NEW R, R = S \ {x},
         NEW f, IntOn(f, R), NEW g, IntOn(g, R), \A v \in R : f[v] <= g[v]
  PROVE  /\ SumFunctionOnSet(f, R) \in Int /\ SumFunctionOnSet(g, R) \in Int
         /\ SumFunctionOnSet(f, R) <= SumFunctionOnSet(g, R)
<1>1. IsFiniteSet(R) /\ R \in SUBSET R
  BY FS_Subset
<1>2. \A v \in R : f[v] \in Int /\ g[v] \in Int
  BY DEF IntOn
<1> QED
  BY <1>1, <1>2, SumCompare, SumStep

(* One product and its bound. *)
LEMMA ProductBound ==
  ASSUME NEW t \in Int, t # 0, NEW w \in Int, NEW b \in Int, NEW upper \in BOOLEAN,
         (upper = (t > 0)) => w <= b, ~ (upper = (t > 0)) => b <= w
  PROVE  /\ t * w \in Int /\ t * b \in Int
         /\ upper => t * w <= t * b /\ (t > 0 => t * w - w <= t * b - b)
         /\ ~ upper => t * b <= t * w /\ (t > 0 => t * b - b <= t * w - w)
<1>1. t * w \in Int /\ t * b \in Int
  OBVIOUS
<1>2. ASSUME t > 0, w <= b
      PROVE  t * w <= t * b /\ t * w - w <= t * b - b
  <2>1. t - 1 \in Int /\ (t - 1 > 0 => (t - 1) * w <= (t - 1) * b)
    BY <1>2, MulMono
  <2>2. t * w <= t * b
    BY <1>2, MulMono
  <2> QED
    BY <1>2, <2>1, <2>2
<1>3. ASSUME t > 0, b <= w
      PROVE  t * b <= t * w /\ t * b - b <= t * w - w
  <2>1. t - 1 \in Int /\ (t - 1 > 0 => (t - 1) * b <= (t - 1) * w)
    BY <1>3, MulMono
  <2>2. t * b <= t * w
    BY <1>3, MulMono
  <2> QED
    BY <1>3, <2>1, <2>2
<1>4. ASSUME t < 0, w <= b
      PROVE  t * b <= t * w
  BY <1>4, MulMono
<1>5. ASSUME t < 0, b <= w
      PROVE  t * w <= t * b
  BY <1>5, MulMono
<1>6. t > 0 \/ t < 0
  OBVIOUS
<1>7. CASE t > 0 /\ upper
  BY <1>1, <1>2, <1>7
<1>8. CASE t > 0 /\ ~ upper
  BY <1>1, <1>3, <1>8
<1>9. CASE t < 0 /\ upper
  <2>1. b <= w
    <3>1. ~ (t > 0)
      BY <1>9
    <3>2. ~ (upper = (t > 0))
      BY <1>9, <3>1, Zenon
    <3> QED
      BY <3>2
  <2> QED
    BY <1>1, <1>5, <1>9, <2>1
<1>10. CASE t < 0 /\ ~ upper
  BY <1>1, <1>4, <1>10
<1> QED
  BY <1>6, <1>7, <1>8, <1>9, <1>10

LEMMA DiffcstsOfAssignSound ==
  ASSUME NEW Q \in SUBSET Valuations, NEW z \in Zone(Q), NEW e, IsLinear(e), NEW upper \in BOOLEAN
  PROVE  RelativeBounds(diffcsts_of_assign(z, e, upper), e, With(Q, z.p), upper)
<1> DEFINE S == DOMAIN e.t
           W == With(Q, z.p)
           Bd(y) == IF upper = (e.t[y] > 0) THEN get_ub(z, y) ELSE get_lb(z, y)
           unbounded == {y \in S : Bd(y).inf}
           R == S \ unbounded
           b == [y \in R |-> e.t[y] * Bd(y).n]
           res == e.c + SumFunction(b)
           one == Cardinality(unbounded) = 1 /\ \A y \in unbounded : e.t[y] = 1
           D1 == {u \in R : e.t[u] > 0}
           k1 == [y \in D1 |-> res - Bd(y).n]
           k2 == [y \in unbounded |-> res]
           k == diffcsts_of_assign(z, e, upper)
<1>1. /\ e.c \in Int /\ S \in SUBSET Vars
      /\ \A v \in S : e.t[v] \in Int /\ e.t[v] # 0
      /\ IsFiniteSet(S)
  BY LinearFacts
<1>2. /\ unbounded = {} => k = k1
      /\ unbounded # {} /\ one => k = k2
      /\ unbounded # {} /\ ~ one => k = <<>>
  <2>1. k = CASE unbounded = {} -> k1 [] one -> k2 [] OTHER -> <<>>
    BY DEF diffcsts_of_assign
  <2>2. unbounded = {} => ~ one
    <3> HIDE DEF unbounded
    <3>1. unbounded = {} => Cardinality(unbounded) = 0
      BY FS_EmptySet
    <3> QED
      BY <3>1
  <2> HIDE DEF k, k1, k2, one, unbounded
  <2> QED
    BY <2>1, <2>2
<1> HIDE DEF k
<1>3. W \in SUBSET Valuations
  BY ZoneElim
<1>4. ASSUME NEW y \in R
      PROVE  /\ Bd(y).n \in Int
             /\ \A w \in W : /\ w[y] \in Int
                             /\ (upper = (e.t[y] > 0)) => w[y] <= Bd(y).n
                             /\ ~ (upper = (e.t[y] > 0)) => Bd(y).n <= w[y]
  <2>1. y \in Vars /\ ~ Bd(y).inf
    BY <1>1
  <2>2. \A w \in W : w[y] \in Int
    BY <1>3, <2>1, VertFacts, ValuationFacts
  <2>3. CASE upper = (e.t[y] > 0)
    <3>1. Bd(y) = get_ub(z, y)
      BY <2>3
    <3> HIDE DEF Bd
    <3>2. get_ub(z, y) \in Bounds /\ \A w \in W : w[y] <= get_ub(z, y).n
      BY <2>1, <3>1, BoundsOfZone
    <3> QED
      BY <2>2, <2>3, <3>1, <3>2 DEF Bounds
  <2>4. CASE ~ (upper = (e.t[y] > 0))
    <3>1. Bd(y) = get_lb(z, y)
      BY <2>4
    <3> HIDE DEF Bd
    <3>2. get_lb(z, y) \in Bounds /\ \A w \in W : get_lb(z, y).n <= w[y]
      BY <2>1, <3>1, BoundsOfZone
    <3> QED
      BY <2>2, <2>4, <3>1, <3>2 DEF Bounds
  <2> QED
    BY <2>3, <2>4
<1>5. R \in SUBSET S /\ IsFiniteSet(R) /\ (unbounded = {} => R = S)
  BY <1>1, FS_Subset
<1>51. res = e.c + SumFunctionOnSet(b, R)
  BY DEF SumFunction
<1>52. \A y \in R : b[y] = e.t[y] * Bd(y).n
  OBVIOUS
<1>53. DOMAIN k1 = D1 /\ (\A y \in D1 : k1[y] = res - Bd(y).n) /\ D1 \subseteq R /\ \A y \in D1 : e.t[y] > 0
  OBVIOUS
<1>54. DOMAIN k2 = unbounded /\ (\A y \in unbounded : k2[y] = res) /\ k2 = [y \in unbounded |-> res]
       /\ k1 = [y \in D1 |-> res - Bd(y).n]
  OBVIOUS
<1>55. unbounded \subseteq S /\ R = S \ unbounded
  OBVIOUS
<1> HIDE DEF R, b, Bd, res, k1, k2, D1, unbounded, S, W
<1>6. IntOn(b, R)
  <2> SUFFICES ASSUME NEW y \in R PROVE b[y] \in Int
    BY DEF IntOn
  <2>1. e.t[y] \in Int /\ Bd(y).n \in Int
    BY <1>1, <1>4, <1>5
  <2> QED
    BY <1>52, <2>1
<1>61. res \in Int /\ SumFunctionOnSet(b, R) \in Int
  BY <1>1, <1>5, <1>51, <1>6, SumStep
(* The products of the expression against b. *)
<1>7. ASSUME NEW w \in W
      PROVE  /\ IntOn(Products(e.t, S, w), S)
             /\ \A y \in R :
                  /\ upper => Products(e.t, S, w)[y] <= b[y]
                  /\ upper /\ e.t[y] > 0 => Products(e.t, S, w)[y] - w[y] <= b[y] - Bd(y).n
                  /\ ~ upper => b[y] <= Products(e.t, S, w)[y]
                  /\ ~ upper /\ e.t[y] > 0 => b[y] - Bd(y).n <= Products(e.t, S, w)[y] - w[y]
  <2>0. w \in Valuations
    BY <1>3
  <2>1. IntOn(Products(e.t, S, w), S) /\ \A y \in S : Products(e.t, S, w)[y] = e.t[y] * w[y]
    BY <1>1, <2>0, ProductsInt
  <2>2. ASSUME NEW y \in R
        PROVE /\ upper => e.t[y] * w[y] <= b[y]
              /\ upper /\ e.t[y] > 0 => e.t[y] * w[y] - w[y] <= b[y] - Bd(y).n
              /\ ~ upper => b[y] <= e.t[y] * w[y]
              /\ ~ upper /\ e.t[y] > 0 => b[y] - Bd(y).n <= e.t[y] * w[y] - w[y]
    <3> DEFINE t == e.t[y]
               m == w[y]
               n == Bd(y).n
    <3>1. /\ t \in Int /\ t # 0 /\ m \in Int /\ n \in Int
          /\ (upper = (t > 0)) => m <= n
          /\ ~ (upper = (t > 0)) => n <= m
      BY <1>1, <1>4, <1>5
    <3>2. b[y] = t * n
      BY <1>52
    <3> HIDE DEF t, m, n
    <3>3. /\ upper => t * m <= t * n /\ (t > 0 => t * m - m <= t * n - n)
          /\ ~ upper => t * n <= t * m /\ (t > 0 => t * n - n <= t * m - m)
      BY <3>1, ProductBound
    <3>4. /\ upper => t * m <= b[y]
          /\ upper /\ t > 0 => t * m - m <= b[y] - n
          /\ ~ upper => b[y] <= t * m
          /\ ~ upper /\ t > 0 => b[y] - n <= t * m - m
      BY <3>2, <3>3
    <3> QED
      BY <3>4 DEF t, m, n
  <2> QED
    BY <1>5, <2>1, <2>2
<1>8. ASSUME NEW y \in S, NEW w \in W
      PROVE  /\ Val(e, w) \in Int /\ w[y] \in Int
             /\ Products(e.t, S, w)[y] \in Int /\ Products(e.t, S, w)[y] = e.t[y] * w[y]
             /\ SumFunctionOnSet(Products(e.t, S, w), S \ {y}) \in Int
             /\ Val(e, w) = e.c + (Products(e.t, S, w)[y] + SumFunctionOnSet(Products(e.t, S, w), S \ {y}))
  <2> DEFINE f == Products(e.t, S, w)
             T == S \ {y}
  <2>1. w \in Valuations
    BY <1>3
  <2>2. IntOn(f, S) /\ f[y] = e.t[y] * w[y] /\ w[y] \in Int
    BY <1>1, <2>1, ProductsInt
  <2>3. Val(e, w) \in Int /\ Val(e, w) = e.c + SumFunctionOnSet(f, S)
    BY <2>1, ValSum DEF S
  <2>4. T = S \ {y} /\ T \in SUBSET S /\ S \in SUBSET S
    OBVIOUS
  <2> HIDE DEF f, T
  <2>5. SumFunctionOnSet(f, S) = f[y] + SumFunctionOnSet(f, T)
    BY <1>1, <2>2, <2>4, SumSplit
  <2>6. SumFunctionOnSet(f, T) \in Int
    BY <1>1, <2>2, <2>4, SumStep
  <2>7. f[y] \in Int
    BY <2>2 DEF IntOn
  <2> QED
    BY <2>2, <2>3, <2>5, <2>6, <2>7 DEF f, T
<1>9. CASE unbounded = {}
  <2>1. ASSUME NEW y \in D1
        PROVE  /\ k1[y] \in Int
               /\ \A w \in W : IF upper THEN Val(e, w) - w[y] <= k1[y] ELSE k1[y] <= Val(e, w) - w[y]
    <3>1. k1[y] = res - Bd(y).n /\ y \in R /\ y \in S /\ e.t[y] > 0 /\ Bd(y).n \in Int /\ R = S
      BY <1>4, <1>5, <1>53, <1>9
    <3>2. ASSUME NEW w \in W
          PROVE  IF upper THEN Val(e, w) - w[y] <= k1[y] ELSE k1[y] <= Val(e, w) - w[y]
      <4> DEFINE f == Products(e.t, S, w)
                 T == S \ {y}
                 sf == SumFunctionOnSet(f, T)
                 sb == SumFunctionOnSet(b, T)
      <4>1. /\ IntOn(f, S)
            /\ \A x \in S :
                  /\ upper => f[x] <= b[x]
                  /\ upper /\ e.t[x] > 0 => f[x] - w[x] <= b[x] - Bd(x).n
                  /\ ~ upper => b[x] <= f[x]
                  /\ ~ upper /\ e.t[x] > 0 => b[x] - Bd(x).n <= f[x] - w[x]
        BY <1>7, <3>1
      <4>2. /\ Val(e, w) \in Int /\ w[y] \in Int /\ f[y] \in Int
            /\ sf \in Int /\ Val(e, w) = e.c + (f[y] + sf)
        BY <1>8, <3>1
      <4>3. T = S \ {y} /\ S \in SUBSET S /\ T \in SUBSET S
        OBVIOUS
      <4> HIDE DEF f, T
      <4>4. SumFunctionOnSet(b, S) = b[y] + sb /\ sb \in Int /\ b[y] \in Int
        <5>1. IntOn(b, S)
          BY <1>6, <3>1
        <5>2. SumFunctionOnSet(b, S) = b[y] + SumFunctionOnSet(b, T)
          BY <1>1, <3>1, <4>3, <5>1, SumSplit
        <5>3. sb \in Int
          BY <1>1, <4>3, <5>1, SumStep
        <5> QED
          BY <3>1, <5>1, <5>2, <5>3 DEF IntOn
      <4>5. IntOn(f, T) /\ IntOn(b, T)
        BY <1>6, <3>1, <4>1, <4>3 DEF IntOn
      <4>6. res = e.c + (b[y] + sb)
        BY <1>51, <3>1, <4>4
      <4>7. CASE upper
        <5>1. \A v \in T : f[v] <= b[v]
          BY <4>1, <4>3, <4>7
        <5>2. sf <= sb
          BY <1>1, <3>1, <4>3, <4>5, <5>1, RestCompare
        <5>3. f[y] - w[y] <= b[y] - Bd(y).n
          BY <3>1, <4>1, <4>7
        <5> HIDE DEF sf, sb
        <5>4. Val(e, w) - w[y] <= k1[y]
          BY <1>1, <3>1, <4>2, <4>4, <4>6, <5>2, <5>3
        <5> QED
          BY <4>7, <5>4
      <4>8. CASE ~ upper
        <5>1. \A v \in T : b[v] <= f[v]
          BY <4>1, <4>3, <4>8
        <5>2. sb <= sf
          BY <1>1, <3>1, <4>3, <4>5, <5>1, RestCompare
        <5>3. b[y] - Bd(y).n <= f[y] - w[y]
          BY <3>1, <4>1, <4>8
        <5> HIDE DEF sf, sb
        <5>4. k1[y] <= Val(e, w) - w[y]
          BY <1>1, <3>1, <4>2, <4>4, <4>6, <5>2, <5>3
        <5> QED
          BY <4>8, <5>4
      <4> QED
        BY <4>7, <4>8
    <3> QED
      BY <1>61, <3>1, <3>2
  <2>2. k = k1
    BY <1>2, <1>9
  <2>3. D1 \in SUBSET Vars /\ k1 \in [D1 -> Int]
    BY <1>1, <1>5, <1>53, <1>54, <2>1
  <2> HIDE DEF k
  <2>4. RelativeBounds(k, e, W, upper)
    BY <1>53, <2>1, <2>2, <2>3 DEF RelativeBounds
  <2> QED
    BY <2>4 DEF k, W
<1>10. CASE unbounded # {} /\ one
  <2>1. PICK x : unbounded = {x}
    BY <1>1, <1>5, <1>10, <1>55, FS_Subset, FS_CardinalityType, FS_Singleton
  <2>2. x \in S /\ e.t[x] = 1 /\ R = S \ {x} /\ k = k2 /\ DOMAIN k2 = {x} /\ k2[x] = res
    BY <1>2, <1>10, <1>54, <1>55, <2>1
  <2>3. ASSUME NEW w \in W
        PROVE  IF upper THEN Val(e, w) - w[x] <= res ELSE res <= Val(e, w) - w[x]
    <3> DEFINE f == Products(e.t, S, w)
               sf == SumFunctionOnSet(f, R)
               sb == SumFunctionOnSet(b, R)
    <3>1. /\ IntOn(f, S)
          /\ \A v \in R : (upper => f[v] <= b[v]) /\ (~ upper => b[v] <= f[v])
      BY <1>7
    <3>2. /\ Val(e, w) \in Int /\ w[x] \in Int /\ f[x] \in Int /\ f[x] = e.t[x] * w[x]
          /\ sf \in Int /\ Val(e, w) = e.c + (f[x] + sf)
      BY <1>8, <2>2
    <3> HIDE DEF f
    <3>3. IntOn(f, R)
      BY <1>5, <3>1 DEF IntOn
    <3>4. f[x] = w[x]
      BY <2>2, <3>2
    <3>5. (upper => sf <= sb) /\ (~ upper => sb <= sf) /\ sb \in Int
      BY <1>1, <1>6, <2>2, <3>1, <3>3, RestCompare
    <3>6. res = e.c + sb
      BY <1>51
    <3> HIDE DEF sf, sb
    <3> QED
      BY <1>1, <3>2, <3>4, <3>5, <3>6
  <2>4. k2 \in [{x} -> Int]
    BY <1>54, <1>61, <2>1
  <2>5. {x} \in SUBSET Vars
    BY <1>1, <2>2
  <2>6. RelativeBounds(k, e, W, upper)
    BY <2>2, <2>3, <2>4, <2>5 DEF RelativeBounds
  <2> QED
    BY <2>6 DEF k, W
<1>11. CASE unbounded # {} /\ ~ one
  <2>1. k = <<>>
    BY <1>2, <1>11
  <2>2. DOMAIN <<>> = {} /\ <<>> \in [{} -> Int]
    OBVIOUS
  <2>3. RelativeBounds(k, e, W, upper)
    BY <2>1, <2>2 DEF RelativeBounds
  <2> QED
    BY <2>3 DEF k, W
<1> QED
  BY <1>9, <1>10, <1>11

LEMMA AddVerticesSound ==
  ASSUME NEW Q \in SUBSET Valuations, NEW z \in Zone(Q), NEW S \in SUBSET Vars,
         NEW zz, zz = FoldLeft(get_vert, z, InOrder(S))
  PROVE  /\ zz \in Zone(Q) /\ S \subseteq DOMAIN zz.p
         /\ zz.g = z.g /\ zz.ok = z.ok /\ Model(zz.p) = Model(z.p) /\ zz.p[0] = z.p[0]
<1> DEFINE n == Cardinality(S)
           s == InOrder(S)
           G == {y \in Zone(Q) : y.g = z.g /\ y.ok = z.ok /\ Model(y.p) = Model(z.p) /\ y.p[0] = z.p[0]}
<1>1. IsFiniteSet(S) /\ S \subseteq Int
  <2>1. S \in SUBSET Verts
    BY VertFacts
  <2> QED
    BY <2>1, VertFacts
<1>2. n \in Nat /\ s \in [1..n -> S] /\ \A x \in S : \E i \in 1..n : s[i] = x
  BY <1>1, InOrderFacts DEF Lists
<1>3. zz = AddVertices(z, s)
  BY DEF AddVertices, FoldLeft, MapThenFoldSet
<1>4. z \in G
  OBVIOUS
<1>5. \A a \in G : \A x \in S : get_vert(a, x) \in G
  <2> TAKE a \in G
  <2> TAKE x \in S
  <2>1. x \in Live
    BY LiveFacts
  <2> QED
    BY <2>1, GetVertSound
<1>6. \A a \in G : \A x \in S : DOMAIN get_vert(a, x).p = DOMAIN a.p \cup {x}
  <2> TAKE a \in G
  <2> TAKE x \in S
  <2>1. x \in Live
    BY LiveFacts
  <2> QED
    BY <2>1, GetVertSound
<1>61. \A y \in G : y \in Zone(Q) /\ y.g = z.g /\ y.ok = z.ok /\ Model(y.p) = Model(z.p) /\ y.p[0] = z.p[0]
  OBVIOUS
<1> HIDE DEF G, n, s
<1>7. AddVerticesHistory(z, s, n, G)
  <2>1. DOMAIN s = 1..n /\ \A i \in 1..n : s[i] \in S
    BY <1>2
  <2> QED
    BY <1>2, <1>4, <1>5, <2>1, AddVerticesWithin
<1>8. PICK h \in [0..n -> G] :
        /\ h[0] = z
        /\ \A i \in 1..n : h[i] = get_vert(h[i - 1], s[i])
        /\ AddVertices(z, s) = h[n]
  BY <1>7 DEF AddVerticesHistory
<1> DEFINE H == {i \in 0..n : \A j \in 1..i : s[j] \in DOMAIN h[i].p}
           id == [i \in 0..n |-> i]
<1>9. id[0] \in H
  BY <1>2
<1>10. \A i \in 1..n : id[i - 1] \in H => id[i] \in H
  <2>0. \A i \in 1..n : i - 1 \in 0..n /\ i \in 0..n /\ id[i - 1] = i - 1 /\ id[i] = i
    BY <1>2
  <2> SUFFICES ASSUME NEW i \in 1..n, \A j \in 1..(i - 1) : s[j] \in DOMAIN h[i - 1].p
               PROVE  \A j \in 1..i : s[j] \in DOMAIN h[i].p
    <3> HIDE DEF id
    <3> QED
      BY <2>0
  <2>1. h[i - 1] \in G /\ s[i] \in S /\ h[i] = get_vert(h[i - 1], s[i])
    BY <1>2, <1>8, <2>0
  <2>2. DOMAIN h[i].p = DOMAIN h[i - 1].p \cup {s[i]}
    BY <1>6, <2>1
  <2>3. \A j \in 1..i : j = i \/ j \in 1..(i - 1)
    BY <1>2
  <2> QED
    BY <2>2, <2>3
<1>11. \A i \in 0..n : id[i] \in H
  <2> HIDE DEF id, H
  <2> QED
    BY <1>2, <1>9, <1>10, HistoryInduction
<1>12. \A j \in 1..n : s[j] \in DOMAIN h[n].p
  BY <1>2, <1>11
<1>13. S \subseteq DOMAIN h[n].p /\ h[n] \in G
  BY <1>2, <1>8, <1>12
<1> QED
  BY <1>3, <1>8, <1>13, <1>61

(* The valuations after an assignment. *)
Assigned(Q, x, e) == {[q EXCEPT ![x] = Val(e, q)] : q \in Q}

AreAssigned(R, Q, x, e) ==
  /\ R \in SUBSET Valuations
  /\ AgreesOff(R, Q, x)
  /\ \A r \in R : \E q \in Q : r[x] = Val(e, q) /\ \A u \in Verts \ {x} : r[u] = q[u]
  /\ \A q \in Q : \E r \in R : r[x] = Val(e, q) /\ \A u \in Verts \ {x} : r[u] = q[u]

LEMMA AssignedFacts ==
  ASSUME NEW Q \in SUBSET Valuations, NEW x \in Verts, x # 0, NEW e, IsLinear(e)
  PROVE  AreAssigned(Assigned(Q, x, e), Q, x, e)
<1>0. \A q \in Q : q \in [Verts -> Int] /\ q[0] = 0 /\ Val(e, q) \in Int
  BY ValSum DEF Valuations
<1> DEFINE A(q) == [q EXCEPT ![x] = Val(e, q)]
<1>1. \A q \in Q : A(q) \in Valuations /\ A(q)[x] = Val(e, q) /\ \A u \in Verts \ {x} : A(q)[u] = q[u]
  <2> TAKE q \in Q
  <2>1. A(q) \in [Verts -> Int] /\ A(q)[x] = Val(e, q) /\ \A u \in Verts \ {x} : A(q)[u] = q[u]
    BY <1>0
  <2>2. A(q)[0] = 0
    BY <1>0, <2>1, VertFacts
  <2> QED
    BY <2>1, <2>2 DEF Valuations
<1>2. Assigned(Q, x, e) = {A(q) : q \in Q}
  BY DEF Assigned
<1> HIDE DEF A
<1> QED
  BY <1>1, <1>2 DEF AgreesOff, AreAssigned

(* The names of the vertices after the old one of x is gone. *)
NameOf(v, x) == IF v = Fresh THEN x ELSE v
VertOf(v, x) == IF v = x THEN Fresh ELSE v
Renamed(g, x) ==
  [e \in {<<NameOf(h[1], x), NameOf(h[2], x)>> : h \in DOMAIN g} |-> edge_val(g, VertOf(e[1], x), VertOf(e[2], x))]

LEMMA RenameParts ==
  ASSUME NEW z, NEW x
  PROVE  Rename(z, x) = [z EXCEPT !.g = Renamed(z.g, x),
                                  !.p = [v \in {NameOf(u, x) : u \in DOMAIN z.p} |-> z.p[VertOf(v, x)]]]
  BY DEF Rename, Renamed, NameOf, VertOf

LEMMA RenamedGr ==
  ASSUME NEW V \in SUBSET Verts, NEW x \in Vars, x \notin V, NEW Q \in SUBSET Valuations, NEW g \in Gr(V, Q),
         NEW V2, \A u \in V : NameOf(u, x) \in V2,
         NEW R, \A r \in R : \E q \in Q : \A u \in V : r[NameOf(u, x)] = q[u]
  PROVE  Renamed(g, x) \in Gr(V2, R)
<1> DEFINE D == {<<NameOf(h[1], x), NameOf(h[2], x)>> : h \in DOMAIN g}
           k == Renamed(g, x)
<1>1. /\ DOMAIN g \in SUBSET (V \X V) /\ g \in [DOMAIN g -> Int]
      /\ \A e \in DOMAIN g : e[1] \in V /\ e[2] \in V /\ g[e] \in Int
      /\ \A e \in DOMAIN g : \A q \in Q : q[e[2]] - q[e[1]] <= g[e]
  BY GrElim
<1>2. \A u \in V : VertOf(NameOf(u, x), x) = u
  BY DEF VertOf, NameOf
<1>3. ASSUME NEW e \in D
      PROVE  \E h \in DOMAIN g : /\ e \in V2 \X V2 /\ e[1] = NameOf(h[1], x) /\ e[2] = NameOf(h[2], x)
                                 /\ k[e] = g[h]
  <2>1. PICK h \in DOMAIN g : e = <<NameOf(h[1], x), NameOf(h[2], x)>>
    OBVIOUS
  <2>2. h[1] \in V /\ h[2] \in V /\ h = <<h[1], h[2]>>
    BY <1>1
  <2>3. k[e] = edge_val(g, VertOf(e[1], x), VertOf(e[2], x))
    BY DEF Renamed
  <2>4. e[1] = NameOf(h[1], x) /\ e[2] = NameOf(h[2], x)
    BY <2>1
  <2>5. VertOf(e[1], x) = h[1] /\ VertOf(e[2], x) = h[2]
    BY <1>2, <2>2, <2>4
  <2>6. k[e] = g[h]
    BY <2>2, <2>3, <2>5 DEF edge_val
  <2>7. e \in V2 \X V2
    BY <2>1, <2>2
  <2> HIDE DEF k, D
  <2> QED
    BY <2>4, <2>6, <2>7
<1>4. k = [e \in D |-> k[e]] /\ DOMAIN k = D
  BY DEF Renamed
<1> HIDE DEF k, D
<1>5. D \in SUBSET (V2 \X V2) /\ k \in [D -> Int]
  <2>1. \A e \in D : e \in V2 \X V2 /\ k[e] \in Int
    BY <1>1, <1>3
  <2> QED
    BY <1>4, <2>1
<1>6. ASSUME NEW e \in D, NEW r \in R PROVE r[e[2]] - r[e[1]] <= k[e]
  <2>1. PICK h \in DOMAIN g : e[1] = NameOf(h[1], x) /\ e[2] = NameOf(h[2], x) /\ k[e] = g[h]
    BY <1>3
  <2>2. PICK q \in Q : \A u \in V : r[NameOf(u, x)] = q[u]
    OBVIOUS
  <2>3. r[e[1]] = q[h[1]] /\ r[e[2]] = q[h[2]]
    BY <1>1, <2>1, <2>2
  <2> QED
    BY <1>1, <2>1, <2>3
<1>7. k \in Gr(V2, R)
  BY <1>5, <1>6, GrIntro
<1> QED
  BY <1>7 DEF k

(* The edges that relate the new vertex to the variables. *)
LEMMA NewEdgesSound ==
  ASSUME NEW V \in SUBSET Verts, Fresh \in V, NEW W \in SUBSET Valuations, NEW k, DOMAIN k \in SUBSET V,
         k \in [DOMAIN k -> Int]
  PROVE  /\ (\A y \in DOMAIN k : \A w \in W : k[y] <= w[Fresh] - w[y]) =>
              [d \in {Fresh} \X (DOMAIN k) |-> - k[d[2]]] \in Gr(V, W)
         /\ (\A y \in DOMAIN k : \A w \in W : w[Fresh] - w[y] <= k[y]) =>
              [s \in (DOMAIN k) \X {Fresh} |-> k[s[1]]] \in Gr(V, W)
<1>1. \A w \in W : \A v \in V : w[v] \in Int
  BY ValuationFacts
<1>2. ASSUME \A y \in DOMAIN k : \A w \in W : k[y] <= w[Fresh] - w[y]
      PROVE  [d \in {Fresh} \X (DOMAIN k) |-> - k[d[2]]] \in Gr(V, W)
  <2> DEFINE D == {Fresh} \X (DOMAIN k)
             g == [d \in D |-> - k[d[2]]]
  <2>1. D \in SUBSET (V \X V) /\ g \in [D -> Int] /\ \A d \in D : d[1] = Fresh /\ d[2] \in DOMAIN k
    OBVIOUS
  <2>2. \A d \in D : g[d] = - k[d[2]]
    OBVIOUS
  <2> HIDE DEF D, g
  <2>3. ASSUME NEW d \in D, NEW w \in W PROVE w[d[2]] - w[d[1]] <= g[d]
    <3>1. k[d[2]] \in Int /\ k[d[2]] <= w[Fresh] - w[d[2]] /\ w[Fresh] \in Int /\ w[d[2]] \in Int
      BY <1>1, <1>2, <2>1
    <3> QED
      BY <2>1, <2>2, <3>1
  <2>4. g \in Gr(V, W)
    BY <2>1, <2>3, GrIntro
  <2> QED
    BY <2>4 DEF D, g
<1>3. ASSUME \A y \in DOMAIN k : \A w \in W : w[Fresh] - w[y] <= k[y]
      PROVE  [s \in (DOMAIN k) \X {Fresh} |-> k[s[1]]] \in Gr(V, W)
  <2> DEFINE D == (DOMAIN k) \X {Fresh}
             g == [s \in D |-> k[s[1]]]
  <2>1. D \in SUBSET (V \X V) /\ g \in [D -> Int] /\ \A d \in D : d[2] = Fresh /\ d[1] \in DOMAIN k
    OBVIOUS
  <2>2. \A d \in D : g[d] = k[d[1]]
    OBVIOUS
  <2> HIDE DEF D, g
  <2>3. ASSUME NEW d \in D, NEW w \in W PROVE w[d[2]] - w[d[1]] <= g[d]
    BY <1>3, <2>1, <2>2
  <2>4. g \in Gr(V, W)
    BY <2>1, <2>3, GrIntro
  <2> QED
    BY <2>4 DEF D, g
<1> QED
  BY <1>2, <1>3

(* The bounds of the new vertex. *)
LEMMA BoundVertexSound ==
  ASSUME NEW V \in SUBSET Verts, Fresh \in V, 0 \in V, NEW W \in SUBSET Valuations,
         NEW z, z.g \in Gr(V, W), NEW i, Proper(i), \A w \in W : Holds(i, w[Fresh])
  PROVE  \E g \in Gr(V, W) : BoundVertex(z, i) = [z EXCEPT !.g = g]
<1> DEFINE lo == <<Fresh, - i.lb.n, 0>>
           up == <<0, i.ub.n, Fresh>>
           B == {c \in V \X Int \X V : \A w \in W : w[c[3]] - w[c[1]] <= c[2]}
           s1 == IF i.lb.inf THEN <<>> ELSE <<lo>>
           s2 == IF i.ub.inf THEN <<>> ELSE <<up>>
           s == s1 \o s2
           g == UpdateEdges(z.g, s)
<1>1. BoundVertex(z, i) = [z EXCEPT !.g = g]
  BY DEF BoundVertex, UpdateEdges
<1>2. \A w \in W : w[0] = 0 /\ w[Fresh] \in Int
  BY ValuationFacts
<1>3. i.lb.n \in Int /\ i.ub.n \in Int
  BY DEF Proper, Bounds
<1>4. ~ i.lb.inf => lo \in B
  <2> SUFFICES ASSUME ~ i.lb.inf PROVE lo \in B
    OBVIOUS
  <2>1. lo \in V \X Int \X V /\ lo[1] = Fresh /\ lo[2] = - i.lb.n /\ lo[3] = 0
    BY <1>3
  <2>2. \A w \in W : w[0] - w[Fresh] <= - i.lb.n
    BY <1>2, <1>3 DEF Holds
  <2> HIDE DEF lo
  <2> QED
    BY <2>1, <2>2
<1>5. ~ i.ub.inf => up \in B
  <2> SUFFICES ASSUME ~ i.ub.inf PROVE up \in B
    OBVIOUS
  <2>1. up \in V \X Int \X V /\ up[1] = 0 /\ up[2] = i.ub.n /\ up[3] = Fresh
    BY <1>3
  <2>2. \A w \in W : w[Fresh] - w[0] <= i.ub.n
    BY <1>2, <1>3 DEF Holds
  <2> HIDE DEF up
  <2> QED
    BY <2>1, <2>2
<1>6. \A a \in Gr(V, W) : \A c \in B : update_edge(a, c[1], c[2], c[3]) \in Gr(V, W)
  <2> TAKE a \in Gr(V, W)
  <2> TAKE c \in B
  <2>1. c[1] \in V /\ c[2] \in Int /\ c[3] \in V /\ \A w \in W : w[c[3]] - w[c[1]] <= c[2]
    OBVIOUS
  <2> HIDE DEF B
  <2> QED
    BY <2>1, SetEdgeGr
<1> HIDE DEF B, lo, up
<1>7. s1 \in Seq(B) /\ s2 \in Seq(B)
  BY <1>4, <1>5
<1>8. s \in Seq(B)
  <2> HIDE DEF s1, s2
  <2> QED
    BY <1>7
<1> HIDE DEF s
<1>9. Len(s) \in Nat /\ DOMAIN s = 1..Len(s) /\ \A j \in 1..Len(s) : s[j] \in B
  BY <1>8
<1>10. g \in Gr(V, W)
  BY <1>6, <1>9, UpdateEdgesWithin
<1> QED
  BY <1>1, <1>10

(* The whole assignment when the expression has relations to variables.      *)
LEMMA AssignRelational ==
  ASSUME NEW Q \in SUBSET Valuations, NEW z \in Zone(Q), NEW x \in Vars, NEW e, IsLinear(e),
         NEW lbs, RelativeBounds(lbs, e, With(Q, z.p), FALSE),
         NEW ubs, RelativeBounds(ubs, e, With(Q, z.p), TRUE),
         NEW i, Proper(i), \A w \in With(Q, z.p) : Holds(i, Val(e, w))
  PROVE  Rename(havoc(BoundVertex(CloseVertex(NewVertex(z, e, lbs, ubs)), i), x), x) \in Zone(Assigned(Q, x, e))
<1> DEFINE S == DOMAIN lbs \cup DOMAIN ubs
           zz == FoldLeft(get_vert, z, InOrder(S))
           V == DOMAIN zz.p
           V1 == V \cup {Fresh}
           W == With(Q, zz.p)
           W1 == Assigned(W, Fresh, e)
           n == z.p[0] + eval_expression(z, e)
           p1 == [v \in {Fresh} |-> n] ++ zz.p
           lo == [d \in {Fresh} \X (DOMAIN lbs) |-> - lbs[d[2]]]
           up == [s \in (DOMAIN ubs) \X {Fresh} |-> ubs[s[1]]]
           g1 == apply_delta(zz.g, lo ++ up)
           z1 == [ok |-> zz.ok, g |-> g1, p |-> p1]
           g2 == apply_delta(g1, close_after_assign(SubGraph(g1, 0), p1, Fresh))
           z2 == [ok |-> zz.ok, g |-> g2, p |-> p1]
           R == Assigned(Q, x, e)
<1>1. S \in SUBSET Vars /\ lbs \in [DOMAIN lbs -> Int] /\ ubs \in [DOMAIN ubs -> Int]
  BY DEF RelativeBounds
<1>2. /\ zz \in Zone(Q) /\ S \subseteq DOMAIN zz.p
      /\ zz.g = z.g /\ zz.ok = z.ok /\ Model(zz.p) = Model(z.p) /\ zz.p[0] = z.p[0]
  <2> HIDE DEF S
  <2> QED
    BY <1>1, AddVerticesSound
<1>3. NewVertex(z, e, lbs, ubs) = [zz EXCEPT !.p = [v \in {Fresh} |-> n] ++ @, !.g = apply_delta(@, lo ++ up)]
  <2> HIDE DEF zz, n, lo, up
  <2>1. Let(zz, LAMBDA y : [y EXCEPT !.p = [v \in {Fresh} |-> n] ++ @, !.g = apply_delta(@, lo ++ up)])
          = [zz EXCEPT !.p = [v \in {Fresh} |-> n] ++ @, !.g = apply_delta(@, lo ++ up)]
    BY DEF Let
  <2> QED
    BY <2>1 DEF NewVertex, zz, n, lo, up, S
<1>4. /\ zz.p \in Potentials /\ V \in SUBSET Live /\ V \in SUBSET Verts /\ zz.p \in [V -> Int]
      /\ 0 \in V /\ zz.ok \in BOOLEAN /\ (Q # {} => zz.ok)
      /\ zz.g \in Gr(V, W) /\ W \in SUBSET Valuations
      /\ zz = [ok |-> zz.ok, g |-> zz.g, p |-> zz.p]
  <2> HIDE DEF zz
  <2> QED
    BY <1>2, ZoneElim
<1>5. W = With(Q, z.p) /\ Model(zz.p) \in W /\ Q \subseteq W
  BY <1>2 DEF With
<1> HIDE DEF zz
<1>6. NewVertex(z, e, lbs, ubs) = z1
  BY <1>3, <1>4
<1>7. CloseVertex(NewVertex(z, e, lbs, ubs)) = z2
  <2>1. CloseVertex(z1) = z2
    <3> HIDE DEF g1, p1
    <3> QED
      BY DEF CloseVertex
  <2> QED
    BY <1>6, <2>1
<1>8. /\ Fresh \in Verts /\ Fresh # 0 /\ Fresh \notin V /\ V1 \in SUBSET Verts /\ Fresh \in V1 /\ 0 \in V1
      /\ Fresh # x /\ x # 0 /\ x \in Live
  BY <1>4, LiveFacts, VertFacts
<1>9. n \in Int /\ n - zz.p[0] = Val(e, Model(zz.p))
  <2>1. eval_expression(z, e) = Val(e, Model(zz.p)) /\ eval_expression(z, e) \in Int
    BY <1>2, EvalExpressionIsVal
  <2>2. z.p[0] \in Int
    BY <1>2, <1>4
  <2> QED
    BY <1>2, <2>1, <2>2
<1>10. p1 \in [V1 -> Int] /\ DOMAIN p1 = V1 /\ p1[Fresh] = n /\ \A v \in V : p1[v] = zz.p[v]
  BY <1>4, <1>8, <1>9 DEF ++
<1>11. /\ W1 \in SUBSET Valuations
       /\ \A w1 \in W1 : \E w \in W : w1[Fresh] = Val(e, w) /\ \A u \in Verts \ {Fresh} : w1[u] = w[u]
       /\ \A w \in W : \E w1 \in W1 : w1[Fresh] = Val(e, w) /\ \A u \in Verts \ {Fresh} : w1[u] = w[u]
  <2> HIDE DEF W
  <2> QED
    <3>1. AreAssigned(W1, W, Fresh, e)
      BY <1>4, <1>8, AssignedFacts
    <3> HIDE DEF W1
    <3> QED
      BY <3>1 DEF AreAssigned
<1> HIDE DEF W1, V, W, p1, n
<1>12. V \subseteq Verts \ {Fresh} /\ V \subseteq V1
  BY <1>4, <1>8
<1>13. g1 \in Gr(V1, W1)
  <2>1. zz.g \in Gr(V, W1)
    <3>1. \A w1 \in W1 : \E w \in W : \A u \in V : w1[u] = w[u]
      BY <1>11, <1>12
    <3> QED
      BY <1>4, <3>1, GrAgree
  <2>2. zz.g \in Gr(V1, W1)
    BY <1>12, <2>1, GrMono
  <2>3. DOMAIN lbs \in SUBSET V1 /\ DOMAIN ubs \in SUBSET V1 /\ DOMAIN lbs \in SUBSET Verts \ {Fresh} /\ DOMAIN ubs \in SUBSET Verts \ {Fresh}
    BY <1>1, <1>2, <1>12 DEF V
  <2>4. \A y \in DOMAIN lbs : \A w1 \in W1 : lbs[y] <= w1[Fresh] - w1[y]
    <3>1. \A y \in DOMAIN lbs : \A w \in W : lbs[y] <= Val(e, w) - w[y]
      BY <1>5 DEF RelativeBounds
    <3> QED
      BY <1>11, <2>3, <3>1
  <2>5. \A y \in DOMAIN ubs : \A w1 \in W1 : w1[Fresh] - w1[y] <= ubs[y]
    <3>1. \A y \in DOMAIN ubs : \A w \in W : Val(e, w) - w[y] <= ubs[y]
      BY <1>5 DEF RelativeBounds
    <3> QED
      BY <1>11, <2>3, <3>1
  <2>6. lo \in Gr(V1, W1)
    BY <1>1, <1>8, <1>11, <2>3, <2>4, NewEdgesSound
  <2>7. up \in Gr(V1, W1)
    BY <1>1, <1>8, <1>11, <2>3, <2>5, NewEdgesSound
  <2> HIDE DEF lo, up
  <2>8. lo ++ up \in Gr(V1, W1)
    BY <2>6, <2>7, MergeGr
  <2> QED
    BY <2>2, <2>8, MergeGr DEF apply_delta
<1> HIDE DEF g1
<1>14. g2 \in Gr(V1, W1)
  <2> DEFINE U == V1 \ {0}
  <2>1. SubGraph(g1, 0) \in Gr(U, W1)
    BY <1>13, SubGraphGr
  <2>2. U \in SUBSET Verts /\ Fresh \in U /\ U \subseteq DOMAIN p1 /\ (\A u \in U : p1[u] \in Int) /\ U \subseteq V1
    BY <1>8, <1>10
  <2> HIDE DEF U
  <2>3. close_after_assign(SubGraph(g1, 0), p1, Fresh) \in Gr(U, W1)
    BY <1>11, <2>1, <2>2, CloseAssignSound
  <2>4. close_after_assign(SubGraph(g1, 0), p1, Fresh) \in Gr(V1, W1)
    BY <2>2, <2>3, GrMono
  <2> QED
    BY <1>13, <2>4, MergeGr DEF apply_delta
<1> HIDE DEF g2
<1>15. PICK g3 \in Gr(V1, W1) : BoundVertex(z2, i) = [z2 EXCEPT !.g = g3]
  <2>1. \A w1 \in W1 : Holds(i, w1[Fresh])
    BY <1>5, <1>11
  <2>2. z2.g \in Gr(V1, W1)
    BY <1>14
  <2> HIDE DEF z2, V1
  <2> QED
    BY <1>8, <1>11, <2>1, <2>2, BoundVertexSound
<1> DEFINE z3 == [ok |-> zz.ok, g |-> g3, p |-> p1]
           V4 == V1 \ {x}
           g4 == IF x \in V1 THEN SubGraph(g3, x) ELSE g3
           p4 == [v \in V4 |-> p1[v]]
           z4 == [ok |-> zz.ok, g |-> g4, p |-> p4]
<1>16. BoundVertex(z2, i) = z3
  BY <1>15
<1>17. havoc(z3, x) = z4
  <2>1. CASE x \in V1
    BY <1>10, <2>1 DEF havoc
  <2>2. CASE x \notin V1
    <3>1. V4 = V1 /\ p1 = p4
      BY <1>10, <2>2
    <3>2. z3.p = p1
      OBVIOUS
    <3> HIDE DEF z3
    <3>3. havoc(z3, x) = z3
      BY <1>10, <2>2, <3>2 DEF havoc
    <3> QED
      BY <2>2, <3>1, <3>3 DEF z3
  <2> QED
    BY <2>1, <2>2
<1>18. g4 \in Gr(V4, W1) /\ V4 \in SUBSET Verts /\ x \notin V4
  <2>1. V4 \in SUBSET Verts /\ x \notin V4
    BY <1>8
  <2>2. CASE x \in V1
    BY <2>1, <2>2, SubGraphGr
  <2>3. CASE x \notin V1
    <3>1. V4 = V1
      BY <2>3
    <3> QED
      BY <2>1, <2>3, <3>1
  <2> QED
    BY <2>2, <2>3
<1>19. DOMAIN p4 = V4 /\ (\A v \in V4 : p4[v] = p1[v] /\ p4[v] \in Int) /\ 0 \in V4 /\ Fresh \in V4
       /\ (\A v \in V4 : v = Fresh \/ v \in V)
  BY <1>8, <1>10
<1> DEFINE V5 == {NameOf(u, x) : u \in V4}
           g5 == Renamed(g4, x)
           p5 == [v \in V5 |-> p4[VertOf(v, x)]]
<1>20. Rename(z4, x) = [ok |-> zz.ok, g |-> g5, p |-> p5]
  <2>1. z4.g = g4 /\ z4.p = p4 /\ DOMAIN p4 = V4
    BY <1>19
  <2> HIDE DEF g4, p4, V4
  <2>2. z4 = [ok |-> zz.ok, g |-> g4, p |-> p4]
    OBVIOUS
  <2> QED
    BY <2>1, <2>2, RenameParts
<1> HIDE DEF g4, p4, V4, V1
<1>21. \A u \in V4 : NameOf(u, x) \in V5 /\ VertOf(NameOf(u, x), x) = u
  BY <1>18 DEF NameOf, VertOf
<1>22. /\ DOMAIN p5 = V5 /\ p5 \in [V5 -> Int] /\ V5 \in SUBSET Live /\ 0 \in V5
       /\ \A u \in V4 : p5[NameOf(u, x)] = p4[u]
  <2>1. \A v \in V5 : \E u \in V4 : v = NameOf(u, x)
    OBVIOUS
  <2>2. V5 \in SUBSET Live
    BY <1>4, <1>8, <1>19, <2>1 DEF NameOf
  <2>3. 0 \in V5
    BY <1>8, <1>19, <1>21 DEF NameOf
  <2>4. \A u \in V4 : p5[NameOf(u, x)] = p4[u]
    BY <1>21
  <2>5. \A v \in V5 : p5[v] \in Int
    BY <1>19, <2>1, <2>4
  <2> HIDE DEF V5
  <2> QED
    BY <2>2, <2>3, <2>4, <2>5
<1> HIDE DEF V5, p5
<1>23. p5 \in Potentials
  BY <1>22, PotentialIntro
<1>24. R \in SUBSET Valuations
       /\ \A r \in R : \E q \in Q : r[x] = Val(e, q) /\ \A u \in Verts \ {x} : r[u] = q[u]
  <2>1. x \in Verts
    BY VertFacts
  <2>2. AreAssigned(R, Q, x, e)
    BY <1>8, <2>1, AssignedFacts
  <2> HIDE DEF R
  <2> QED
    BY <2>2 DEF AreAssigned
<1> HIDE DEF R
<1>25. ASSUME NEW r \in With(R, p5)
       PROVE  \E w1 \in W1 : \A u \in V4 : r[NameOf(u, x)] = w1[u]
  <2>1. CASE r \in R
    <3>1. PICK q \in Q : r[x] = Val(e, q) /\ \A u \in Verts \ {x} : r[u] = q[u]
      BY <1>24, <2>1
    <3>2. PICK w1 \in W1 : w1[Fresh] = Val(e, q) /\ \A u \in Verts \ {Fresh} : w1[u] = q[u]
      BY <1>5, <1>11
    <3>3. \A u \in V4 : r[NameOf(u, x)] = w1[u]
      BY <1>18, <3>1, <3>2 DEF NameOf
    <3> QED
      BY <3>3
  <2>2. CASE r = Model(p5)
    <3>1. PICK w1 \in W1 : w1[Fresh] = Val(e, Model(zz.p)) /\ \A u \in Verts \ {Fresh} : w1[u] = Model(zz.p)[u]
      BY <1>5, <1>11
    <3>2. ASSUME NEW u \in V4 PROVE r[NameOf(u, x)] = w1[u]
      <4>1. r[NameOf(u, x)] = p5[NameOf(u, x)] - p5[0]
        BY <1>21, <1>22, <1>23, <2>2, ModelFacts
      <4>2. p5[NameOf(u, x)] = p1[u]
        BY <1>19, <1>22
      <4>3. p5[0] = zz.p[0]
        <5>1. NameOf(0, x) = 0
          BY <1>8 DEF NameOf
        <5>2. p5[0] = p1[0]
          BY <1>19, <1>22, <5>1
        <5> QED
          BY <1>4, <1>10, <5>2
      <4>4. CASE u = Fresh
        BY <1>9, <1>10, <3>1, <4>1, <4>2, <4>3, <4>4
      <4>5. CASE u # Fresh
        <5>1. u \in V
          BY <1>19, <4>5
        <5>2. Model(zz.p)[u] = zz.p[u] - zz.p[0]
          BY <1>4, <5>1, ModelFacts DEF V
        <5>3. w1[u] = Model(zz.p)[u]
          BY <1>12, <3>1, <5>1
        <5> QED
          BY <1>10, <4>1, <4>2, <4>3, <5>1, <5>2, <5>3
      <4> QED
        BY <4>4, <4>5
    <3> QED
      BY <3>1, <3>2
  <2> QED
    BY <2>1, <2>2 DEF With
<1>26. g5 \in Gr(V5, With(R, p5))
  BY <1>11, <1>18, <1>21, <1>25, RenamedGr
<1> HIDE DEF g5
<1>27. [ok |-> zz.ok, g |-> g5, p |-> p5] \in Zone(R)
  <2>1. R # {} => zz.ok
    BY <1>4, <1>24
  <2> QED
    BY <1>4, <1>22, <1>23, <1>24, <1>26, <2>1, ZoneIntro
<1>28. Rename(havoc(BoundVertex(CloseVertex(NewVertex(z, e, lbs, ubs)), i), x), x)
         = [ok |-> zz.ok, g |-> g5, p |-> p5]
  <2> HIDE DEF z1, z2, z3, z4
  <2> QED
    BY <1>7, <1>16, <1>17, <1>20
<1> QED
  BY <1>27, <1>28 DEF R

LEMMA AssignSound ==
  ASSUME NEW Q \in SUBSET Valuations, NEW z \in Zone(Q), NEW x \in Vars, NEW e, IsLinear(e)
  PROVE  assign(z, x, e) \in Zone(Assigned(Q, x, e))
<1> DEFINE i == eval_interval(z, e)
           lbs == diffcsts_of_assign(z, e, FALSE)
           ubs == diffcsts_of_assign(z, e, TRUE)
           plain == is_singleton(i) \/ (lbs = <<>> /\ ubs = <<>>)
           rel == Rename(havoc(BoundVertex(CloseVertex(NewVertex(z, e, lbs, ubs)), i), x), x)
<1>1. assign(z, x, e) = IF plain THEN set(z, x, i) ELSE rel
  <2> DEFINE A(value, ls, us) ==
        IF is_singleton(value) \/ (ls = <<>> /\ us = <<>>) THEN set(z, x, value)
        ELSE Let(Let(Let(NewVertex(z, e, ls, us), CloseVertex),
                     LAMBDA zz : havoc(BoundVertex(zz, value), x)),
                 LAMBDA zz : Rename(zz, x))
             rec == [value |-> i, lbs |-> lbs, ubs |-> ubs]
  <2>1. assign(z, x, e) = Let(rec, LAMBDA r : A(r.value, r.lbs, r.ubs))
    BY DEF assign
  <2>2. rec.value = i /\ rec.lbs = lbs /\ rec.ubs = ubs
    OBVIOUS
  <2>3. Let(rec, LAMBDA r : A(r.value, r.lbs, r.ubs)) = A(rec.value, rec.lbs, rec.ubs)
    <3> HIDE DEF rec, A
    <3> QED
      BY DEF Let
  <2>4. A(i, lbs, ubs) = IF plain THEN set(z, x, i) ELSE rel
    <3> HIDE DEF i, lbs, ubs
    <3> DEFINE z1 == NewVertex(z, e, lbs, ubs)
               z2 == CloseVertex(z1)
               z3 == havoc(BoundVertex(z2, i), x)
    <3>1. Let(z1, CloseVertex) = z2
      <4> HIDE DEF z1
      <4> QED
        BY DEF Let
    <3>2. Let(z2, LAMBDA zz : havoc(BoundVertex(zz, i), x)) = z3
      <4> HIDE DEF z2
      <4> QED
        BY DEF Let
    <3>3. Let(z3, LAMBDA zz : Rename(zz, x)) = rel
      <4>1. rel = Rename(z3, x)
        OBVIOUS
      <4> HIDE DEF z3, rel
      <4> QED
        BY <4>1 DEF Let
    <3> HIDE DEF rel, z3
    <3> QED
      BY <3>1, <3>2, <3>3
  <2> HIDE DEF A, rec
  <2> QED
    BY <2>1, <2>2, <2>3, <2>4
<1>2. Proper(i) /\ \A w \in With(Q, z.p) : Holds(i, Val(e, w))
  BY EvalIntervalSound
<1>3. RelativeBounds(lbs, e, With(Q, z.p), FALSE) /\ RelativeBounds(ubs, e, With(Q, z.p), TRUE)
  BY DiffcstsOfAssignSound
<1> HIDE DEF i, lbs, ubs
<1>4. CASE plain
  <2> DEFINE R == Assigned(Q, x, e)
             n == Val(e, Model(z.p))
  <2>1. /\ R \in SUBSET Valuations /\ AgreesOff(R, Q, x)
        /\ \A r \in R : \E q \in Q : r[x] = Val(e, q)
    <3>1. x \in Verts /\ x # 0
      BY VertFacts
    <3>2. AreAssigned(R, Q, x, e)
      BY <3>1, AssignedFacts
    <3> HIDE DEF R
    <3> QED
      BY <3>2 DEF AreAssigned
  <2>2. Model(z.p) \in With(Q, z.p) /\ Model(z.p) \in Valuations /\ Q \subseteq With(Q, z.p)
    BY ZoneElim DEF With
  <2>3. n \in Int /\ Holds(i, n)
    BY <1>2, <2>2, ValSum
  <2>4. \A r \in R : Holds(i, r[x])
    BY <1>2, <2>1, <2>2
  <2> HIDE DEF R, n
  <2>5. set(z, x, i) \in Zone(R)
    BY <1>2, <2>1, <2>3, <2>4, SetSound
  <2> QED
    BY <1>1, <1>4, <2>5 DEF R
<1>5. CASE ~ plain
  <2>1. rel \in Zone(Assigned(Q, x, e))
    BY <1>2, <1>3, AssignRelational
  <2> HIDE DEF rel
  <2> QED
    BY <1>1, <1>5, <2>1
<1> QED
  BY <1>4, <1>5

-----------------------------------------------------------------------------
(* Adding an inequality. *)

LEMMA SumNonnegative ==
  ASSUME NEW S, IsFiniteSet(S), NEW f, IntOn(f, S), \A x \in S : 0 <= f[x]
  PROVE  0 <= SumFunctionOnSet(f, S)
<1> DEFINE F(A) == SumFunctionOnSet(f, A)
           P == {A \in SUBSET S : 0 <= F(A)}
<1>1. \A x \in S : f[x] \in Int
  BY DEF IntOn
<1>2. \A A \in SUBSET S : F(A) \in Int
  BY SumStep
<1>3. {} \in P
  <2>1. F({}) = 0
    BY SumStep
  <2> QED
    BY <2>1
<1>4. \A A \in SUBSET S : \A x \in S \ A : A \in P => A \cup {x} \in P
  <2> SUFFICES ASSUME NEW A \in SUBSET S, NEW x \in S \ A, 0 <= F(A)
               PROVE  0 <= F(A \cup {x})
    OBVIOUS
  <2> DEFINE B == A \cup {x}
  <2>1. A = B \ {x} /\ B \in SUBSET S /\ x \in B
    OBVIOUS
  <2> HIDE DEF B
  <2>2. F(B) = f[x] + F(A)
    BY <2>1, SumSplit
  <2>3. 0 <= F(B)
    <3> HIDE DEF F
    <3> QED
      BY <1>1, <1>2, <2>2
  <2> QED
    BY <2>3 DEF B
<1>5. \A A \in SUBSET S : A \in P
  <2> HIDE DEF P
  <2> QED
    BY <1>3, <1>4, FiniteInduction
<1> QED
  BY <1>5

(* The sum of differences, for terms that vanish outside of T. *)
LEMMA SumDifference ==
  ASSUME NEW S, IsFiniteSet(S), NEW T \in SUBSET S, NEW f, IntOn(f, S), NEW k, IntOn(k, T),
         NEW g, \A x \in T : g[x] = f[x] - k[x], \A x \in S \ T : g[x] = f[x]
  PROVE  IntOn(g, S) /\ SumFunctionOnSet(g, S) = SumFunctionOnSet(f, S) - SumFunctionOnSet(k, T)
<1> DEFINE F(A) == SumFunctionOnSet(f, A)
           G(A) == SumFunctionOnSet(g, A)
           K(A) == SumFunctionOnSet(k, A)
           P == {A \in SUBSET S : G(A) = F(A) - K(A \cap T)}
<1>1. (\A x \in S : f[x] \in Int /\ g[x] \in Int) /\ (\A x \in T : k[x] \in Int)
  BY DEF IntOn
<1>2. IntOn(g, S) /\ IsFiniteSet(T)
  BY <1>1, FS_Subset DEF IntOn
<1>3. \A A \in SUBSET S : F(A) \in Int /\ G(A) \in Int
  BY <1>2, SumStep
<1>4. \A A \in SUBSET T : K(A) \in Int
  BY <1>2, SumStep
<1>5. {} \in P
  <2>1. F({}) = 0 /\ G({}) = 0
    BY <1>2, SumStep
  <2>2. K({}) = 0
    BY <1>2, SumStep
  <2>3. {} \cap T = {}
    OBVIOUS
  <2> HIDE DEF F, G, K
  <2> QED
    BY <2>1, <2>2, <2>3
<1>6. \A A \in SUBSET S : \A x \in S \ A : A \in P => A \cup {x} \in P
  <2> SUFFICES ASSUME NEW A \in SUBSET S, NEW x \in S \ A, G(A) = F(A) - K(A \cap T)
               PROVE  G(A \cup {x}) = F(A \cup {x}) - K((A \cup {x}) \cap T)
    OBVIOUS
  <2> DEFINE B == A \cup {x}
             AT == A \cap T
             BT == B \cap T
  <2>1. A = B \ {x} /\ B \in SUBSET S /\ x \in B /\ AT \in SUBSET T /\ BT \in SUBSET T
    OBVIOUS
  <2>11. /\ x \in T => AT = BT \ {x} /\ x \in BT
         /\ x \notin T => AT = BT
    OBVIOUS
  <2>12. G(A) = F(A) - K(AT)
    OBVIOUS
  <2> HIDE DEF B, AT, BT
  <2>2. F(B) = f[x] + F(A)
    BY <2>1, SumSplit
  <2>3. G(B) = g[x] + G(A)
    BY <1>2, <2>1, SumSplit
  <2>4. x \in T => K(BT) = k[x] + K(AT)
    BY <1>2, <2>1, <2>11, SumSplit
  <2>5. G(B) = F(B) - K(BT)
    <3> HIDE DEF F, G, K
    <3>1. F(A) \in Int /\ G(A) \in Int /\ K(AT) \in Int /\ f[x] \in Int /\ g[x] \in Int
      BY <1>1, <1>3, <1>4, <2>1
    <3>2. CASE x \in T
      <4>1. k[x] \in Int /\ g[x] = f[x] - k[x] /\ K(BT) = k[x] + K(AT)
        BY <1>1, <2>4, <3>2
      <4> QED
        BY <2>2, <2>3, <2>12, <3>1, <4>1
    <3>3. CASE x \notin T
      <4>1. g[x] = f[x] /\ BT = AT
        BY <2>11, <3>3
      <4> QED
        BY <2>2, <2>3, <2>12, <3>1, <4>1
    <3> QED
      BY <3>2, <3>3
  <2> QED
    BY <2>5 DEF B, BT
<1>7. \A A \in SUBSET S : A \in P
  <2> HIDE DEF P
  <2> QED
    BY <1>5, <1>6, FiniteInduction
<1>8. G(S) = F(S) - K(S \cap T)
  BY <1>7
<1>9. S \cap T = T
  OBVIOUS
<1> QED
  BY <1>2, <1>8, <1>9

LEMMA DivisionFacts ==
  ASSUME NEW n \in Nat, NEW t \in Int, t > 0
  PROVE  n \div t \in Nat /\ t * (n \div t) <= n /\ n < t * (n \div t) + t
  OBVIOUS

LEMMA QuotientUpper ==
  ASSUME NEW t \in Int, t > 0, NEW m \in Int, NEW b \in Int, t * m <= b
  PROVE  Quotient(b, t) \in Int /\ m <= Quotient(b, t)
<1>0. Abs(t) = t /\ ~ (t < 0)
  BY DEF Abs
<1>1. CASE b >= 0
  <2> DEFINE d == b \div t
  <2>1. d \in Nat /\ t * d <= b /\ b < t * d + t
    BY <1>1, DivisionFacts
  <2>2. Quotient(b, t) = d
    BY <1>0, <1>1 DEF Quotient, Abs
  <2> HIDE DEF d
  <2>3. m <= d
    <3> SUFFICES ASSUME m >= d + 1 PROVE FALSE
      BY <2>1
    <3>1. t * (d + 1) <= t * m
      BY <2>1, MulMono
    <3>2. t * (d + 1) = t * d + t
      BY <2>1
    <3> QED
      BY <2>1, <3>1, <3>2
  <2> QED
    BY <2>1, <2>2, <2>3
<1>2. CASE b < 0
  <2> DEFINE n == - b
             d == n \div t
  <2>0. n \in Nat
    BY <1>2
  <2>1. d \in Nat /\ t * d <= n /\ n < t * d + t
    BY <2>0, DivisionFacts
  <2>2. Quotient(b, t) = - d
    BY <1>0, <1>2 DEF Quotient, Abs
  <2> HIDE DEF d
  <2>3. m <= - d
    <3> SUFFICES ASSUME m >= - d + 1 PROVE FALSE
      BY <2>1
    <3>1. t * (- d + 1) <= t * m
      BY <2>1, MulMono
    <3>2. t * (- d + 1) = - (t * d) + t
      BY <2>1
    <3> QED
      BY <2>1, <3>1, <3>2
  <2> QED
    BY <2>1, <2>2, <2>3
<1> QED
  BY <1>1, <1>2

LEMMA QuotientLower ==
  ASSUME NEW t \in Int, t < 0, NEW m \in Int, NEW b \in Int, t * m <= b
  PROVE  Quotient(- b, - t) \in Int /\ Quotient(- b, - t) <= m
<1> DEFINE s == - t
           n == - m
<1>1. s \in Int /\ s > 0 /\ n \in Int /\ s * n <= b
  OBVIOUS
<1>2. Quotient(b, s) \in Int /\ n <= Quotient(b, s)
  <2> HIDE DEF s, n
  <2> QED
    BY <1>1, QuotientUpper
<1>3. Quotient(- b, s) = - Quotient(b, s)
  <2>1. CASE b = 0
    <3>1. 0 \div s = 0
      BY <1>1
    <3> QED
      BY <1>1, <2>1, <3>1 DEF Quotient, Abs
  <2>2. CASE b # 0
    <3> DEFINE d == Abs(b) \div Abs(s)
    <3>1. Abs(- b) = Abs(b) /\ ((- b < 0) <=> ~ (b < 0)) /\ ~ (s < 0)
      BY <1>1, <2>2 DEF Abs
    <3>2. d \in Nat
      <4>1. Abs(b) \in Nat /\ Abs(s) \in Int /\ Abs(s) > 0
        BY <1>1 DEF Abs
      <4> QED
        BY <4>1, DivisionFacts
    <3>3. Quotient(b, s) = IF b < 0 THEN - d ELSE d
      BY <3>1 DEF Quotient
    <3>4. Quotient(- b, s) = IF b < 0 THEN d ELSE - d
      BY <3>1 DEF Quotient
    <3> HIDE DEF d
    <3> QED
      BY <3>2, <3>3, <3>4
  <2> QED
    BY <2>1, <2>2
<1> HIDE DEF s
<1>4. Quotient(- b, s) \in Int /\ Quotient(- b, s) <= m
  BY <1>2, <1>3
<1> QED
  BY <1>4 DEF s

(* Sequences of bounds and of differences that hold. *)
LowerBounds(Q) == {b \in [v : Vars, n : Int] : LowerHolds(Q, b)}
UpperBoundsOf(Q) == {b \in [v : Vars, n : Int] : UpperHolds(Q, b)}
Differences(Q) == {c \in [x : Vars, y : Vars, n : Int] : DifferenceHolds(Q, c)}

IsSequence(s, T) == \E n \in Nat : s \in [1..n -> T]

LEMMA EmptySequence ==
  ASSUME NEW T
  PROVE  IsSequence(<<>>, T)
<1>1. <<>> \in [1..0 -> T] /\ 0 \in Nat
  OBVIOUS
<1> QED
  BY <1>1 DEF IsSequence

(* What diffcsts_of_lin_leq derives from one valuation: the excesses over   *)
(* the known bounds add up to at most E.                                    *)
Excess(t, share, q) == [y \in DOMAIN t |-> t[y] * (q[y] - share[y])]

ExcessBounded(t, S, share, q, E, free) ==
  /\ \A x \in S : free \subseteq {x} => t[x] * (q[x] - share[x]) <= E
  /\ \A x \in S : \A y \in S : x # y /\ free \subseteq {x, y} =>
       t[x] * (q[x] - share[x]) + t[y] * (q[y] - share[y]) <= E

LEMMA ExcessBound ==
  ASSUME NEW t, NEW S, S = DOMAIN t, IsFiniteSet(S), \A y \in S : t[y] \in Int /\ t[y] # 0,
         NEW q, \A y \in S : q[y] \in Int,
         NEW share, \A y \in S : share[y] \in Int,
         NEW E \in Int, SumFunctionOnSet(Excess(t, share, q), S) <= E,
         NEW free \in SUBSET S, \A y \in S \ free : t[y] * (q[y] - share[y]) >= 0
  PROVE  ExcessBounded(t, S, share, q, E, free)
<1> DEFINE u == Excess(t, share, q)
           F(A) == SumFunctionOnSet(u, A)
<1>1. \A y \in S : u[y] = t[y] * (q[y] - share[y]) /\ u[y] \in Int
  BY DEF Excess
<1>2. IntOn(u, S)
  BY <1>1 DEF IntOn
<1> HIDE DEF u
<1>3. ASSUME NEW A \in SUBSET S, A \cap free = {}
      PROVE  F(A) \in Int /\ 0 <= F(A)
  <2>1. IsFiniteSet(A) /\ IntOn(u, A) /\ \A y \in A : 0 <= u[y]
    BY <1>1, <1>3, FS_Subset DEF IntOn
  <2>2. 0 <= F(A)
    BY <2>1, SumNonnegative
  <2>3. F(A) \in Int
    BY <1>2, SumStep
  <2> QED
    BY <2>2, <2>3
<1>4. ASSUME NEW x \in S, free \subseteq {x}
      PROVE  u[x] <= E
  <2> DEFINE A == S \ {x}
  <2>1. A \in SUBSET S /\ A \cap free = {} /\ A = S \ {x} /\ S \in SUBSET S
    BY <1>4
  <2> HIDE DEF A
  <2>2. F(S) = u[x] + F(A)
    BY <1>2, <2>1, SumSplit
  <2>3. F(A) \in Int /\ 0 <= F(A)
    BY <1>3, <2>1
  <2>4. F(S) <= E
    BY DEF u
  <2> HIDE DEF F
  <2> QED
    BY <1>1, <2>2, <2>3, <2>4
<1>5. ASSUME NEW x \in S, NEW y \in S, x # y, free \subseteq {x, y}
      PROVE  u[x] + u[y] <= E
  <2> DEFINE A == S \ {x}
             B == A \ {y}
  <2>1. /\ A \in SUBSET S /\ A = S \ {x} /\ S \in SUBSET S
        /\ B \in SUBSET S /\ B = A \ {y} /\ y \in A /\ B \cap free = {}
    BY <1>5
  <2> HIDE DEF A, B
  <2>2. F(S) = u[x] + F(A)
    BY <1>2, <2>1, SumSplit
  <2>3. F(A) = u[y] + F(B)
    BY <1>2, <2>1, SumSplit
  <2>4. F(B) \in Int /\ 0 <= F(B)
    BY <1>3, <2>1
  <2>5. F(S) <= E
    BY DEF u
  <2> HIDE DEF F
  <2> QED
    BY <1>1, <2>2, <2>3, <2>4, <2>5
<1> QED
  BY <1>1, <1>4, <1>5 DEF ExcessBounded

(* x - y <= n from the excesses of x and y. *)
LEMMA PairBound ==
  ASSUME NEW tx \in Int, tx > 0, NEW ty \in Int, ty < 0, NEW dx \in Int, NEW dy \in Int, NEW E \in Int,
         tx * dx + ty * dy <= E, tx = 1 \/ dx >= 0, ty = -1 \/ dy <= 0
  PROVE  dx - dy <= E
<1>1. dx <= tx * dx
  <2>1. CASE tx = 1
    BY <2>1
  <2>2. CASE dx >= 0
    <3>1. tx - 1 \in Int /\ (tx - 1 > 0 => (tx - 1) * 0 <= (tx - 1) * dx)
      BY <2>2, MulMono
    <3> QED
      BY <3>1
  <2> QED
    BY <2>1, <2>2
<1>2. - dy <= ty * dy
  <2>1. CASE ty = -1
    BY <2>1
  <2>2. CASE dy <= 0
    <3>1. ty + 1 \in Int /\ (ty + 1 < 0 => (ty + 1) * 0 <= (ty + 1) * dy)
      BY <2>2, MulMono
    <3> QED
      BY <3>1
  <2> QED
    BY <2>1, <2>2
<1> DEFINE a == tx * dx
           b == ty * dy
<1>3. a \in Int /\ b \in Int /\ a + b <= E /\ dx <= a /\ - dy <= b
  BY <1>1, <1>2
<1> HIDE DEF a, b
<1> QED
  BY <1>3

(* The parts of diffcsts_of_lin_leq. *)
Positive(e) == {y \in DOMAIN e.t : e.t[y] > 0}
Negative(e) == DOMAIN e.t \ Positive(e)
KnownBound(z, e, y) == IF y \in Positive(e) THEN get_lb(z, y) ELSE get_ub(z, y)
FreeLower(z, e) == {y \in Positive(e) : KnownBound(z, e, y).inf}
FreeUpper(z, e) == {y \in Negative(e) : KnownBound(z, e, y).inf}
Free(z, e) == FreeLower(z, e) \cup FreeUpper(z, e)
BoundedPart(z, e) == SumFunction([y \in DOMAIN e.t \ Free(z, e) |-> e.t[y] * KnownBound(z, e, y).n])
ExpUb(z, e) == - e.c - BoundedPart(z, e)
ShareOf(z, e, y) == IF KnownBound(z, e, y).inf THEN 0 ELSE KnownBound(z, e, y).n
PairSet(z, e, X, Y) == {[x |-> x, y |-> y, n |-> ExpUb(z, e) + ShareOf(z, e, x) - ShareOf(z, e, y)] : x \in X, y \in Y}
PairKeys(z, e, X, Y) == [c \in PairSet(z, e, X, Y) |-> c.y * NumVars + c.x]
PairsOf(z, e, X, Y) == SortedBy(PairSet(z, e, X, Y), PairKeys(z, e, X, Y))
LowersOf(z, e, Y) ==
  [n \in 1..Cardinality(Y) |->
     [v |-> InOrder(Y)[n], n |-> Quotient(- ExpUb(z, e), - e.t[InOrder(Y)[n]]) + ShareOf(z, e, InOrder(Y)[n])]]
UppersOf(z, e, X) ==
  [n \in 1..Cardinality(X) |->
     [v |-> InOrder(X)[n], n |-> Quotient(ExpUb(z, e), e.t[InOrder(X)[n]]) + ShareOf(z, e, InOrder(X)[n])]]
UnitCoefficients(e, S) == \A y \in S : Abs(e.t[y]) = 1
NoBounds == [csts |-> <<>>, lbs |-> <<>>, ubs |-> <<>>]

LEMMA LeqParts ==
  ASSUME NEW z, NEW e
  PROVE  diffcsts_of_lin_leq(z, e) =
           IF Cardinality(FreeLower(z, e)) > 1 \/ Cardinality(FreeUpper(z, e)) > 1 THEN NoBounds
           ELSE IF FreeLower(z, e) # {} /\ FreeUpper(z, e) # {}
             THEN IF UnitCoefficients(e, Free(z, e))
                    THEN [NoBounds EXCEPT !.csts = PairsOf(z, e, FreeLower(z, e), FreeUpper(z, e))]
                    ELSE NoBounds
           ELSE IF FreeLower(z, e) # {}
             THEN [csts |-> IF UnitCoefficients(e, FreeLower(z, e)) THEN PairsOf(z, e, FreeLower(z, e), Negative(e)) ELSE <<>>,
                   lbs |-> <<>>, ubs |-> UppersOf(z, e, FreeLower(z, e))]
           ELSE IF FreeUpper(z, e) # {}
             THEN [csts |-> IF UnitCoefficients(e, FreeUpper(z, e)) THEN PairsOf(z, e, Positive(e), FreeUpper(z, e)) ELSE <<>>,
                   lbs |-> LowersOf(z, e, FreeUpper(z, e)), ubs |-> <<>>]
           ELSE [csts |-> PairsOf(z, e, Positive(e), Negative(e)), lbs |-> LowersOf(z, e, Negative(e)),
                 ubs |-> UppersOf(z, e, Positive(e))]
  BY DEF diffcsts_of_lin_leq, Positive, Negative, KnownBound, FreeLower, FreeUpper, Free, BoundedPart, ExpUb,
         ShareOf, PairSet, PairKeys, PairsOf, LowersOf, UppersOf, UnitCoefficients, NoBounds

LEMMA ShareFacts ==
  ASSUME NEW Q \in SUBSET Valuations, NEW z \in Zone(Q), NEW e, IsLinear(e)
  PROVE  /\ Positive(e) \in SUBSET DOMAIN e.t /\ Negative(e) \in SUBSET DOMAIN e.t
         /\ Free(z, e) \in SUBSET DOMAIN e.t
         /\ \A y \in Positive(e) : e.t[y] > 0
         /\ \A y \in Negative(e) : e.t[y] < 0
         /\ \A y \in DOMAIN e.t : ShareOf(z, e, y) \in Int
         /\ \A y \in DOMAIN e.t \ Free(z, e) : KnownBound(z, e, y).n = ShareOf(z, e, y)
         /\ \A y \in Free(z, e) : ShareOf(z, e, y) = 0
         /\ \A y \in Positive(e) \ Free(z, e) : \A q \in Q : ShareOf(z, e, y) <= q[y]
         /\ \A y \in Negative(e) \ Free(z, e) : \A q \in Q : q[y] <= ShareOf(z, e, y)
         /\ IntOn([y \in DOMAIN e.t \ Free(z, e) |-> e.t[y] * KnownBound(z, e, y).n], DOMAIN e.t \ Free(z, e))
         /\ BoundedPart(z, e) = SumFunctionOnSet([y \in DOMAIN e.t \ Free(z, e) |-> e.t[y] * KnownBound(z, e, y).n], DOMAIN e.t \ Free(z, e))
         /\ BoundedPart(z, e) \in Int /\ ExpUb(z, e) \in Int
<1>1. e.c \in Int /\ IsFiniteSet(DOMAIN e.t) /\ \A y \in DOMAIN e.t : e.t[y] \in Int /\ e.t[y] # 0 /\ y \in Vars
  BY LinearFacts
<1>2. Q \subseteq With(Q, z.p)
  BY ZoneElim, WithFacts
<1>3. ASSUME NEW y \in DOMAIN e.t
      PROVE  /\ KnownBound(z, e, y).inf \in BOOLEAN
             /\ KnownBound(z, e, y).n \in Int
             /\ y \in Positive(e) /\ ~ KnownBound(z, e, y).inf => \A q \in Q : KnownBound(z, e, y).n <= q[y]
             /\ y \in Negative(e) /\ ~ KnownBound(z, e, y).inf => \A q \in Q : q[y] <= KnownBound(z, e, y).n
  <2>1. /\ get_lb(z, y) \in Bounds /\ get_ub(z, y) \in Bounds
        /\ ~ get_lb(z, y).inf => \A w \in With(Q, z.p) : get_lb(z, y).n <= w[y]
        /\ ~ get_ub(z, y).inf => \A w \in With(Q, z.p) : w[y] <= get_ub(z, y).n
    BY <1>1, BoundsOfZone
  <2> QED
    BY <1>2, <2>1 DEF KnownBound, Negative, Bounds
<1>4. /\ Positive(e) \in SUBSET DOMAIN e.t /\ Negative(e) \in SUBSET DOMAIN e.t
      /\ Free(z, e) \in SUBSET DOMAIN e.t
      /\ \A y \in Positive(e) : e.t[y] > 0
      /\ \A y \in Negative(e) : e.t[y] < 0
      /\ \A y \in DOMAIN e.t : y \in Free(z, e) <=> KnownBound(z, e, y).inf
  BY <1>1 DEF Positive, Negative, Free, FreeLower, FreeUpper
<1>5. /\ \A y \in DOMAIN e.t : ShareOf(z, e, y) \in Int
      /\ \A y \in DOMAIN e.t \ Free(z, e) : KnownBound(z, e, y).n = ShareOf(z, e, y)
      /\ \A y \in Free(z, e) : ShareOf(z, e, y) = 0
  BY <1>3, <1>4 DEF ShareOf
<1>6. /\ \A y \in Positive(e) \ Free(z, e) : \A q \in Q : ShareOf(z, e, y) <= q[y]
      /\ \A y \in Negative(e) \ Free(z, e) : \A q \in Q : q[y] <= ShareOf(z, e, y)
  BY <1>3, <1>4, <1>5
<1> DEFINE T == DOMAIN e.t \ Free(z, e)
           k == [y \in T |-> e.t[y] * KnownBound(z, e, y).n]
<1>7. IntOn(k, T)
  BY <1>1, <1>3 DEF IntOn
<1>8. IsFiniteSet(T) /\ T \in SUBSET T
  BY <1>1, FS_Subset
<1>9. BoundedPart(z, e) = SumFunctionOnSet(k, T)
  BY DEF BoundedPart, SumFunction
<1>10. SumFunctionOnSet(k, T) \in Int
  <2> HIDE DEF k, T
  <2> QED
    BY <1>7, <1>8, SumStep
<1>11. ExpUb(z, e) \in Int
  <2> HIDE DEF k, T
  <2> QED
    BY <1>1, <1>9, <1>10 DEF ExpUb
<1>12. IntOn(k, T) /\ BoundedPart(z, e) = SumFunctionOnSet(k, T) /\ BoundedPart(z, e) \in Int
  BY <1>7, <1>9, <1>10
<1> QED
  BY <1>4, <1>5, <1>6, <1>11, <1>12

LEMMA LeqExcess ==
  ASSUME NEW Q \in SUBSET Valuations, NEW z \in Zone(Q), NEW e, IsLinear(e), NEW q \in Q, Val(e, q) <= 0
  PROVE  /\ \A x \in DOMAIN e.t : Free(z, e) \subseteq {x} => e.t[x] * (q[x] - ShareOf(z, e, x)) <= ExpUb(z, e)
         /\ \A x \in DOMAIN e.t : \A y \in DOMAIN e.t : x # y /\ Free(z, e) \subseteq {x, y} =>
              e.t[x] * (q[x] - ShareOf(z, e, x)) + e.t[y] * (q[y] - ShareOf(z, e, y)) <= ExpUb(z, e)
<1> DEFINE t == e.t
           S == DOMAIN t
           free == Free(z, e)
           T == S \ free
           E == ExpUb(z, e)
           share == [y \in S |-> ShareOf(z, e, y)]
           k == [y \in T |-> e.t[y] * KnownBound(z, e, y).n]
           f == Products(t, S, q)
           u == Excess(t, share, q)
<1>1. e.c \in Int /\ IsFiniteSet(S) /\ S \in SUBSET Vars /\ \A y \in S : t[y] \in Int /\ t[y] # 0 /\ y \in Vars
  BY LinearFacts
<1>2. q \in Valuations
  OBVIOUS
<1>3. /\ IntOn(f, S) /\ \A y \in S : f[y] = t[y] * q[y] /\ q[y] \in Int
  <2> HIDE DEF S, t
  <2> QED
    BY <1>1, <1>2, ProductsInt
<1>4. Val(e, q) = e.c + SumFunctionOnSet(f, S) /\ SumFunctionOnSet(f, S) \in Int
  BY <1>2, ValSum
<1>5. IntOn(k, T) /\ BoundedPart(z, e) = SumFunctionOnSet(k, T) /\ BoundedPart(z, e) \in Int /\ E \in Int
  BY ShareFacts
<1>6. /\ \A y \in S : share[y] = ShareOf(z, e, y) /\ share[y] \in Int
      /\ free \in SUBSET S
      /\ \A y \in T : KnownBound(z, e, y).n = share[y]
      /\ \A y \in free : share[y] = 0
      /\ \A y \in T : (t[y] > 0 /\ share[y] <= q[y]) \/ (t[y] < 0 /\ q[y] <= share[y])
  <2>1. S = Positive(e) \cup Negative(e)
    BY DEF Positive, Negative
  <2> QED
    BY <2>1, ShareFacts
<1>7. /\ \A y \in T : u[y] = f[y] - k[y]
      /\ \A y \in S \ T : u[y] = f[y]
  <2>1. \A y \in S : u[y] = t[y] * (q[y] - share[y])
    BY DEF Excess
  <2>2. ASSUME NEW y \in T PROVE u[y] = f[y] - k[y]
    <3>1. k[y] = t[y] * share[y]
      BY <1>6
    <3>2. t[y] * (q[y] - share[y]) = t[y] * q[y] - t[y] * share[y]
      <4>1. t[y] \in Int /\ q[y] \in Int /\ share[y] \in Int
        BY <1>1, <1>3, <1>6
      <4> HIDE DEF t, share
      <4> QED
        BY <4>1
    <3> QED
      BY <1>3, <2>1, <3>1, <3>2
  <2>3. ASSUME NEW y \in S \ T PROVE u[y] = f[y]
    <3>1. share[y] = 0
      BY <1>6
    <3>2. q[y] - 0 = q[y]
      BY <1>3
    <3> QED
      BY <1>3, <2>1, <3>1, <3>2
  <2> QED
    BY <2>2, <2>3
<1>8. SumFunctionOnSet(u, S) = SumFunctionOnSet(f, S) - SumFunctionOnSet(k, T)
  <2>1. T \in SUBSET S
    OBVIOUS
  <2> HIDE DEF u, f, k, S, T
  <2> QED
    BY <1>1, <1>3, <1>5, <1>7, <2>1, SumDifference
<1>9. SumFunctionOnSet(u, S) <= E
  <2>1. E = - e.c - BoundedPart(z, e)
    BY DEF ExpUb
  <2> HIDE DEF u, f, k, S, T, E
  <2> QED
    BY <1>1, <1>4, <1>5, <1>8, <2>1
<1>10. \A y \in S \ free : t[y] * (q[y] - share[y]) >= 0
  <2> SUFFICES ASSUME NEW y \in S \ free PROVE t[y] * (q[y] - share[y]) >= 0
    OBVIOUS
  <2> DEFINE a == t[y]
             b == q[y] - share[y]
  <2>1. a \in Int /\ b \in Int /\ ((a > 0 /\ 0 <= b) \/ (a < 0 /\ b <= 0))
    <3>1. a \in Int /\ q[y] \in Int /\ share[y] \in Int
      BY <1>1, <1>3, <1>6
    <3>2. y \in T /\ ((a > 0 /\ share[y] <= q[y]) \/ (a < 0 /\ q[y] <= share[y]))
      BY <1>6
    <3> HIDE DEF a, share
    <3> QED
      BY <3>1, <3>2
  <2> HIDE DEF a, b
  <2>2. a * b >= 0
    <3>1. CASE a > 0 /\ 0 <= b
      BY <2>1, <3>1, MulMono
    <3>2. CASE a < 0 /\ b <= 0
      BY <2>1, <3>2, MulMono
    <3> QED
      BY <2>1, <3>1, <3>2
  <2> QED
    BY <2>2 DEF a, b
<1>11. ExcessBounded(t, S, share, q, E, free)
  <2>1. S = DOMAIN t /\ \A y \in S : t[y] \in Int /\ t[y] # 0
    BY <1>1
  <2>2. (\A y \in S : q[y] \in Int) /\ (\A y \in S : share[y] \in Int) /\ free \in SUBSET S
    BY <1>3, <1>6
  <2>3. IsFiniteSet(S) /\ E \in Int /\ SumFunctionOnSet(Excess(t, share, q), S) <= E
    BY <1>1, <1>5, <1>9
  <2> HIDE DEF S, t, share, free, E
  <2> QED
    BY <1>10, <2>1, <2>2, <2>3, ExcessBound
<1> QED
  BY <1>6, <1>11 DEF ExcessBounded

LEMMA UppersSound ==
  ASSUME NEW Q \in SUBSET Valuations, NEW z \in Zone(Q), NEW e, IsLinear(e), \A q \in Q : Val(e, q) <= 0,
         NEW X, X \subseteq Positive(e), \A x \in X : Free(z, e) \subseteq {x}
  PROVE  IsSequence(UppersOf(z, e, X), UpperBoundsOf(Q))
<1> DEFINE E == ExpUb(z, e)
           B(x) == [v |-> x, n |-> Quotient(E, e.t[x]) + ShareOf(z, e, x)]
<1>1. X \subseteq DOMAIN e.t /\ X \subseteq Vars /\ X \subseteq Int /\ IsFiniteSet(X) /\ E \in Int
  <2>1. X \subseteq DOMAIN e.t /\ E \in Int
    BY ShareFacts
  <2>2. IsFiniteSet(X) /\ X \subseteq Vars
    BY <2>1, LinearFacts, FS_Subset
  <2> QED
    BY <2>1, <2>2 DEF Vars
<1>2. ASSUME NEW x \in X
      PROVE  B(x) \in UpperBoundsOf(Q)
  <2> DEFINE k == e.t[x]
             s == ShareOf(z, e, x)
  <2>1. k \in Int /\ k > 0 /\ s \in Int /\ x \in Vars /\ x \in DOMAIN e.t
    BY <1>1, ShareFacts, LinearFacts
  <2>2. ASSUME NEW q \in Q
        PROVE  q[x] \in Int /\ k * (q[x] - s) <= E
    <3>1. q[x] \in Int
      BY <2>1, VertFacts, ValuationFacts
    <3>2. Free(z, e) \subseteq {x} /\ Val(e, q) <= 0
      OBVIOUS
    <3>3. k * (q[x] - s) <= E
      BY <2>1, <3>2, LeqExcess
    <3> QED
      BY <3>1, <3>3
  <2> HIDE DEF k, s, E
  <2>3. Quotient(E, k) \in Int
    <3>1. k * (- Abs(E)) <= E
      <4> DEFINE a == Abs(E)
      <4>1. a \in Int /\ - a <= E /\ 0 <= a
        BY <1>1 DEF Abs
      <4> HIDE DEF a
      <4>2. - a - k * (- a) >= 0
        <5>1. k - 1 \in Int /\ (k - 1 > 0 => (k - 1) * 0 <= (k - 1) * a)
          BY <2>1, <4>1, MulMono
        <5>2. - a - k * (- a) = (k - 1) * a
          BY <2>1, <4>1
        <5> QED
          BY <2>1, <4>1, <5>1, <5>2
      <4>3. k * (- a) \in Int
        BY <2>1, <4>1
      <4>4. k * (- a) <= E
        BY <1>1, <4>1, <4>2, <4>3
      <4> QED
        BY <4>4 DEF a
    <3>2. - Abs(E) \in Int
      BY <1>1 DEF Abs
    <3> QED
      BY <1>1, <2>1, <3>1, <3>2, QuotientUpper
  <2>4. \A q \in Q : q[x] <= Quotient(E, k) + s
    <3> SUFFICES ASSUME NEW q \in Q PROVE q[x] <= Quotient(E, k) + s
      OBVIOUS
    <3>1. q[x] - s \in Int
      BY <2>1, <2>2
    <3>2. q[x] - s <= Quotient(E, k)
      BY <1>1, <2>1, <2>2, <3>1, QuotientUpper
    <3> QED
      BY <2>1, <2>2, <2>3, <3>2
  <2>5. Quotient(E, k) + s \in Int
    BY <2>1, <2>3
  <2> DEFINE N == Quotient(E, k) + s
  <2>6. N \in Int /\ \A q \in Q : q[x] <= N
    BY <2>4, <2>5
  <2> HIDE DEF N
  <2>7. [v |-> x, n |-> N] \in UpperBoundsOf(Q)
    BY <2>1, <2>6 DEF UpperBoundsOf, UpperHolds
  <2> QED
    BY <2>7 DEF N, E, k, s
<1>3. Lists(InOrder(X), X)
  BY <1>1, InOrderFacts
<1>4. UppersOf(z, e, X) = [n \in 1..Cardinality(X) |-> B(InOrder(X)[n])]
  BY DEF UppersOf
<1>5. UppersOf(z, e, X) \in [1..Cardinality(X) -> UpperBoundsOf(Q)]
  <2> HIDE DEF B
  <2> QED
    BY <1>2, <1>3, <1>4 DEF Lists
<1> QED
  BY <1>3, <1>5 DEF IsSequence, Lists

LEMMA LowersSound ==
  ASSUME NEW Q \in SUBSET Valuations, NEW z \in Zone(Q), NEW e, IsLinear(e), \A q \in Q : Val(e, q) <= 0,
         NEW Y, Y \subseteq Negative(e), \A y \in Y : Free(z, e) \subseteq {y}
  PROVE  IsSequence(LowersOf(z, e, Y), LowerBounds(Q))
<1> DEFINE E == ExpUb(z, e)
           B(y) == [v |-> y, n |-> Quotient(- E, - e.t[y]) + ShareOf(z, e, y)]
<1>1. Y \subseteq DOMAIN e.t /\ Y \subseteq Vars /\ Y \subseteq Int /\ IsFiniteSet(Y) /\ E \in Int
  <2>1. Y \subseteq DOMAIN e.t /\ E \in Int
    BY ShareFacts
  <2>2. IsFiniteSet(Y) /\ Y \subseteq Vars
    BY <2>1, LinearFacts, FS_Subset
  <2> QED
    BY <2>1, <2>2 DEF Vars
<1>2. ASSUME NEW y \in Y
      PROVE  B(y) \in LowerBounds(Q)
  <2> DEFINE k == e.t[y]
             s == ShareOf(z, e, y)
             r == Quotient(- E, - k)
  <2>1. k \in Int /\ k < 0 /\ s \in Int /\ y \in Vars /\ y \in DOMAIN e.t
    BY <1>1, ShareFacts, LinearFacts
  <2>2. ASSUME NEW q \in Q
        PROVE  q[y] \in Int /\ k * (q[y] - s) <= E
    <3>1. q[y] \in Int
      BY <2>1, VertFacts, ValuationFacts
    <3>2. Free(z, e) \subseteq {y} /\ Val(e, q) <= 0
      OBVIOUS
    <3>3. k * (q[y] - s) <= E
      BY <2>1, <3>2, LeqExcess
    <3> QED
      BY <3>1, <3>3
  <2> HIDE DEF k, s, E
  <2>3. r \in Int
    <3> DEFINE a == Abs(E)
    <3>1. a \in Int /\ - a <= E /\ 0 <= a
      BY <1>1 DEF Abs
    <3> HIDE DEF a
    <3>2. k * a <= - a
      <4>1. k + 1 \in Int /\ (k + 1 < 0 => (k + 1) * a <= (k + 1) * 0)
        BY <2>1, <3>1, MulMono
      <4>2. k * a + a = (k + 1) * a
        BY <2>1, <3>1
      <4>3. k * a \in Int
        BY <2>1, <3>1
      <4> QED
        BY <2>1, <3>1, <4>1, <4>2, <4>3
    <3>3. k * a <= E
      <4>1. k * a \in Int
        BY <2>1, <3>1
      <4> QED
        BY <1>1, <3>1, <3>2, <4>1
    <3> QED
      BY <1>1, <2>1, <3>1, <3>3, QuotientLower
  <2>4. \A q \in Q : r + s <= q[y]
    <3> SUFFICES ASSUME NEW q \in Q PROVE r + s <= q[y]
      OBVIOUS
    <3>1. q[y] - s \in Int
      BY <2>1, <2>2
    <3>2. r <= q[y] - s
      BY <1>1, <2>1, <2>2, <3>1, QuotientLower
    <3> HIDE DEF r
    <3> QED
      BY <2>1, <2>2, <2>3, <3>2
  <2> DEFINE N == r + s
  <2>6. N \in Int /\ \A q \in Q : N <= q[y]
    <3>1. r + s \in Int
      <4> HIDE DEF r
      <4> QED
        BY <2>1, <2>3
    <3> QED
      BY <2>4, <3>1
  <2> HIDE DEF N
  <2>7. [v |-> y, n |-> N] \in LowerBounds(Q)
    BY <2>1, <2>6 DEF LowerBounds, LowerHolds
  <2> QED
    BY <2>7 DEF N, E, k, s, r
<1>3. Lists(InOrder(Y), Y)
  BY <1>1, InOrderFacts
<1>4. LowersOf(z, e, Y) = [n \in 1..Cardinality(Y) |-> B(InOrder(Y)[n])]
  BY DEF LowersOf
<1>5. LowersOf(z, e, Y) \in [1..Cardinality(Y) -> LowerBounds(Q)]
  <2> HIDE DEF B
  <2> QED
    BY <1>2, <1>3, <1>4 DEF Lists
<1> QED
  BY <1>3, <1>5 DEF IsSequence, Lists

LEMMA PairsSound ==
  ASSUME NEW Q \in SUBSET Valuations, NEW z \in Zone(Q), NEW e, IsLinear(e), \A q \in Q : Val(e, q) <= 0,
         NEW X, X \subseteq Positive(e), NEW Y, Y \subseteq Negative(e),
         \A x \in X : \A y \in Y : Free(z, e) \subseteq {x, y},
         \A x \in X : x \in Free(z, e) => e.t[x] = 1,
         \A y \in Y : y \in Free(z, e) => e.t[y] = -1
  PROVE  IsSequence(PairsOf(z, e, X, Y), Differences(Q))
<1> DEFINE E == ExpUb(z, e)
           C(x, y) == [x |-> x, y |-> y, n |-> E + ShareOf(z, e, x) - ShareOf(z, e, y)]
           P == PairSet(z, e, X, Y)
           key == PairKeys(z, e, X, Y)
<1>1. X \subseteq DOMAIN e.t /\ Y \subseteq DOMAIN e.t /\ X \subseteq Vars /\ Y \subseteq Vars
      /\ IsFiniteSet(X) /\ IsFiniteSet(Y) /\ E \in Int
  <2>1. X \subseteq DOMAIN e.t /\ Y \subseteq DOMAIN e.t /\ E \in Int
    BY ShareFacts
  <2> QED
    BY <2>1, LinearFacts, FS_Subset
<1>2. ASSUME NEW x \in X, NEW y \in Y
      PROVE  C(x, y) \in Differences(Q)
  <2> DEFINE a == e.t[x]
             b == e.t[y]
             s == ShareOf(z, e, x)
             r == ShareOf(z, e, y)
  <2>1. /\ a \in Int /\ a > 0 /\ b \in Int /\ b < 0 /\ s \in Int /\ r \in Int
        /\ x \in Vars /\ y \in Vars /\ x \in DOMAIN e.t /\ y \in DOMAIN e.t /\ x # y
    <3>1. x \in Vars /\ y \in Vars /\ x \in DOMAIN e.t /\ y \in DOMAIN e.t
      BY <1>1
    <3>2. a \in Int /\ b \in Int
      BY <3>1, LinearFacts
    <3>3. a > 0 /\ b < 0 /\ s \in Int /\ r \in Int
      BY <3>1, ShareFacts
    <3>4. x # y
      BY <3>2, <3>3
    <3> QED
      BY <3>1, <3>2, <3>3, <3>4
  <2>2. ASSUME NEW q \in Q
        PROVE  /\ q[x] \in Int /\ q[y] \in Int /\ a * (q[x] - s) + b * (q[y] - r) <= E
               /\ a = 1 \/ q[x] - s >= 0
               /\ b = -1 \/ q[y] - r <= 0
    <3>1. q[x] \in Int /\ q[y] \in Int
      BY <2>1, VertFacts, ValuationFacts
    <3>2. Free(z, e) \subseteq {x, y} /\ Val(e, q) <= 0
      OBVIOUS
    <3>3. a * (q[x] - s) + b * (q[y] - r) <= E
      BY <2>1, <3>2, LeqExcess
    <3>4. a = 1 \/ s <= q[x]
      BY ShareFacts
    <3>5. b = -1 \/ q[y] <= r
      BY ShareFacts
    <3> HIDE DEF a, b, s, r, E
    <3> QED
      BY <2>1, <3>1, <3>3, <3>4, <3>5
  <2> HIDE DEF a, b, s, r, E
  <2>3. \A q \in Q : q[x] - q[y] <= E + s - r
    <3> SUFFICES ASSUME NEW q \in Q PROVE q[x] - q[y] <= E + s - r
      OBVIOUS
    <3> DEFINE dx == q[x] - s
               dy == q[y] - r
    <3>1. dx \in Int /\ dy \in Int /\ a * dx + b * dy <= E /\ (a = 1 \/ dx >= 0) /\ (b = -1 \/ dy <= 0)
      BY <2>1, <2>2
    <3>2. dx - dy <= E
      <4> HIDE DEF dx, dy
      <4> QED
        BY <1>1, <2>1, <3>1, PairBound
    <3> QED
      BY <1>1, <2>1, <2>2, <3>2
  <2> DEFINE N == E + s - r
  <2>4. N \in Int /\ \A q \in Q : q[x] - q[y] <= N
    BY <1>1, <2>1, <2>3
  <2> HIDE DEF N
  <2>5. [x |-> x, y |-> y, n |-> N] \in Differences(Q)
    BY <2>1, <2>4 DEF Differences, DifferenceHolds
  <2> QED
    BY <2>5 DEF N, E, s, r
<1>3. P = {C(x, y) : x \in X, y \in Y}
  BY DEF PairSet
<1>4. P \subseteq Differences(Q)
  BY <1>2, <1>3
<1>5. IsFiniteSet(P)
  <2> DEFINE f == [xy \in X \X Y |-> C(xy[1], xy[2])]
  <2>1. IsFiniteSet(X \X Y)
    BY <1>1, FS_Product
  <2>2. f \in Surjection(X \X Y, P)
    <3> HIDE DEF C
    <3>1. f \in [X \X Y -> P]
      BY <1>3
    <3>2. ASSUME NEW p \in P PROVE \E xy \in X \X Y : f[xy] = p
      <4>1. PICK x \in X, y \in Y : p = C(x, y)
        BY <1>3
      <4>2. <<x, y>> \in X \X Y /\ f[<<x, y>>] = C(x, y)
        OBVIOUS
      <4> QED
        BY <4>1, <4>2
    <3> QED
      BY <3>1, <3>2 DEF Surjection
  <2> HIDE DEF f, P
  <2> QED
    BY <2>1, <2>2, FS_Surjection
<1>6. \A c \in P : key[c] \in Int
  <2>1. \A c \in P : c.x \in Int /\ c.y \in Int
    BY <1>4 DEF Differences, Vars
  <2>2. NumVars \in Int
    BY NumVarsAssumption
  <2>3. \A c \in P : key[c] = c.y * NumVars + c.x
    BY DEF PairKeys
  <2> HIDE DEF P, key
  <2> QED
    BY <2>1, <2>2, <2>3
<1>7. Lists(SortedBy(P, key), P)
  <2> HIDE DEF P, key
  <2> QED
    BY <1>5, <1>6, SortedByFacts
<1>8. PairsOf(z, e, X, Y) = SortedBy(P, key)
  BY DEF PairsOf
<1> HIDE DEF P, key
<1>9. PairsOf(z, e, X, Y) \in [1..Cardinality(P) -> Differences(Q)] /\ Cardinality(P) \in Nat
  BY <1>4, <1>7, <1>8 DEF Lists
<1> QED
  BY <1>9 DEF IsSequence

LEMMA AtMostOne ==
  ASSUME NEW S, IsFiniteSet(S), ~ (Cardinality(S) > 1)
  PROVE  \A x \in S : S = {x}
<1> SUFFICES ASSUME NEW x \in S, NEW y \in S, x # y PROVE FALSE
  OBVIOUS
<1>1. {x, y} \subseteq S /\ IsFiniteSet({x, y})
  BY FS_Subset
<1>2. Cardinality({x, y}) = 2
  <2>1. Cardinality({x}) = 1 /\ IsFiniteSet({x})
    BY FS_Singleton
  <2>2. Cardinality({x} \cup {y}) = 2
    BY <2>1, FS_AddElement
  <2>3. {x} \cup {y} = {x, y}
    OBVIOUS
  <2> QED
    BY <2>2, <2>3
<1>3. Cardinality({x, y}) <= Cardinality(S)
  BY <1>1, FS_Subset
<1>4. Cardinality(S) \in Nat
  BY FS_CardinalityType
<1> QED
  BY <1>2, <1>3, <1>4

GoodDiffcsts(d, Q) ==
  /\ IsSequence(d.lbs, LowerBounds(Q))
  /\ IsSequence(d.ubs, UpperBoundsOf(Q))
  /\ IsSequence(d.csts, Differences(Q))

LEMMA DiffcstsOfLinLeqSound ==
  ASSUME NEW Q \in SUBSET Valuations, NEW z \in Zone(Q), NEW e, IsLinear(e), \A q \in Q : Val(e, q) <= 0
  PROVE  GoodDiffcsts(diffcsts_of_lin_leq(z, e), Q)
<1> DEFINE L == FreeLower(z, e)
           U == FreeUpper(z, e)
           F == Free(z, e)
           pos == Positive(e)
           neg == Negative(e)
           d == diffcsts_of_lin_leq(z, e)
<1>1. /\ IsSequence(<<>>, LowerBounds(Q)) /\ IsSequence(<<>>, UpperBoundsOf(Q)) /\ IsSequence(<<>>, Differences(Q))
  BY EmptySequence
<1>2. /\ F = L \cup U /\ L \subseteq pos /\ U \subseteq neg
      /\ pos \cap neg = {} /\ IsFiniteSet(L) /\ IsFiniteSet(U)
      /\ \A y \in pos : y \in DOMAIN e.t /\ e.t[y] \in Int /\ e.t[y] > 0
      /\ \A y \in neg : y \in DOMAIN e.t /\ e.t[y] \in Int /\ e.t[y] < 0
  <2>1. F = L \cup U /\ L \subseteq pos /\ U \subseteq neg /\ pos \cap neg = {}
    BY DEF Free, FreeLower, FreeUpper, Positive, Negative
  <2>2. pos \subseteq DOMAIN e.t /\ neg \subseteq DOMAIN e.t /\ (\A y \in pos : e.t[y] > 0) /\ (\A y \in neg : e.t[y] < 0)
    BY ShareFacts
  <2>3. IsFiniteSet(DOMAIN e.t) /\ \A y \in DOMAIN e.t : e.t[y] \in Int
    BY LinearFacts
  <2> QED
    BY <2>1, <2>2, <2>3, FS_Subset
<1>3. ASSUME NEW S \in SUBSET DOMAIN e.t, UnitCoefficients(e, S), \A y \in S : e.t[y] \in Int
      PROVE  \A y \in S : e.t[y] = 1 \/ e.t[y] = -1
  BY <1>3 DEF UnitCoefficients, Abs
<1>4. NoBounds.lbs = <<>> /\ NoBounds.ubs = <<>> /\ NoBounds.csts = <<>>
      /\ NoBounds = [csts |-> <<>>, lbs |-> <<>>, ubs |-> <<>>]
  BY DEF NoBounds
<1>5. GoodDiffcsts(NoBounds, Q)
  BY <1>1, <1>4 DEF GoodDiffcsts
<1>6. CASE Cardinality(L) > 1 \/ Cardinality(U) > 1
  <2>1. d = NoBounds
    BY <1>6, LeqParts
  <2> QED
    BY <1>5, <2>1
<1>7. CASE /\ ~ (Cardinality(L) > 1 \/ Cardinality(U) > 1)
           /\ L # {} /\ U # {}
  <2>1. \A x \in L : L = {x}
    BY <1>2, <1>7, AtMostOne
  <2>2. \A y \in U : U = {y}
    BY <1>2, <1>7, AtMostOne
  <2>3. CASE UnitCoefficients(e, F)
    <3>1. d = [NoBounds EXCEPT !.csts = PairsOf(z, e, L, U)]
      BY <1>7, <2>3, LeqParts
    <3>2. d.csts = PairsOf(z, e, L, U) /\ d.lbs = <<>> /\ d.ubs = <<>>
      BY <1>4, <3>1
    <3>3. \A y \in F : e.t[y] = 1 \/ e.t[y] = -1
      BY <1>2, <1>3, <2>3
    <3>4. /\ \A x \in L : x \in F => e.t[x] = 1
          /\ \A y \in U : y \in F => e.t[y] = -1
      BY <1>2, <3>3
    <3>5. \A x \in L : \A y \in U : F \subseteq {x, y}
      BY <1>2, <2>1, <2>2
    <3>6. IsSequence(PairsOf(z, e, L, U), Differences(Q))
      <4> HIDE DEF L, U
      <4> QED
        BY <1>2, <3>4, <3>5, PairsSound
    <3> QED
      BY <1>1, <3>2, <3>6 DEF GoodDiffcsts
  <2>4. CASE ~ UnitCoefficients(e, F)
    <3>1. d = NoBounds
      BY <1>7, <2>4, LeqParts
    <3> QED
      BY <1>5, <3>1
  <2> QED
    BY <2>3, <2>4
<1>8. CASE /\ ~ (Cardinality(L) > 1 \/ Cardinality(U) > 1)
           /\ L # {} /\ U = {}
  <2>1. \A x \in L : F \subseteq {x}
    BY <1>2, <1>8, AtMostOne
  <2>2. d = [csts |-> IF UnitCoefficients(e, L) THEN PairsOf(z, e, L, neg) ELSE <<>>,
             lbs |-> <<>>, ubs |-> UppersOf(z, e, L)]
    BY <1>8, LeqParts
  <2>3. IsSequence(UppersOf(z, e, L), UpperBoundsOf(Q))
    <3> HIDE DEF L
    <3> QED
      BY <1>2, <2>1, UppersSound
  <2>4. UnitCoefficients(e, L) => IsSequence(PairsOf(z, e, L, neg), Differences(Q))
    <3> SUFFICES ASSUME UnitCoefficients(e, L) PROVE IsSequence(PairsOf(z, e, L, neg), Differences(Q))
      OBVIOUS
    <3>1. \A y \in L : e.t[y] = 1 \/ e.t[y] = -1
      BY <1>2, <1>3
    <3>2. \A x \in L : x \in F => e.t[x] = 1
      BY <1>2, <3>1
    <3>3. \A y \in neg : y \in F => e.t[y] = -1
      BY <1>2, <1>8
    <3>4. \A x \in L : \A y \in neg : F \subseteq {x, y}
      BY <2>1
    <3> HIDE DEF L
    <3> QED
      BY <1>2, <3>2, <3>3, <3>4, PairsSound
  <2>5. d.lbs = <<>> /\ d.ubs = UppersOf(z, e, L)
        /\ d.csts = IF UnitCoefficients(e, L) THEN PairsOf(z, e, L, neg) ELSE <<>>
    BY <2>2
  <2> QED
    BY <1>1, <2>3, <2>4, <2>5 DEF GoodDiffcsts
<1>9. CASE /\ ~ (Cardinality(L) > 1 \/ Cardinality(U) > 1)
           /\ L = {} /\ U # {}
  <2>1. \A y \in U : F \subseteq {y}
    BY <1>2, <1>9, AtMostOne
  <2>2. d = [csts |-> IF UnitCoefficients(e, U) THEN PairsOf(z, e, pos, U) ELSE <<>>,
             lbs |-> LowersOf(z, e, U), ubs |-> <<>>]
    BY <1>9, LeqParts
  <2>3. IsSequence(LowersOf(z, e, U), LowerBounds(Q))
    <3> HIDE DEF U
    <3> QED
      BY <1>2, <2>1, LowersSound
  <2>4. UnitCoefficients(e, U) => IsSequence(PairsOf(z, e, pos, U), Differences(Q))
    <3> SUFFICES ASSUME UnitCoefficients(e, U) PROVE IsSequence(PairsOf(z, e, pos, U), Differences(Q))
      OBVIOUS
    <3>1. \A y \in U : e.t[y] = 1 \/ e.t[y] = -1
      BY <1>2, <1>3
    <3>2. \A y \in U : y \in F => e.t[y] = -1
      BY <1>2, <3>1
    <3>3. \A x \in pos : x \in F => e.t[x] = 1
      BY <1>2, <1>9
    <3>4. \A x \in pos : \A y \in U : F \subseteq {x, y}
      BY <2>1
    <3> HIDE DEF U
    <3> QED
      BY <1>2, <3>2, <3>3, <3>4, PairsSound
  <2>5. d.ubs = <<>> /\ d.lbs = LowersOf(z, e, U)
        /\ d.csts = IF UnitCoefficients(e, U) THEN PairsOf(z, e, pos, U) ELSE <<>>
    BY <2>2
  <2> QED
    BY <1>1, <2>3, <2>4, <2>5 DEF GoodDiffcsts
<1>10. CASE L = {} /\ U = {}
  <2>1. F = {}
    BY <1>2, <1>10
  <2>2. d = [csts |-> PairsOf(z, e, pos, neg), lbs |-> LowersOf(z, e, neg), ubs |-> UppersOf(z, e, pos)]
    <3>1. ~ (Cardinality(L) > 1) /\ ~ (Cardinality(U) > 1)
      <4>1. Cardinality({}) = 0
        BY FS_EmptySet
      <4> QED
        BY <1>10, <4>1
    <3> QED
      BY <1>10, <3>1, LeqParts
  <2>3. /\ IsSequence(LowersOf(z, e, neg), LowerBounds(Q))
    BY <2>1, LowersSound
  <2>4. IsSequence(UppersOf(z, e, pos), UpperBoundsOf(Q))
    BY <2>1, UppersSound
  <2>5. IsSequence(PairsOf(z, e, pos, neg), Differences(Q))
    BY <2>1, PairsSound
  <2>6. d.lbs = LowersOf(z, e, neg) /\ d.ubs = UppersOf(z, e, pos) /\ d.csts = PairsOf(z, e, pos, neg)
    BY <2>2
  <2> QED
    BY <2>3, <2>4, <2>5, <2>6 DEF GoodDiffcsts
<1> QED
  BY <1>6, <1>7, <1>8, <1>9, <1>10

AddAll(z, d) == FoldLeft(AddDifference, FoldLeft(AddUpper, FoldLeft(AddLower, z, d.lbs), d.ubs), d.csts)

LEMMA AddAllSound ==
  ASSUME NEW Q \in SUBSET Valuations, NEW z \in Zone(Q), NEW d, GoodDiffcsts(d, Q)
  PROVE  AddAll(z, d) \in Zone(Q)
<1> DEFINE z1 == FoldLeft(AddLower, z, d.lbs)
           z2 == FoldLeft(AddUpper, z1, d.ubs)
           z3 == FoldLeft(AddDifference, z2, d.csts)
<1>1. z1 = AddLowers(z, d.lbs)
  BY DEF AddLowers, FoldLeft, MapThenFoldSet
<1>2. z2 = AddUppers(z1, d.ubs)
  <2> HIDE DEF z1
  <2> QED
    BY DEF AddUppers, FoldLeft, MapThenFoldSet
<1>3. z3 = AddDifferences(z2, d.csts)
  <2> HIDE DEF z2
  <2> QED
    BY DEF AddDifferences, FoldLeft, MapThenFoldSet
<1>4. AddAll(z, d) = z3
  BY DEF AddAll
<1>5. \A zz \in Zone(Q) : \A b \in LowerBounds(Q) : AddLower(zz, b) \in Zone(Q)
  BY AddLowerSound DEF LowerBounds
<1>6. \A zz \in Zone(Q) : \A b \in UpperBoundsOf(Q) : AddUpper(zz, b) \in Zone(Q)
  BY AddUpperSound DEF UpperBoundsOf
<1>7. \A zz \in Zone(Q) : \A c \in Differences(Q) : AddDifference(zz, c) \in Zone(Q)
  BY AddDifferenceSound DEF Differences
<1>8. PICK k \in Nat : d.lbs \in [1..k -> LowerBounds(Q)]
  BY DEF GoodDiffcsts, IsSequence
<1>9. PICK m \in Nat : d.ubs \in [1..m -> UpperBoundsOf(Q)]
  BY DEF GoodDiffcsts, IsSequence
<1>10. PICK n \in Nat : d.csts \in [1..n -> Differences(Q)]
  BY DEF GoodDiffcsts, IsSequence
<1> HIDE DEF z1, z2, z3
<1>11. z1 \in Zone(Q)
  <2>1. DOMAIN d.lbs = 1..k /\ \A i \in 1..k : d.lbs[i] \in LowerBounds(Q)
    BY <1>8
  <2> QED
    BY <1>1, <1>5, <2>1, AddLowersWithin
<1>12. z2 \in Zone(Q)
  <2>1. DOMAIN d.ubs = 1..m /\ \A i \in 1..m : d.ubs[i] \in UpperBoundsOf(Q)
    BY <1>9
  <2> QED
    BY <1>2, <1>6, <1>11, <2>1, AddUppersWithin
<1>13. z3 \in Zone(Q)
  <2>1. DOMAIN d.csts = 1..n /\ \A i \in 1..n : d.csts[i] \in Differences(Q)
    BY <1>10
  <2> QED
    BY <1>3, <1>7, <1>12, <2>1, AddDifferencesWithin
<1> QED
  BY <1>4, <1>13

LEMMA AddLinearLeqSound ==
  ASSUME NEW Q \in SUBSET Valuations, NEW z \in Zone(Q), NEW e, IsLinear(e), \A q \in Q : Val(e, q) <= 0
  PROVE  add_linear_leq(z, e) \in Zone(Q)
<1> DEFINE d == diffcsts_of_lin_leq(z, e)
           a == AddAll(z, d)
<1>1. GoodDiffcsts(d, Q)
  BY DiffcstsOfLinLeqSound
<1>2. a \in Zone(Q)
  <2> HIDE DEF d
  <2> QED
    BY <1>1, AddAllSound
<1>3. CASE z.ok
  <2>1. add_linear_leq(z, e) = Let(Let(d, LAMBDA dd : AddAll(z, dd)), CloseBounds)
    BY <1>3 DEF add_linear_leq, AddAll
  <2>2. Let(d, LAMBDA dd : AddAll(z, dd)) = a
    <3> HIDE DEF d
    <3> QED
      BY DEF Let
  <2>3. Let(a, CloseBounds) = CloseBounds(a)
    <3> HIDE DEF a
    <3> QED
      BY DEF Let
  <2>4. CloseBounds(a) \in Zone(Q)
    <3> HIDE DEF a
    <3> QED
      BY <1>2, CloseBoundsSound
  <2> QED
    BY <2>1, <2>2, <2>3, <2>4
<1>4. CASE ~ z.ok
  BY <1>4 DEF add_linear_leq
<1> QED
  BY <1>3, <1>4

LEMMA TrimSound ==
  ASSUME NEW i, Proper(i), i = [lb |-> i.lb, ub |-> i.ub], NEW n \in Int, ~ is_top(i)
  PROVE  /\ Proper(trim_interval(i, n))
         /\ \A m \in Int : m # n /\ Holds(i, m) => Holds(trim_interval(i, n), m)
<1>1. i.lb \in Bounds /\ i.ub \in Bounds /\ (i.lb.inf => i.lb.n = -1) /\ (i.ub.inf => i.ub.n = 1)
  BY DEF Proper
<1>2. \A k \in Int : Fin(k) \in Bounds /\ Fin(k).n = k /\ Fin(k).inf = FALSE
  BY BoundFacts
<1>3. CASE i.lb = Fin(n)
  <2> DEFINE l == Fin(n + 1)
             r == Between(l, i.ub)
  <2>1. l \in Bounds /\ l.n = n + 1 /\ ~ l.inf
    BY <1>2
  <2>2. trim_interval(i, n) = r
    BY <1>3 DEF trim_interval
  <2>3. i.lb.n = n /\ ~ i.lb.inf
    BY <1>2, <1>3
  <2> HIDE DEF l
  <2>4. /\ Proper(r)
        /\ \A m \in Int : (l.inf \/ l.n <= m) /\ (i.ub.inf \/ m <= i.ub.n) => Holds(r, m)
    BY <1>1, <2>1, BetweenProper
  <2>5. ASSUME NEW m \in Int, m # n, Holds(i, m) PROVE Holds(r, m)
    <3>1. n <= m /\ (i.ub.inf \/ m <= i.ub.n)
      BY <2>3, <2>5 DEF Holds
    <3>2. n + 1 <= m
      BY <2>5, <3>1
    <3> HIDE DEF r
    <3> QED
      BY <2>1, <2>4, <3>1, <3>2
  <2> QED
    BY <2>2, <2>4, <2>5
<1>4. CASE i.lb # Fin(n) /\ i.ub = Fin(n)
  <2> DEFINE u == Fin(n - 1)
             r == Between(i.lb, u)
  <2>1. u \in Bounds /\ u.n = n - 1 /\ ~ u.inf
    BY <1>2
  <2>2. trim_interval(i, n) = r
    BY <1>4 DEF trim_interval
  <2>3. i.ub.n = n /\ ~ i.ub.inf
    BY <1>2, <1>4
  <2> HIDE DEF u
  <2>4. /\ Proper(r)
        /\ \A m \in Int : (i.lb.inf \/ i.lb.n <= m) /\ (u.inf \/ m <= u.n) => Holds(r, m)
    BY <1>1, <2>1, BetweenProper
  <2>5. ASSUME NEW m \in Int, m # n, Holds(i, m) PROVE Holds(r, m)
    <3>1. m <= n /\ (i.lb.inf \/ i.lb.n <= m)
      BY <2>3, <2>5 DEF Holds
    <3>2. m <= n - 1
      BY <2>5, <3>1
    <3> HIDE DEF r
    <3> QED
      BY <2>1, <2>4, <3>1, <3>2
  <2> QED
    BY <2>2, <2>4, <2>5
<1>5. CASE i.lb # Fin(n) /\ i.ub # Fin(n)
  <2>1. trim_interval(i, n) = i
    BY <1>5 DEF trim_interval
  <2> QED
    BY <2>1
<1> QED
  BY <1>3, <1>4, <1>5

LEMMA TrimTop ==
  ASSUME NEW i, Proper(i), NEW n \in Int, is_top(i)
  PROVE  ~ is_bottom(trim_interval(i, n))
<1>1. \A k \in Int : Fin(k) \in Bounds /\ Fin(k).n = k /\ Fin(k).inf = FALSE
  BY BoundFacts
<1>2. i.lb # Fin(n) /\ i.ub # Fin(n)
  BY <1>1 DEF is_top
<1>3. ~ is_bottom(i)
  <2>1. Holds(i, 0)
    BY DEF is_top, Holds
  <2> QED
    BY <2>1, NotBottom
<1>4. ~ is_bottom(Range2(1, max_uint(W64)))
  <2> DEFINE M == max_uint(W64)
  <2>1. M \in Int /\ 1 <= M
    BY MaxUintAssumption
  <2> HIDE DEF M
  <2>2. /\ Fin(1) \in Bounds /\ Fin(1).n = 1 /\ ~ Fin(1).inf
        /\ Fin(M) \in Bounds /\ Fin(M).n = M /\ ~ Fin(M).inf
    BY <1>1, <2>1
  <2>3. Proper(Range2(1, M)) /\ Holds(Range2(1, M), 1)
    BY <2>1, <2>2, BetweenProper DEF Range2
  <2>4. ~ is_bottom(Range2(1, M))
    BY <2>3, NotBottom
  <2> QED
    BY <2>4 DEF M
<1>5. trim_interval(i, n) = i \/ trim_interval(i, n) = Range2(1, max_uint(W64))
  BY <1>2 DEF trim_interval
<1> QED
  BY <1>3, <1>4, <1>5

(* The zones whose graph keeps the edges into x, and those out of x. *)
WithPreds(Q, B, x) == {zz \in Zone(Q) : zz.ok => \A v \in B : elem(zz.g, v, x)}
WithSuccs(Q, B, x) == {zz \in Zone(Q) : zz.ok => \A v \in B : elem(zz.g, x, v)}

LEMMA StrengthenLbSound ==
  ASSUME NEW Q \in SUBSET Valuations, NEW z \in Zone(Q), NEW x \in Vars, x \in DOMAIN z.p,
         NEW b \in Bounds, ~ b.inf /\ elem(z.g, x, 0) => \A q \in Q : b.n <= q[x]
  PROVE  StrengthenLb(z, x, b) \in Zone(Q) /\ (StrengthenLb(z, x, b).ok => x \in DOMAIN StrengthenLb(z, x, b).p)
<1>1. CASE b.inf \/ ~ elem(z.g, x, 0) \/ - b.n >= edge_val(z.g, x, 0)
  BY <1>1 DEF StrengthenLb
<1>2. CASE ~ (b.inf \/ ~ elem(z.g, x, 0) \/ - b.n >= edge_val(z.g, x, 0))
  <2> DEFINE k == b.n
             g == set_edge(z.g, x, - k, 0)
             base == WithEdge(z, g, x, 0)
             B == preds(z.g, x) \ {0}
             G == WithPreds(Q, B, x)
             H == {zz \in G : zz.ok => x \in DOMAIN zz.p}
             seq == InOrder(B)
  <2>0. k \in Int /\ \A q \in Q : k <= q[x]
    BY <1>2 DEF Bounds
  <2>1. z.g \in Gr(DOMAIN z.p, Q) /\ 0 \in DOMAIN z.p /\ DOMAIN z.p \in SUBSET Verts
    BY ZoneElim
  <2>2. \A q \in Q : q[0] = 0 /\ q[x] \in Int
    BY VertFacts, ValuationFacts
  <2>3. base \in Zone(Q) /\ (base.ok => base.g = g /\ DOMAIN base.p = DOMAIN z.p /\ DOMAIN z.g \subseteq DOMAIN g)
    <3>1. - k \in Int /\ \A q \in Q : q[0] - q[x] <= - k
      BY <2>0, <2>2
    <3> HIDE DEF k
    <3> QED
      BY <2>1, <3>1, AddEdgeSound
  <2>4. \A v \in B : elem(z.g, v, x) /\ v \in Verts
    BY <2>1, ElemFacts
  <2>5. base \in H
    <3> HIDE DEF base, g
    <3> QED
      BY <2>3, <2>4 DEF elem, WithPreds
  <2>6. ASSUME NEW zz \in H, NEW v \in B
        PROVE  Strengthen(zz, v, edge_val(zz.g, v, x) - k, 0) \in H
    <3> DEFINE w == edge_val(zz.g, v, x) - k
               r == Strengthen(zz, v, w, 0)
    <3>0. zz \in Zone(Q) /\ (zz.ok => \A u \in B : elem(zz.g, u, x)) /\ (zz.ok => x \in DOMAIN zz.p)
      BY DEF WithPreds
    <3>1. zz.g \in Gr(DOMAIN zz.p, Q) /\ 0 \in DOMAIN zz.p /\ DOMAIN zz.p \in SUBSET Verts /\ zz.ok \in BOOLEAN
      BY <3>0, ZoneElim
    <3>2. zz.ok => /\ v \in DOMAIN zz.p /\ edge_val(zz.g, v, x) \in Int
                   /\ \A q \in Q : q[x] - q[v] <= edge_val(zz.g, v, x)
      BY <3>0, <3>1, ElemFacts
    <3>3. zz.ok => w \in Int /\ \A q \in Q : q[0] - q[v] <= w
      <4> SUFFICES ASSUME zz.ok PROVE w \in Int /\ \A q \in Q : q[0] - q[v] <= w
        OBVIOUS
      <4>1. \A q \in Q : q[v] \in Int
        BY <3>1, <3>2, ValuationFacts
      <4> HIDE DEF k
      <4> QED
        BY <2>0, <2>2, <3>2, <4>1
    <3> HIDE DEF w
    <3>4. r \in Zone(Q) /\ (r.ok => DOMAIN zz.g \subseteq DOMAIN r.g)
      BY <3>0, <3>1, <3>2, <3>3, StrengthenSound
    <3>5. r.ok => zz.ok
      BY DEF Strengthen
    <3>6. r.ok => x \in DOMAIN r.p
      <4> SUFFICES ASSUME r.ok PROVE x \in DOMAIN r.p
        OBVIOUS
      <4>1. elem(r.g, v, x)
        BY <3>0, <3>4, <3>5 DEF elem
      <4>2. r.g \in Gr(DOMAIN r.p, Q)
        BY <3>4, ZoneElim
      <4> QED
        BY <4>1, <4>2, ElemFacts
    <3> HIDE DEF r
    <3>7. r \in H
      BY <3>0, <3>4, <3>5, <3>6 DEF WithPreds, elem
    <3> QED
      BY <3>7 DEF r, w
  <2>7. Lists(seq, B)
    <3>1. B \in SUBSET Verts
      BY <2>4
    <3>2. IsFiniteSet(B) /\ B \subseteq Int
      BY <3>1, VertFacts
    <3> HIDE DEF B
    <3> QED
      BY <3>2, InOrderFacts
  <2>8. StrengthenLb(z, x, b) = RaiseLowers(x, k, base, seq)
    BY <1>2 DEF StrengthenLb, RaiseLowers
  <2>9. RaiseLowers(x, k, base, seq) \in H
    <3> DEFINE n == Cardinality(B)
    <3>1. n \in Nat /\ DOMAIN seq = 1..n /\ \A j \in 1..n : seq[j] \in B
      BY <2>7 DEF Lists
    <3> HIDE DEF H, B, base, seq, n, k
    <3> QED
      BY <2>5, <2>6, <3>1, RaiseLowersWithin
  <2> QED
    BY <2>8, <2>9 DEF WithPreds
<1> QED
  BY <1>1, <1>2

LEMMA StrengthenUbSound ==
  ASSUME NEW Q \in SUBSET Valuations, NEW z \in Zone(Q), NEW x \in Vars, z.ok => x \in DOMAIN z.p,
         NEW b \in Bounds, z.ok /\ ~ b.inf /\ elem(z.g, 0, x) => \A q \in Q : q[x] <= b.n
  PROVE  StrengthenUb(z, x, b) \in Zone(Q)
<1>1. CASE ~ z.ok \/ b.inf \/ ~ elem(z.g, 0, x) \/ b.n >= edge_val(z.g, 0, x)
  BY <1>1 DEF StrengthenUb
<1>2. CASE ~ (~ z.ok \/ b.inf \/ ~ elem(z.g, 0, x) \/ b.n >= edge_val(z.g, 0, x))
  <2> DEFINE k == b.n
             g == set_edge(z.g, 0, k, x)
             base == WithEdge(z, g, 0, x)
             B == succs(z.g, x) \ {0}
             H == WithSuccs(Q, B, x)
             seq == InOrder(B)
  <2>0. k \in Int /\ (\A q \in Q : q[x] <= k) /\ x \in DOMAIN z.p
    BY <1>2 DEF Bounds
  <2>1. z.g \in Gr(DOMAIN z.p, Q) /\ 0 \in DOMAIN z.p /\ DOMAIN z.p \in SUBSET Verts
    BY ZoneElim
  <2>2. \A q \in Q : q[0] = 0 /\ q[x] \in Int
    BY VertFacts, ValuationFacts
  <2>3. base \in Zone(Q) /\ (base.ok => base.g = g /\ DOMAIN z.g \subseteq DOMAIN g)
    <3>1. \A q \in Q : q[x] - q[0] <= k
      BY <2>0, <2>2
    <3> HIDE DEF k
    <3> QED
      BY <2>0, <2>1, <3>1, AddEdgeSound
  <2>4. \A v \in B : elem(z.g, x, v) /\ v \in Verts
    BY <2>1, ElemFacts
  <2>5. base \in H
    <3> HIDE DEF base, g
    <3> QED
      BY <2>3, <2>4 DEF elem, WithSuccs
  <2>6. ASSUME NEW zz \in H, NEW v \in B
        PROVE  Strengthen(zz, 0, k + edge_val(zz.g, x, v), v) \in H
    <3> DEFINE w == k + edge_val(zz.g, x, v)
               r == Strengthen(zz, 0, w, v)
    <3>0. zz \in Zone(Q) /\ (zz.ok => \A u \in B : elem(zz.g, x, u))
      BY DEF WithSuccs
    <3>1. zz.g \in Gr(DOMAIN zz.p, Q) /\ 0 \in DOMAIN zz.p /\ DOMAIN zz.p \in SUBSET Verts /\ zz.ok \in BOOLEAN
      BY <3>0, ZoneElim
    <3>2. zz.ok => /\ v \in DOMAIN zz.p /\ edge_val(zz.g, x, v) \in Int
                   /\ \A q \in Q : q[v] - q[x] <= edge_val(zz.g, x, v)
      BY <3>0, <3>1, ElemFacts
    <3>3. zz.ok => w \in Int /\ \A q \in Q : q[v] - q[0] <= w
      <4> SUFFICES ASSUME zz.ok PROVE w \in Int /\ \A q \in Q : q[v] - q[0] <= w
        OBVIOUS
      <4>1. \A q \in Q : q[v] \in Int
        BY <3>1, <3>2, ValuationFacts
      <4> HIDE DEF k
      <4> QED
        BY <2>0, <2>2, <3>2, <4>1
    <3> HIDE DEF w
    <3>4. r \in Zone(Q) /\ (r.ok => DOMAIN zz.g \subseteq DOMAIN r.g)
      BY <3>0, <3>1, <3>2, <3>3, StrengthenSound
    <3>5. r.ok => zz.ok
      BY DEF Strengthen
    <3> HIDE DEF r
    <3>7. r \in H
      BY <3>0, <3>4, <3>5 DEF WithSuccs, elem
    <3> QED
      BY <3>7 DEF r, w
  <2>7. Lists(seq, B)
    <3>1. B \in SUBSET Verts
      BY <2>4
    <3>2. IsFiniteSet(B) /\ B \subseteq Int
      BY <3>1, VertFacts
    <3> HIDE DEF B
    <3> QED
      BY <3>2, InOrderFacts
  <2>8. StrengthenUb(z, x, b) = LowerUppers(x, k, base, seq)
    BY <1>2 DEF StrengthenUb, LowerUppers
  <2>9. LowerUppers(x, k, base, seq) \in H
    <3> DEFINE n == Cardinality(B)
    <3>1. n \in Nat /\ DOMAIN seq = 1..n /\ \A j \in 1..n : seq[j] \in B
      BY <2>7 DEF Lists
    <3> HIDE DEF H, B, base, seq, n, k
    <3> QED
      BY <2>5, <2>6, <3>1, LowerUppersWithin
  <2> QED
    BY <2>8, <2>9 DEF WithSuccs
<1> QED
  BY <1>1, <1>2

LEMMA UnivarDisequationSound ==
  ASSUME NEW Q \in SUBSET Valuations, NEW z \in Zone(Q), NEW x \in Vars, NEW n \in Int,
         \A q \in Q : q[x] # n
  PROVE  add_univar_disequation(z, x, n) \in Zone(Q)
<1> DEFINE i == get_interval(z, x)
           new == trim_interval(i, n)
           zv == get_vert(z, x)
           zl == StrengthenLb(zv, x, new.lb)
           Trim(t) == IF is_bottom(t) THEN BottomZone
                      ELSE IF is_top(t) \/ ~ ISubset(t, get_interval(z, x)) THEN z
                      ELSE Let(StrengthenLb(get_vert(z, x), x, t.lb), LAMBDA zz : StrengthenUb(zz, x, t.ub))
           r == add_univar_disequation(z, x, n)
<1>1. r = Let(new, Trim)
  BY DEF add_univar_disequation
<1>2. Let(new, Trim) = Trim(new)
  <2> HIDE DEF new, Trim
  <2> QED
    BY DEF Let
<1>3. Let(zl, LAMBDA zz : StrengthenUb(zz, x, new.ub)) = StrengthenUb(zl, x, new.ub)
  <2> HIDE DEF zl
  <2> QED
    BY DEF Let
<1>4. r = IF is_bottom(new) THEN BottomZone
          ELSE IF is_top(new) \/ ~ ISubset(new, i) THEN z
          ELSE StrengthenUb(zl, x, new.ub)
  BY <1>1, <1>2, <1>3
<1>5. Proper(i) /\ i = [lb |-> i.lb, ub |-> i.ub] /\ (\A q \in Q : Holds(i, q[x]) /\ q[x] \in Int)
  <2>1. Proper(i) /\ \A w \in With(Q, z.p) : Holds(i, w[x])
    BY IntervalOfZone
  <2>2. Q \subseteq With(Q, z.p)
    BY ZoneElim, WithFacts
  <2>3. \A q \in Q : q[x] \in Int
    BY VertFacts, ValuationFacts
  <2>4. i = [lb |-> i.lb, ub |-> i.ub]
    BY DEF get_interval
  <2> HIDE DEF i
  <2> QED
    BY <2>1, <2>2, <2>3, <2>4
<1>6. /\ zv \in Zone(Q) /\ zv.g = z.g /\ x \in DOMAIN zv.p
  BY LiveFacts, GetVertSound
<1>7. CASE is_top(i)
  <2>1. ~ is_bottom(new)
    BY <1>5, <1>7, TrimTop
  <2>2. ~ elem(z.g, x, 0) /\ ~ elem(z.g, 0, x)
    BY <1>7, BoundFacts DEF is_top, get_interval, get_lb, get_ub, Fin
  <2>3. zl = zv
    BY <1>6, <2>2 DEF StrengthenLb
  <2>4. StrengthenUb(zl, x, new.ub) = zv
    BY <1>6, <2>2, <2>3 DEF StrengthenUb
  <2>5. r = z \/ r = zv
    BY <1>4, <2>1, <2>4
  <2> QED
    BY <1>6, <2>5
<1>8. CASE ~ is_top(i)
  <2>1. Proper(new) /\ \A m \in Int : m # n /\ Holds(i, m) => Holds(new, m)
    <3> HIDE DEF i
    <3> QED
      BY <1>5, <1>8, TrimSound
  <2>2. \A q \in Q : Holds(new, q[x]) /\ q[x] \in Int
    BY <1>5, <2>1
  <2> HIDE DEF new, i
  <2>3. CASE is_bottom(new)
    <3>1. Q = {}
      BY <2>1, <2>2, <2>3, NotBottom
    <3>2. r = BottomZone
      BY <1>4, <2>3
    <3> QED
      BY <3>1, <3>2, EmptyZones
  <2>4. CASE ~ is_bottom(new)
    <3>1. new.lb \in Bounds /\ new.ub \in Bounds
      BY <2>1 DEF Proper
    <3>2. (~ new.lb.inf => \A q \in Q : new.lb.n <= q[x]) /\ (~ new.ub.inf => \A q \in Q : q[x] <= new.ub.n)
      BY <2>2 DEF Holds
    <3>3. zl \in Zone(Q) /\ (zl.ok => x \in DOMAIN zl.p)
      <4> HIDE DEF zv
      <4> QED
        BY <1>6, <3>1, <3>2, StrengthenLbSound
    <3>4. StrengthenUb(zl, x, new.ub) \in Zone(Q)
      <4> HIDE DEF zl
      <4> QED
        BY <3>1, <3>2, <3>3, StrengthenUbSound
    <3> QED
      BY <1>4, <2>4, <3>4
  <2> QED
    BY <2>3, <2>4
<1> QED
  BY <1>7, <1>8

LEMMA ExcludeSound ==
  ASSUME NEW Q \in SUBSET Valuations, NEW z \in Zone(Q), NEW e, IsLinear(e), NEW v \in DOMAIN e.t,
         e.t[v] \in {-1, 1}, \A q \in Q : Val(e, q) # 0
  PROVE  Exclude(z, e, v) \in Zone(Q)
<1> DEFINE res == compute_residual(z, e, v)
           c == e.t[v]
           i == IDiv(res, Just(c))
<1>1. Exclude(z, e, v) = IF z.ok /\ is_singleton(i) THEN add_univar_disequation(z, v, i.lb.n) ELSE z
  <2>1. Exclude(z, e, v) = Let(i, LAMBDA j : IF z.ok /\ is_singleton(j) THEN add_univar_disequation(z, v, j.lb.n) ELSE z)
    BY DEF Exclude
  <2> HIDE DEF i
  <2> QED
    BY <2>1 DEF Let
<1>2. CASE ~ (z.ok /\ is_singleton(i))
  BY <1>1, <1>2
<1>3. CASE z.ok /\ is_singleton(i)
  <2>1. v \in Vars
    BY LinearFacts
  <2>2. Proper(res) /\ \A w \in With(Q, z.p) : Holds(res, c * w[v] - Val(e, w))
    BY ResidualSound
  <2>3. Q \subseteq With(Q, z.p)
    BY ZoneElim, WithFacts
  <2> HIDE DEF res, c
  <2>4. /\ i.lb.n \in Int
        /\ \A r \in Int : Holds(res, r) => i.lb.n = c * r
    BY <1>3, <2>2, IDivUnit DEF c
  <2>5. ASSUME NEW q \in Q PROVE q[v] # i.lb.n
    <3>1. q[v] \in Int /\ Val(e, q) \in Int /\ c \in {-1, 1} /\ Val(e, q) # 0
      BY <2>1, VertFacts, ValuationFacts, ValSum DEF c
    <3> DEFINE k == c * q[v] - Val(e, q)
    <3>2. k \in Int
      BY <3>1
    <3>3. Holds(res, k)
      BY <2>2, <2>3
    <3>4. i.lb.n = c * k
      <4> HIDE DEF k, i
      <4> QED
        BY <2>4, <3>2, <3>3
    <3>5. c * k # q[v]
      BY <3>1
    <3> QED
      BY <3>4, <3>5
  <2> HIDE DEF i
  <2>6. add_univar_disequation(z, v, i.lb.n) \in Zone(Q)
    BY <2>1, <2>4, <2>5, UnivarDisequationSound
  <2> QED
    BY <1>1, <1>3, <2>6
<1> QED
  BY <1>2, <1>3

LEMMA DisequationSound ==
  ASSUME NEW Q \in SUBSET Valuations, NEW z \in Zone(Q), NEW e, IsLinear(e),
         \A v \in DOMAIN e.t : e.t[v] \in {-1, 1}, \A q \in Q : Val(e, q) # 0
  PROVE  Disequation(z, e) \in Zone(Q)
<1> DEFINE S == DOMAIN e.t
           seq == InOrder(S)
           n == Cardinality(S)
<1>1. IsFiniteSet(S) /\ S \subseteq Int
  BY LinearFacts DEF Vars
<1>2. Lists(seq, S)
  BY <1>1, InOrderFacts
<1>3. n \in Nat /\ DOMAIN seq = 1..n /\ \A j \in 1..n : seq[j] \in S
  BY <1>2 DEF Lists
<1>4. \A zz \in Zone(Q) : \A v \in S : Exclude(zz, e, v) \in Zone(Q)
  BY ExcludeSound
<1>5. Disequation(z, e) = ExcludeAll(e, z, seq)
  BY DEF Disequation, ExcludeAll
<1> HIDE DEF n, seq, S
<1>6. ExcludeAll(e, z, seq) \in Zone(Q)
  <2> DEFINE G == Zone(Q)
  <2>1. z \in G /\ \A zz \in G : \A v \in S : Exclude(zz, e, v) \in G
    BY <1>4
  <2> HIDE DEF G
  <2>2. ExcludeAll(e, z, seq) \in G
    BY <1>3, <2>1, ExcludeAllWithin
  <2> QED
    BY <2>2 DEF G
<1> QED
  BY <1>5, <1>6

(* A constraint at a valuation. *)
Meets(q, cst) == HoldsFor(cst.kind, Val(cst.e, q))

LEMMA KindFacts ==
  ASSUME NEW cst, IsConstraint(cst)
  PROVE  /\ cst.kind \in {"LE", "LT", "EQ", "NE"} /\ IsLinear(cst.e) /\ cst = [e |-> cst.e, kind |-> cst.kind]
         /\ \A n \in Int : /\ cst.kind = "LE" => (HoldsFor(cst.kind, n) <=> n <= 0)
                           /\ cst.kind = "LT" => (HoldsFor(cst.kind, n) <=> n < 0)
                           /\ cst.kind = "EQ" => (HoldsFor(cst.kind, n) <=> n = 0)
                           /\ cst.kind = "NE" => (HoldsFor(cst.kind, n) <=> n # 0)
<1>1. /\ cst.kind \in {"LE", "LT", "EQ", "NE"} /\ IsLinear(cst.e) /\ cst = [e |-> cst.e, kind |-> cst.kind]
  BY DEF IsConstraint
<1>2. CASE cst.kind = "LE"
  BY <1>1, <1>2 DEF HoldsFor
<1>3. CASE cst.kind = "LT"
  BY <1>1, <1>3 DEF HoldsFor
<1>4. CASE cst.kind = "EQ"
  BY <1>1, <1>4 DEF HoldsFor
<1>5. CASE cst.kind = "NE"
  BY <1>1, <1>5 DEF HoldsFor
<1> QED
  BY <1>1, <1>2, <1>3, <1>4, <1>5

LEMMA PlusOneVal ==
  ASSUME NEW e, IsLinear(e), NEW w \in Valuations
  PROVE  IsLinear(PlusOne(e)) /\ Val(PlusOne(e), w) = Val(e, w) + 1
<1>1. e.c \in Int /\ e = [c |-> e.c, t |-> e.t]
  BY LinearFacts
<1>2. PlusOne(e) = [c |-> e.c + 1, t |-> e.t]
  BY <1>1 DEF PlusOne
<1>3. PlusOne(e).c = e.c + 1 /\ PlusOne(e).t = e.t
  BY <1>2
<1>4. IsLinear(PlusOne(e))
  BY <1>1, <1>2, <1>3 DEF IsLinear
<1> DEFINE s == SumFunction(Products(e.t, DOMAIN e.t, w))
<1>5. Val(e, w) = e.c + s /\ Val(PlusOne(e), w) = e.c + 1 + s
  BY <1>3 DEF Val
<1>6. s \in Int
  <2>1. SumFunction(Products(e.t, DOMAIN e.t, w)) = SumFunctionOnSet(Products(e.t, DOMAIN e.t, w), DOMAIN e.t)
    BY DEF SumFunction, Products
  <2> QED
    BY <2>1, ValSum
<1> HIDE DEF s
<1> QED
  BY <1>1, <1>4, <1>5, <1>6

LEMMA AddInequalitiesSound ==
  ASSUME NEW Q \in SUBSET Valuations, NEW z \in Zone(Q), NEW cst, IsConstraint(cst), cst.kind # "NE",
         \A q \in Q : Meets(q, cst)
  PROVE  FoldLeft(add_linear_leq, z, Inequalities(cst)) \in Zone(Q)
<1> DEFINE B == {e \in {cst.e, PlusOne(cst.e), Negate(cst.e)} : IsLinear(e) /\ \A q \in Q : Val(e, q) <= 0}
           seq == Inequalities(cst)
<1>1. cst.kind \in {"LE", "LT", "EQ"} /\ IsLinear(cst.e)
  BY KindFacts
<1>2. \A zz \in Zone(Q) : \A e \in B : add_linear_leq(zz, e) \in Zone(Q)
  BY AddLinearLeqSound
<1>3. \E n \in Nat : DOMAIN seq = 1..n /\ \A i \in 1..n : seq[i] \in B
  <2>1. ASSUME NEW q \in Q
        PROVE  /\ Val(cst.e, q) \in Int
               /\ cst.kind = "LE" => Val(cst.e, q) <= 0
               /\ cst.kind = "LT" => Val(cst.e, q) < 0
               /\ cst.kind = "EQ" => Val(cst.e, q) = 0
    <3>1. Val(cst.e, q) \in Int
      BY <1>1, ValSum
    <3> QED
      BY <3>1, KindFacts DEF Meets
  <2>2. CASE cst.kind = "LE"
    <3>1. seq = <<cst.e>>
      BY <2>2 DEF Inequalities
    <3>2. cst.e \in B
      BY <1>1, <2>1, <2>2
    <3>3. DOMAIN seq = 1..1 /\ seq[1] \in B
      BY <3>1, <3>2
    <3> QED
      BY <3>3
  <2>3. CASE cst.kind = "LT"
    <3>1. seq = <<PlusOne(cst.e)>>
      BY <2>3 DEF Inequalities
    <3>2. IsLinear(PlusOne(cst.e))
      <4>1. [v \in Verts |-> 0] \in Valuations
        BY VertFacts DEF Valuations
      <4> QED
        BY <1>1, <4>1, PlusOneVal
    <3>3. \A q \in Q : Val(PlusOne(cst.e), q) <= 0
      <4> SUFFICES ASSUME NEW q \in Q PROVE Val(PlusOne(cst.e), q) <= 0
        OBVIOUS
      <4>1. Val(PlusOne(cst.e), q) = Val(cst.e, q) + 1
        BY <1>1, PlusOneVal
      <4> QED
        BY <2>1, <2>3, <4>1
    <3>4. PlusOne(cst.e) \in B
      BY <3>2, <3>3
    <3>5. DOMAIN seq = 1..1 /\ seq[1] \in B
      BY <3>1, <3>4
    <3> QED
      BY <3>5
  <2>4. CASE cst.kind = "EQ"
    <3>1. seq = <<cst.e, Negate(cst.e)>>
      BY <2>4 DEF Inequalities
    <3>2. IsLinear(Negate(cst.e))
      <4>1. [v \in Verts |-> 0] \in Valuations
        BY VertFacts DEF Valuations
      <4> QED
        BY <1>1, <4>1, NegateVal
    <3>3. \A q \in Q : Val(Negate(cst.e), q) <= 0
      <4> SUFFICES ASSUME NEW q \in Q PROVE Val(Negate(cst.e), q) <= 0
        OBVIOUS
      <4>1. Val(Negate(cst.e), q) = - Val(cst.e, q)
        BY <1>1, NegateVal
      <4> QED
        BY <2>1, <2>4, <4>1
    <3>4. Negate(cst.e) \in B
      BY <3>2, <3>3
    <3>5. cst.e \in B
      BY <1>1, <2>1, <2>4
    <3> HIDE DEF B
    <3>6. DOMAIN seq = 1..2 /\ \A i \in 1..2 : seq[i] \in B
      BY <3>1, <3>4, <3>5
    <3> QED
      BY <3>6
  <2> QED
    BY <1>1, <2>2, <2>3, <2>4
<1>4. PICK n \in Nat : DOMAIN seq = 1..n /\ \A i \in 1..n : seq[i] \in B
  BY <1>3
<1>5. FoldLeft(add_linear_leq, z, seq) = AddInequalities(z, seq)
  <2> HIDE DEF seq
  <2> QED
    BY DEF AddInequalities, FoldLeft, MapThenFoldSet
<1> HIDE DEF B, seq
<1>6. AddInequalities(z, seq) \in Zone(Q)
  BY <1>2, <1>4, AddInequalitiesWithin
<1>7. FoldLeft(add_linear_leq, z, seq) \in Zone(Q)
  BY <1>5, <1>6
<1> QED
  BY <1>7 DEF seq

(* What holds of an assumed constraint. *)
LEMMA AddConstraintSound ==
  ASSUME NEW Q \in SUBSET Valuations, NEW z \in Zone(Q), NEW cst, IsConstraint(cst),
         \A q \in Q : Meets(q, cst)
  PROVE  add_constraint(z, cst) \in Zone(Q)
<1>1. CASE ~ z.ok
  BY <1>1 DEF add_constraint
<1>2. CASE z.ok /\ cst.e.t = <<>>
  <2>1. \A q \in Q : Val(cst.e, q) = cst.e.c
    <3> SUFFICES ASSUME NEW q \in Q PROVE Val(cst.e, q) = cst.e.c
      OBVIOUS
    <3>1. DOMAIN cst.e.t = {}
      BY <1>2
    <3>2. cst.e.c \in Int /\ IsLinear(cst.e)
      BY KindFacts, LinearFacts
    <3> DEFINE f == Products(cst.e.t, DOMAIN cst.e.t, q)
    <3>3. Val(cst.e, q) = cst.e.c + SumFunctionOnSet(f, {})
      BY <3>1, <3>2, ValSum
    <3>4. SumFunctionOnSet(f, {}) = 0
      <4>1. IsFiniteSet({}) /\ IntOn(f, {})
        BY FS_EmptySet DEF IntOn
      <4> HIDE DEF f
      <4> QED
        BY <4>1, SumStep
    <3> HIDE DEF f
    <3> QED
      BY <3>2, <3>3, <3>4
  <2>2. Q # {} => HoldsFor(cst.kind, cst.e.c)
    BY <2>1 DEF Meets
  <2>3. CASE HoldsFor(cst.kind, cst.e.c)
    BY <1>2, <2>3 DEF add_constraint
  <2>4. CASE ~ HoldsFor(cst.kind, cst.e.c)
    <3>1. Q = {} /\ add_constraint(z, cst) = BottomZone
      BY <1>2, <2>2, <2>4 DEF add_constraint
    <3> QED
      BY <3>1, EmptyZones
  <2> QED
    BY <2>3, <2>4
<1>3. CASE z.ok /\ cst.e.t # <<>> /\ cst.kind = "NE"
  <2>1. add_constraint(z, cst) = Disequation(z, cst.e)
    BY <1>3 DEF add_constraint
  <2>2. IsLinear(cst.e) /\ \A v \in DOMAIN cst.e.t : cst.e.t[v] \in {-1, 1}
    BY <1>3 DEF IsConstraint
  <2>3. \A q \in Q : Val(cst.e, q) # 0
    BY <1>3, <2>2, KindFacts, ValSum DEF Meets
  <2> QED
    BY <2>1, <2>2, <2>3, DisequationSound
<1>4. CASE z.ok /\ cst.e.t # <<>> /\ cst.kind # "NE"
  <2>1. add_constraint(z, cst) = FoldLeft(add_linear_leq, z, Inequalities(cst))
    BY <1>4 DEF add_constraint
  <2> QED
    BY <1>4, <2>1, AddInequalitiesSound
<1> QED
  BY <1>1, <1>2, <1>3, <1>4

(* A zone without edges stands for every valuation. *)
LEMMA TopIsAbove ==
  ASSUME NEW Q \in SUBSET Valuations, NEW z \in Zone(Q), z.ok, zone_is_top(z), NEW R \in SUBSET Valuations
  PROVE  z \in Zone(R)
<1>1. z.p \in Potentials /\ z = [ok |-> z.ok, g |-> z.g, p |-> z.p] /\ z.ok = TRUE
  BY ZoneElim
<1>2. z.g \in Gr(DOMAIN z.p, With(R, z.p))
  BY EmptyGr DEF zone_is_top
<1>3. [ok |-> TRUE, g |-> z.g, p |-> z.p] \in Zone(R)
  BY <1>1, <1>2, ZoneIntro
<1> QED
  BY <1>1, <1>3

LEMMA RebasedFacts ==
  ASSUME NEW Q \in SUBSET Valuations, NEW z \in Zone(Q), NEW S, S \subseteq DOMAIN z.p, 0 \in S
  PROVE  /\ Rebased(z, S) \in Potentials /\ DOMAIN Rebased(z, S) = S
         /\ \A v \in S : Model(Rebased(z, S))[v] = Model(z.p)[v]
         /\ \A v \in S : Rebased(z, S)[v] \in Int /\ Rebased(z, S)[v] = Model(z.p)[v]
         /\ Rebased(z, S)[0] = 0
<1> DEFINE p == Rebased(z, S)
<1>1. z.p \in Potentials /\ DOMAIN z.p \in SUBSET Live /\ (\A v \in DOMAIN z.p : z.p[v] \in Int) /\ 0 \in DOMAIN z.p
  BY ZoneElim
<1>2. S \in SUBSET Live /\ DOMAIN p = S /\ (\A v \in S : p[v] = z.p[v] - z.p[0] /\ p[v] \in Int) /\ p \in [S -> Int]
  BY <1>1 DEF Rebased
<1>3. p \in Potentials
  <2> HIDE DEF p
  <2> QED
    BY <1>2, PotentialIntro
<1>4. p[0] = 0
  BY <1>1, <1>2
<1>5. \A v \in S : Model(z.p)[v] = z.p[v] - z.p[0]
  BY <1>1, ModelFacts
<1>6. \A v \in S : Model(p)[v] = p[v] - 0
  <2> HIDE DEF p
  <2> QED
    BY <1>2, <1>3, <1>4, ModelFacts
<1> HIDE DEF p
<1>7. \A v \in S : Model(p)[v] = Model(z.p)[v] /\ p[v] = Model(z.p)[v] /\ p[v] \in Int
  BY <1>2, <1>5, <1>6
<1> QED
  BY <1>2, <1>3, <1>4, <1>7 DEF p

LEMMA DeferredGr ==
  ASSUME NEW V \in SUBSET Verts, NEW P \in SUBSET Valuations, NEW gx \in Gr(V, P), NEW Q, NEW gy \in Gr(V, Q)
  PROVE  Deferred(gx, gy) \in Gr(V, P)
<1> DEFINE h == SubGraph(gy, 0)
           D == {f \in DOMAIN h : elem(gx, f[1], 0) /\ elem(gx, 0, f[2])}
           g == Deferred(gx, gy)
<1>1. DOMAIN h \subseteq V \X V
  <2>1. DOMAIN h \subseteq DOMAIN gy
    BY DEF SubGraph
  <2> QED
    BY <2>1, GrElim
<1>2. ASSUME NEW e \in D
      PROVE  /\ ThroughZero(gx, e[1], e[2]) \in Int
             /\ \A q \in P : q[e[2]] - q[e[1]] <= ThroughZero(gx, e[1], e[2])
  <2>1. elem(gx, e[1], 0) /\ elem(gx, 0, e[2])
    OBVIOUS
  <2>2. /\ e[1] \in V /\ e[2] \in V /\ 0 \in V
        /\ edge_val(gx, e[1], 0) \in Int /\ edge_val(gx, 0, e[2]) \in Int
        /\ \A q \in P : q[0] - q[e[1]] <= edge_val(gx, e[1], 0) /\ q[e[2]] - q[0] <= edge_val(gx, 0, e[2])
    BY <2>1, ElemFacts
  <2>3. \A q \in P : q[0] = 0 /\ q[e[1]] \in Int /\ q[e[2]] \in Int
    BY <2>2, ValuationFacts
  <2> QED
    BY <2>2, <2>3 DEF ThroughZero
<1>3. D \in SUBSET (V \X V)
  BY <1>1
<1>4. g = [e \in D |-> ThroughZero(gx, e[1], e[2])]
  BY DEF Deferred
<1> HIDE DEF D, g
<1>5. g \in [D -> Int] /\ \A e \in D : \A q \in P : q[e[2]] - q[e[1]] <= g[e]
  BY <1>2, <1>4
<1>6. g \in Gr(V, P)
  BY <1>3, <1>5, GrIntro
<1> QED
  BY <1>6 DEF g

LEMMA ReclosedGr ==
  ASSUME NEW p, DOMAIN p \in SUBSET Verts, \A u \in DOMAIN p : p[u] \in Int, NEW P \in SUBSET Valuations,
         NEW gx \in Gr(DOMAIN p, P), NEW h \in Gr(DOMAIN p, P)
  PROVE  Reclosed(gx, h, p) \in Gr(DOMAIN p, P)
<1> DEFINE met == SyntacticMeet(gx, h)
           sub == SubGraph(met, 0)
           delta == close_after_meet(sub, p, gx, h)
<1>1. met \in Gr(DOMAIN p, P)
  BY SyntacticMeetSound
<1>2. sub \in Gr(DOMAIN p, P)
  <2> HIDE DEF met
  <2>1. sub \in Gr(DOMAIN p \ {0}, P)
    BY <1>1, SubGraphGr
  <2> HIDE DEF sub
  <2>2. DOMAIN p \ {0} \subseteq DOMAIN p /\ P \subseteq P
    OBVIOUS
  <2> QED
    BY <2>1, <2>2, GrMono
<1>3. delta \in Gr(DOMAIN p, P)
  <2> HIDE DEF sub
  <2> QED
    BY <1>2, CloseMeetSound
<1>4. Reclosed(gx, h, p) = apply_delta(met, delta)
  <2>1. Reclosed(gx, h, p) = Let(met, LAMBDA m : apply_delta(m, close_after_meet(SubGraph(m, 0), p, gx, h)))
    BY DEF Reclosed
  <2> HIDE DEF met
  <2> QED
    BY <2>1 DEF Let
<1> HIDE DEF met, delta
<1>5. apply_delta(met, delta) \in Gr(DOMAIN p, P)
  BY <1>1, <1>3, MergeGr DEF apply_delta
<1> QED
  BY <1>4, <1>5

LEMMA RelatedGr ==
  ASSUME NEW V \in SUBSET Verts, NEW P \in SUBSET Valuations, NEW Q \in SUBSET Valuations,
         NEW gx \in Gr(V, P), NEW gy \in Gr(V, Q),
         NEW S, \A s \in S : elem(gx, s, 0) /\ elem(gy, s, 0),
         NEW D, \A d \in D : elem(gx, 0, d) /\ elem(gy, 0, d)
  PROVE  Related(gx, gy, S, D) \in Gr(V, P \cup Q)
<1> DEFINE E == {f \in S \X D : f[1] # f[2]}
           g == Related(gx, gy, S, D)
           R == P \cup Q
<1>1. ASSUME NEW e \in E
      PROVE  /\ e[1] \in V /\ e[2] \in V
             /\ Max({ThroughZero(gx, e[1], e[2]), ThroughZero(gy, e[1], e[2])}) \in Int
             /\ \A q \in R : q[e[2]] - q[e[1]] <= Max({ThroughZero(gx, e[1], e[2]), ThroughZero(gy, e[1], e[2])})
  <2> DEFINE s == e[1]
             d == e[2]
             a == ThroughZero(gx, s, d)
             b == ThroughZero(gy, s, d)
  <2>1. elem(gx, s, 0) /\ elem(gy, s, 0) /\ elem(gx, 0, d) /\ elem(gy, 0, d)
    OBVIOUS
  <2> HIDE DEF s, d
  <2>2. /\ s \in V /\ d \in V /\ 0 \in V
        /\ edge_val(gx, s, 0) \in Int /\ edge_val(gx, 0, d) \in Int
        /\ \A q \in P : q[0] - q[s] <= edge_val(gx, s, 0) /\ q[d] - q[0] <= edge_val(gx, 0, d)
    BY <2>1, ElemFacts
  <2>3. /\ edge_val(gy, s, 0) \in Int /\ edge_val(gy, 0, d) \in Int
        /\ \A q \in Q : q[0] - q[s] <= edge_val(gy, s, 0) /\ q[d] - q[0] <= edge_val(gy, 0, d)
    BY <2>1, ElemFacts
  <2>4. \A q \in P : q[0] = 0 /\ q[s] \in Int /\ q[d] \in Int
    BY <2>2, ValuationFacts
  <2>5. \A q \in Q : q[0] = 0 /\ q[s] \in Int /\ q[d] \in Int
    BY <2>2, ValuationFacts
  <2>6. a \in Int /\ b \in Int /\ (\A q \in P : q[d] - q[s] <= a) /\ (\A q \in Q : q[d] - q[s] <= b)
    BY <2>2, <2>3, <2>4, <2>5 DEF ThroughZero
  <2> HIDE DEF a, b
  <2> DEFINE m == Max({a, b})
  <2>7. m = IF a >= b THEN a ELSE b
    BY <2>6, MinMaxPair
  <2> HIDE DEF m
  <2>8. m \in Int /\ a <= m /\ b <= m
    BY <2>6, <2>7
  <2>9. \A q \in R : q[d] - q[s] <= m
    <3>1. \A q \in P : q[d] - q[s] <= m
      BY <2>4, <2>6, <2>8
    <3>2. \A q \in Q : q[d] - q[s] <= m
      BY <2>5, <2>6, <2>8
    <3> QED
      BY <3>1, <3>2
  <2> QED
    BY <2>2, <2>8, <2>9 DEF m, a, b, s, d
<1>2. E \in SUBSET (V \X V)
  BY <1>1
<1>3. g = [e \in E |-> Max({ThroughZero(gx, e[1], e[2]), ThroughZero(gy, e[1], e[2])})]
  BY DEF Related
<1> HIDE DEF E, g, R
<1>4. g \in [E -> Int] /\ \A e \in E : \A q \in R : q[e[2]] - q[e[1]] <= g[e]
  BY <1>1, <1>3
<1>5. g \in Gr(V, R)
  BY <1>2, <1>4, GrIntro
<1> QED
  BY <1>5 DEF g, R

(* The first and the last of the independent relations. *)
CommonLbs(gx, gy) == {e[1] : e \in {f \in DOMAIN gx \cap DOMAIN gy : f[2] = 0}}
CommonUbs(gx, gy) == {e[2] : e \in {f \in DOMAIN gx \cap DOMAIN gy : f[1] = 0}}
LowerIn(gx, gy, g, h) == {v \in CommonLbs(gx, gy) : edge_val(g, v, 0) < edge_val(h, v, 0)}
UpperIn(gx, gy, g, h) == {v \in CommonUbs(gx, gy) : edge_val(g, 0, v) < edge_val(h, 0, v)}

LEMMA IndependentGr ==
  ASSUME NEW V \in SUBSET Verts, NEW P \in SUBSET Valuations, NEW Q \in SUBSET Valuations,
         NEW gx \in Gr(V, P), NEW gy \in Gr(V, Q)
  PROVE  /\ DOMAIN IndependentRelations(gx, gy) = 1..2
         /\ \A i \in 1..2 : IndependentRelations(gx, gy)[i] \in Gr(V, P \cup Q)
<1> DEFINE r1 == Related(gx, gy, LowerIn(gx, gy, gy, gx), UpperIn(gx, gy, gx, gy))
           r2 == Related(gx, gy, LowerIn(gx, gy, gx, gy), UpperIn(gx, gy, gy, gx))
<1>1. IndependentRelations(gx, gy) = <<r1, r2>>
  BY DEF IndependentRelations, CommonLbs, CommonUbs, LowerIn, UpperIn
<1>2. \A v \in CommonLbs(gx, gy) : elem(gx, v, 0) /\ elem(gy, v, 0)
  <2>1. \A e \in DOMAIN gx \cap DOMAIN gy : e = <<e[1], e[2]>>
    BY GrElim
  <2> QED
    BY <2>1 DEF CommonLbs, elem
<1>3. \A v \in CommonUbs(gx, gy) : elem(gx, 0, v) /\ elem(gy, 0, v)
  <2>1. \A e \in DOMAIN gx \cap DOMAIN gy : e = <<e[1], e[2]>>
    BY GrElim
  <2> QED
    BY <2>1 DEF CommonUbs, elem
<1>4. \A g, h : /\ \A v \in LowerIn(gx, gy, g, h) : elem(gx, v, 0) /\ elem(gy, v, 0)
                /\ \A v \in UpperIn(gx, gy, g, h) : elem(gx, 0, v) /\ elem(gy, 0, v)
  BY <1>2, <1>3 DEF LowerIn, UpperIn
<1>5. r1 \in Gr(V, P \cup Q)
  BY <1>4, RelatedGr
<1>6. r2 \in Gr(V, P \cup Q)
  BY <1>4, RelatedGr
<1> HIDE DEF r1, r2
<1> QED
  BY <1>1, <1>5, <1>6

LEMMA JoinGraphsGr ==
  ASSUME NEW V \in SUBSET Verts, NEW P \in SUBSET Valuations, NEW Q \in SUBSET Valuations,
         NEW gx \in Gr(V, P), NEW gy \in Gr(V, Q),
         NEW px, DOMAIN px = V, \A u \in V : px[u] \in Int, NEW py, DOMAIN py = V, \A u \in V : py[u] \in Int
  PROVE  JoinGraphs(gx, gy, px, py) \in Gr(V, P \cup Q)
<1> DEFINE rx == Reclosed(gx, Deferred(gx, gy), px)
           ry == Reclosed(gy, Deferred(gy, gx), py)
           base == SyntacticJoin(rx, ry)
           seq == IndependentRelations(gx, gy)
           R == P \cup Q
<1>1. Deferred(gx, gy) \in Gr(V, P)
  BY DeferredGr
<1>2. Deferred(gy, gx) \in Gr(V, Q)
  BY DeferredGr
<1>3. rx \in Gr(V, P)
  BY <1>1, ReclosedGr
<1>4. ry \in Gr(V, Q)
  BY <1>2, ReclosedGr
<1>5. base \in Gr(V, R)
  <2> HIDE DEF rx, ry
  <2> QED
    BY <1>3, <1>4, SyntacticJoinSound
<1>6. DOMAIN seq = 1..2 /\ \A i \in 1..2 : seq[i] \in Gr(V, R)
  BY IndependentGr
<1>7. JoinGraphs(gx, gy, px, py) = MeetGraphs(base, seq)
  <2>1. JoinGraphs(gx, gy, px, py) = FoldLeft(SyntacticMeet, base, seq)
    BY DEF JoinGraphs
  <2> HIDE DEF base, seq
  <2> QED
    BY <2>1 DEF MeetGraphs, FoldLeft, MapThenFoldSet
<1> HIDE DEF base, seq, R
<1>8. \A g \in Gr(V, R) : \A h \in Gr(V, R) : SyntacticMeet(g, h) \in Gr(V, R)
  BY SyntacticMeetSound
<1>9. MeetGraphs(base, seq) \in Gr(V, R)
  <2> DEFINE G == Gr(V, R)
  <2>1. base \in G /\ (\A g \in G : \A h \in G : SyntacticMeet(g, h) \in G) /\ \A i \in 1..2 : seq[i] \in G
    BY <1>5, <1>6, <1>8
  <2>2. 2 \in Nat
    OBVIOUS
  <2> HIDE DEF G
  <2>3. MeetGraphs(base, seq) \in G
    BY <1>6, <2>1, <2>2, MeetGraphsWithin
  <2> QED
    BY <2>3 DEF G
<1> QED
  BY <1>7, <1>9 DEF R

LEMMA CollectedSound ==
  ASSUME NEW Q \in SUBSET Valuations, NEW p \in Potentials, NEW g \in Gr(DOMAIN p, With(Q, p))
  PROVE  Collected(g, p) \in Zone(Q)
<1> DEFINE D == {u \in DOMAIN p : u = 0 \/ succs(g, u) \cup preds(g, u) # {}}
           r == [v \in D |-> p[v]]
<1>1. p \in [DOMAIN p -> Int] /\ DOMAIN p \in SUBSET Live /\ 0 \in DOMAIN p
  BY PotentialElim
<1>2. 0 \in D /\ D \in SUBSET Live /\ DOMAIN r = D /\ r \in [D -> Int] /\ \A v \in D : r[v] = p[v]
  BY <1>1
<1>3. r \in Potentials
  <2> HIDE DEF D, r
  <2> QED
    BY <1>2, PotentialIntro
<1>4. With(Q, p) \in SUBSET Valuations /\ Model(p) \in With(Q, p) /\ Q \subseteq With(Q, p)
  BY WithFacts
<1>5. DOMAIN g \in SUBSET (D \X D)
  <2> SUFFICES ASSUME NEW e \in DOMAIN g PROVE e \in D \X D
    OBVIOUS
  <2>1. e[1] \in DOMAIN p /\ e[2] \in DOMAIN p /\ e = <<e[1], e[2]>>
    BY GrElim
  <2>2. e[2] \in succs(g, e[1]) /\ e[1] \in preds(g, e[2])
    BY DEF succs, preds
  <2> QED
    BY <2>1, <2>2
<1>6. \A v \in D : Model(r)[v] = Model(p)[v]
  <2>1. \A v \in D : Model(p)[v] = p[v] - p[0]
    BY ModelFacts
  <2>2. \A v \in D : Model(r)[v] = r[v] - r[0]
    <3> HIDE DEF r, D
    <3> QED
      BY <1>2, <1>3, ModelFacts
  <2> HIDE DEF r, D
  <2> QED
    BY <1>2, <2>1, <2>2
<1>7. g \in Gr(D, With(Q, p))
  <2>1. g \in [DOMAIN g -> Int] /\ \A e \in DOMAIN g : \A q \in With(Q, p) : q[e[2]] - q[e[1]] <= g[e]
    BY GrElim
  <2> HIDE DEF D
  <2> QED
    BY <1>5, <2>1, GrIntro
<1>8. g \in Gr(D, With(Q, r))
  <2>1. \A s \in With(Q, r) : \E q \in With(Q, p) : \A u \in D : s[u] = q[u]
    <3> HIDE DEF r, D
    <3> QED
      BY <1>4, <1>6 DEF With
  <2> HIDE DEF r, D
  <2> QED
    BY <1>7, <2>1, GrAgree
<1>9. Collected(g, p) = [ok |-> TRUE, g |-> g, p |-> r]
  BY DEF Collected
<1> HIDE DEF r, D
<1> QED
  BY <1>2, <1>3, <1>8, <1>9, ZoneIntro

(* Two zones brought to their common vertices. *)
LEMMA CommonParts ==
  ASSUME NEW P \in SUBSET Valuations, NEW Q \in SUBSET Valuations, NEW x \in Zone(P), NEW y \in Zone(Q),
         NEW both, both = DOMAIN x.p \cap DOMAIN y.p
  PROVE  /\ both \in SUBSET Verts /\ 0 \in both /\ both \subseteq DOMAIN x.p /\ both \subseteq DOMAIN y.p
         /\ GraphPerm(x.g, both) \in Gr(both, With(P, x.p))
         /\ GraphPerm(y.g, both) \in Gr(both, With(Q, y.p))
         /\ With(P, x.p) \in SUBSET Valuations /\ With(Q, y.p) \in SUBSET Valuations
         /\ Rebased(x, both) \in Potentials /\ DOMAIN Rebased(x, both) = both
         /\ \A v \in both : Rebased(x, both)[v] \in Int
         /\ DOMAIN Rebased(y, both) = both /\ \A v \in both : Rebased(y, both)[v] \in Int
<1>1. /\ DOMAIN x.p \in SUBSET Verts /\ 0 \in DOMAIN x.p /\ x.g \in Gr(DOMAIN x.p, With(P, x.p))
      /\ With(P, x.p) \in SUBSET Valuations
  BY ZoneElim
<1>2. /\ DOMAIN y.p \in SUBSET Verts /\ 0 \in DOMAIN y.p /\ y.g \in Gr(DOMAIN y.p, With(Q, y.p))
      /\ With(Q, y.p) \in SUBSET Valuations
  BY ZoneElim
<1>3. both \in SUBSET Verts /\ 0 \in both /\ both \subseteq DOMAIN x.p /\ both \subseteq DOMAIN y.p
  BY <1>1, <1>2
<1>4. /\ GraphPerm(x.g, both) \in Gr(both, With(P, x.p))
      /\ GraphPerm(y.g, both) \in Gr(both, With(Q, y.p))
  BY <1>1, <1>2, GraphPermGr
<1>5. /\ Rebased(x, both) \in Potentials /\ DOMAIN Rebased(x, both) = both
      /\ \A v \in both : Rebased(x, both)[v] \in Int
  BY <1>3, RebasedFacts
<1>6. DOMAIN Rebased(y, both) = both /\ \A v \in both : Rebased(y, both)[v] \in Int
  BY <1>3, RebasedFacts
<1> QED
  BY <1>1, <1>2, <1>3, <1>4, <1>5, <1>6

(* The rebased potential of x goes with a graph that holds for x. *)
LEMMA RebasedGr ==
  ASSUME NEW P \in SUBSET Valuations, NEW Q \in SUBSET Valuations, NEW x \in Zone(P), NEW y \in Zone(Q),
         NEW both, both = DOMAIN x.p \cap DOMAIN y.p,
         NEW g \in Gr(both, With(P, x.p) \cup With(Q, y.p))
  PROVE  g \in Gr(DOMAIN Rebased(x, both), With(P \cup Q, Rebased(x, both)))
<1> DEFINE p == Rebased(x, both)
<1>1. DOMAIN p = both /\ \A v \in both : Model(p)[v] = Model(x.p)[v]
  BY CommonParts, RebasedFacts
<1>2. /\ P \subseteq With(P, x.p) /\ Model(x.p) \in With(P, x.p) /\ Q \subseteq With(Q, y.p)
  BY DEF With
<1> HIDE DEF p
<1>3. \A r \in With(P \cup Q, p) : \E q \in With(P, x.p) \cup With(Q, y.p) : \A u \in both : r[u] = q[u]
  BY <1>1, <1>2 DEF With
<1> DEFINE A == With(P, x.p) \cup With(Q, y.p)
           B == With(P \cup Q, p)
<1>4. g \in Gr(both, A) /\ \A r \in B : \E q \in A : \A u \in both : r[u] = q[u]
  BY <1>3
<1> HIDE DEF A, B
<1>5. g \in Gr(both, B)
  BY <1>4, GrAgree
<1> QED
  BY <1>1, <1>5 DEF B, p

LEMMA JoinSound ==
  ASSUME NEW P \in SUBSET Valuations, NEW Q \in SUBSET Valuations, NEW x \in Zone(P), NEW y \in Zone(Q)
  PROVE  zone_join(x, y) \in Zone(P \cup Q)
<1>1. (P # {} => x.ok) /\ (Q # {} => y.ok) /\ P \cup Q \in SUBSET Valuations
  BY ZoneElim
<1>2. CASE ~ x.ok
  <2>1. P \cup Q = Q /\ zone_join(x, y) = y
    BY <1>1, <1>2 DEF zone_join
  <2> QED
    BY <2>1
<1>3. CASE x.ok /\ y.ok /\ zone_is_top(y)
  <2>1. zone_join(x, y) = y
    BY <1>3 DEF zone_join
  <2> QED
    BY <1>1, <1>3, <2>1, TopIsAbove
<1>4. CASE x.ok /\ ~ y.ok
  <2>1. P \cup Q = P /\ zone_join(x, y) = x
    BY <1>1, <1>4 DEF zone_join
  <2> QED
    BY <2>1
<1>5. CASE x.ok /\ y.ok /\ ~ zone_is_top(y) /\ zone_is_top(x)
  <2>1. zone_join(x, y) = x
    BY <1>5 DEF zone_join
  <2> QED
    BY <1>1, <1>5, <2>1, TopIsAbove
<1>6. CASE x.ok /\ y.ok /\ ~ zone_is_top(y) /\ ~ zone_is_top(x)
  <2> DEFINE both == DOMAIN x.p \cap DOMAIN y.p
             px == Rebased(x, both)
             py == Rebased(y, both)
             gx == GraphPerm(x.g, both)
             gy == GraphPerm(y.g, both)
             g == JoinGraphs(gx, gy, px, py)
             JoinOf(a, b) == Let(JoinGraphs(a, b, px, py), LAMBDA h : Collected(h, px))
  <2>1. zone_join(x, y) = Let(<<gx, gy>>, LAMBDA gs : JoinOf(gs[1], gs[2]))
    BY <1>6 DEF zone_join
  <2>2. Let(<<gx, gy>>, LAMBDA gs : JoinOf(gs[1], gs[2])) = JoinOf(gx, gy)
    <3> HIDE DEF gx, gy, JoinOf
    <3> QED
      BY DEF Let
  <2>3. JoinOf(gx, gy) = Collected(g, px)
    <3> HIDE DEF g, px
    <3>1. JoinOf(gx, gy) = Let(g, LAMBDA h : Collected(h, px))
      BY DEF g
    <3>2. Let(g, LAMBDA h : Collected(h, px)) = Collected(g, px)
      BY DEF Let
    <3> QED
      BY <3>1, <3>2
  <2> HIDE DEF both
  <2>4. /\ both \in SUBSET Verts
        /\ gx \in Gr(both, With(P, x.p)) /\ gy \in Gr(both, With(Q, y.p))
        /\ With(P, x.p) \in SUBSET Valuations /\ With(Q, y.p) \in SUBSET Valuations
        /\ px \in Potentials /\ DOMAIN px = both /\ (\A v \in both : px[v] \in Int)
        /\ DOMAIN py = both /\ (\A v \in both : py[v] \in Int)
    BY CommonParts DEF both
  <2>5. g \in Gr(both, With(P, x.p) \cup With(Q, y.p))
    <3> HIDE DEF gx, gy, px, py
    <3> QED
      BY <2>4, JoinGraphsGr
  <2>6. g \in Gr(DOMAIN px, With(P \cup Q, px))
    <3> HIDE DEF g
    <3> QED
      BY <2>5, RebasedGr DEF both
  <2> HIDE DEF g, px
  <2>7. Collected(g, px) \in Zone(P \cup Q)
    BY <1>1, <2>4, <2>6, CollectedSound
  <2> QED
    BY <2>1, <2>2, <2>3, <2>7
<1>7. x.ok \in BOOLEAN /\ y.ok \in BOOLEAN
  BY ZoneElim
<1> QED
  BY <1>2, <1>3, <1>4, <1>5, <1>6, <1>7

LEMMA NormalizeSound ==
  ASSUME NEW Q \in SUBSET Valuations, NEW z \in Zone(Q), NEW U
  PROVE  normalize(z, U) \in Zone(Q)
<1> DEFINE sub == SubGraph(z.g, 0)
           delta == close_after_widen(sub, z.p, U)
           g == apply_delta(z.g, delta)
           zz == [z EXCEPT !.g = g]
           W == With(Q, z.p)
<1>1. /\ z.g \in Gr(DOMAIN z.p, W) /\ W \in SUBSET Valuations /\ DOMAIN z.p \in SUBSET Verts
      /\ \A u \in DOMAIN z.p : z.p[u] \in Int
  BY ZoneElim
<1>2. sub \in Gr(DOMAIN z.p, W)
  <2> HIDE DEF W
  <2>1. sub \in Gr(DOMAIN z.p \ {0}, W)
    BY <1>1, SubGraphGr
  <2>2. DOMAIN z.p \ {0} \subseteq DOMAIN z.p /\ W \subseteq W
    OBVIOUS
  <2> HIDE DEF sub
  <2> QED
    BY <2>1, <2>2, GrMono
<1>3. delta \in Gr(DOMAIN z.p, W)
  <2> HIDE DEF sub, W
  <2> QED
    BY <1>1, <1>2, CloseWidenSound
<1>4. g \in Gr(DOMAIN z.p, W)
  <2> HIDE DEF delta, W
  <2> QED
    BY <1>1, <1>3, MergeGr DEF apply_delta
<1>5. zz \in Zone(Q)
  <2> HIDE DEF g
  <2> QED
    BY <1>4, NewGraph
<1>6. CASE U = {}
  BY <1>6 DEF normalize
<1>7. CASE U # {}
  <2>1. normalize(z, U) = Let(zz, CloseBounds)
    BY <1>7 DEF normalize
  <2> HIDE DEF zz
  <2>2. Let(zz, CloseBounds) = CloseBounds(zz)
    BY DEF Let
  <2> QED
    BY <1>5, <2>1, <2>2, CloseBoundsSound
<1> QED
  BY <1>6, <1>7

LEMMA WidenSound ==
  ASSUME NEW P \in SUBSET Valuations, NEW Q \in SUBSET Valuations, NEW x \in Zone(P), NEW y \in Zone(Q)
  PROVE  zone_widen(x, y) \in Zone(P \cup Q)
<1>1. (P # {} => x.ok) /\ (Q # {} => y.ok) /\ P \cup Q \in SUBSET Valuations
  BY ZoneElim
<1>2. CASE ~ x.ok
  <2>1. P \cup Q = Q /\ zone_widen(x, y) = y
    BY <1>1, <1>2 DEF zone_widen
  <2> QED
    BY <2>1
<1>3. CASE x.ok /\ ~ y.ok
  <2>1. P \cup Q = P /\ zone_widen(x, y) = x
    BY <1>1, <1>3 DEF zone_widen
  <2> QED
    BY <2>1
<1>4. CASE x.ok /\ y.ok
  <2> DEFINE both == DOMAIN x.p \cap DOMAIN y.p
             px == Rebased(x, both)
             gx == GraphPerm(x.g, both)
             gy == GraphPerm(y.g, both)
             g == SyntacticWiden(gx, gy)
             z == [ok |-> TRUE, g |-> g, p |-> px]
             R == P \cup Q
  <2>1. zone_widen(x, y) = Let(g, LAMBDA h : normalize([ok |-> TRUE, g |-> h, p |-> px], Unstable(gx, h)))
    BY <1>4 DEF zone_widen
  <2>2. zone_widen(x, y) = normalize(z, Unstable(gx, g))
    <3> HIDE DEF g, gx, px
    <3>1. Let(g, LAMBDA h : normalize([ok |-> TRUE, g |-> h, p |-> px], Unstable(gx, h))) = normalize(z, Unstable(gx, g))
      BY DEF Let
    <3> QED
      BY <2>1, <3>1
  <2> HIDE DEF both
  <2>4. /\ both \in SUBSET Verts
        /\ gx \in Gr(both, With(P, x.p)) /\ gy \in Gr(both, With(Q, y.p))
        /\ With(P, x.p) \in SUBSET Valuations /\ With(Q, y.p) \in SUBSET Valuations
        /\ px \in Potentials
    BY CommonParts DEF both
  <2>5. g \in Gr(both, With(P, x.p) \cup With(Q, y.p))
    <3> HIDE DEF gx, gy
    <3> QED
      BY <2>4, SyntacticWidenSound
  <2>6. g \in Gr(DOMAIN px, With(R, px))
    <3> HIDE DEF g
    <3> QED
      BY <2>5, RebasedGr DEF both
  <2> HIDE DEF g, px, R
  <2>7. z \in Zone(R)
    BY <1>1, <2>4, <2>6, ZoneIntro DEF R
  <2> HIDE DEF z
  <2>8. normalize(z, Unstable(gx, g)) \in Zone(R)
    BY <1>1, <2>7, NormalizeSound DEF R
  <2> QED
    BY <2>2, <2>8 DEF R
<1>5. x.ok \in BOOLEAN /\ y.ok \in BOOLEAN
  BY ZoneElim
<1> QED
  BY <1>2, <1>3, <1>4, <1>5

LEMMA NarrowSound ==
  ASSUME NEW P \in SUBSET Valuations, NEW Q \in SUBSET Valuations, NEW x \in Zone(P), NEW y \in Zone(Q)
  PROVE  zone_narrow(x, y) \in Zone(P \cap Q)
<1> DEFINE R == P \cap Q
<1>1. (P # {} => x.ok) /\ (Q # {} => y.ok) /\ R \subseteq P /\ R \subseteq Q
  BY ZoneElim
<1> HIDE DEF R
<1>2. x \in Zone(R) /\ y \in Zone(R)
  BY <1>1, ZoneMono
<1>3. CASE ~ x.ok \/ ~ y.ok
  <2>1. R = {} /\ zone_narrow(x, y) = BottomZone
    BY <1>1, <1>3 DEF zone_narrow, R
  <2>2. zone_narrow(x, y) \in Zone(R)
    BY <2>1, EmptyZones
  <2> QED
    BY <2>2 DEF R
<1>4. CASE ~ (~ x.ok \/ ~ y.ok)
  <2>1. zone_narrow(x, y) = x \/ zone_narrow(x, y) = y
    BY <1>4 DEF zone_narrow
  <2> QED
    BY <1>2, <2>1 DEF R
<1> QED
  BY <1>3, <1>4

LEMMA LeqSound ==
  ASSUME NEW q \in Valuations, NEW z \in Zone({}), NEW o \in Zone({}), Sat(q, z.g), leq(z, o)
  PROVE  Sat(q, o.g)
<1>1. CASE zone_is_top(o)
  BY <1>1 DEF zone_is_top, Sat
<1>2. CASE ~ zone_is_top(o)
  <2> SUFFICES ASSUME NEW e \in DOMAIN o.g PROVE q[e[2]] - q[e[1]] <= o.g[e]
    BY DEF Sat
  <2>0. {} \in SUBSET Valuations
    OBVIOUS
  <2>1. z.g \in Gr(DOMAIN z.p, {}) /\ o.g \in Gr(DOMAIN o.p, {}) /\ DOMAIN o.p \in SUBSET Verts /\ DOMAIN z.p \in SUBSET Verts
    BY <2>0, ZoneElim
  <2>2. e[1] \in Verts /\ e[2] \in Verts /\ o.g[e] \in Int
    BY <2>1, GrElim
  <2>3. \A v \in Verts : q[v] \in Int
    BY DEF Valuations
  <2>33. q[0] = 0
    BY DEF Valuations
  <2>4. CASE e \in DOMAIN z.g /\ z.g[e] <= o.g[e]
    <3>1. z.g[e] \in Int /\ q[e[2]] - q[e[1]] <= z.g[e]
      BY <2>1, <2>4, GrElim DEF Sat
    <3> QED
      BY <2>2, <2>3, <2>4, <3>1
  <2>5. CASE elem(z.g, e[1], 0) /\ elem(z.g, 0, e[2]) /\ ThroughZero(z.g, e[1], e[2]) <= o.g[e]
    <3>1. edge_val(z.g, e[1], 0) \in Int /\ edge_val(z.g, 0, e[2]) \in Int
      BY <2>1, <2>5, ElemFacts
    <3>2. q[0] - q[e[1]] <= edge_val(z.g, e[1], 0)
      BY <2>5 DEF Sat, elem, edge_val
    <3>3. q[e[2]] - q[0] <= edge_val(z.g, 0, e[2])
      BY <2>5 DEF Sat, elem, edge_val
    <3>4. edge_val(z.g, e[1], 0) + edge_val(z.g, 0, e[2]) <= o.g[e]
      BY <2>5 DEF ThroughZero
    <3> QED
      BY <2>2, <2>3, <2>33, <3>1, <3>2, <3>3, <3>4
  <2>6. \/ e \in DOMAIN z.g /\ z.g[e] <= o.g[e]
        \/ elem(z.g, e[1], 0) /\ elem(z.g, 0, e[2]) /\ ThroughZero(z.g, e[1], e[2]) <= o.g[e]
    BY <1>2 DEF leq
  <2> QED
    BY <2>4, <2>5, <2>6
<1> QED
  BY <1>1, <1>2

(* A constraint that a valuation of the zone meets does not empty it. *)
LEMMA AddedIsFeasible ==
  ASSUME NEW q \in Valuations, NEW z \in Zone({q}), NEW cst, IsConstraint(cst), Meets(q, cst)
  PROVE  add_constraint(z, cst).ok
<1>1. {q} \in SUBSET Valuations /\ {q} # {}
  OBVIOUS
<1>2. add_constraint(z, cst) \in Zone({q})
  BY <1>1, AddConstraintSound
<1> QED
  BY <1>1, <1>2, ZoneElim

(* One of an inequality or disequation and its negation holds. *)
LEMMA NegationSound ==
  ASSUME NEW q \in Valuations, NEW cst, IsConstraint(cst), cst.kind # "EQ"
  PROVE  IsConstraint(NegateConstraint(cst)) /\ (Meets(q, cst) \/ Meets(q, NegateConstraint(cst)))
<1> DEFINE n == Val(cst.e, q)
           neg == NegateConstraint(cst)
<1>1. /\ cst.kind \in {"LE", "LT", "NE"} /\ IsLinear(cst.e) /\ cst = [e |-> cst.e, kind |-> cst.kind]
  BY KindFacts
<1>2. n \in Int
  BY <1>1, ValSum
<1>3. IsLinear(Negate(cst.e)) /\ Val(Negate(cst.e), q) = - n
  BY <1>1, NegateVal
<1>4. CASE cst.kind = "NE"
  <2>1. neg = [cst EXCEPT !.kind = "EQ"]
    BY <1>4 DEF NegateConstraint
  <2>2. neg = [e |-> cst.e, kind |-> "EQ"]
    BY <1>1, <2>1
  <2>3. neg.e = cst.e /\ neg.kind = "EQ"
    BY <2>2
  <2>4. IsConstraint(neg)
    BY <1>1, <2>2, <2>3 DEF IsConstraint
  <2>5. n # 0 => Meets(q, cst)
    BY <1>2, <1>4, KindFacts DEF Meets
  <2>6. n = 0 => Meets(q, neg)
    <3> HIDE DEF neg
    <3> QED
      BY <1>2, <2>3, <2>4, KindFacts DEF Meets
  <2> QED
    BY <2>4, <2>5, <2>6
<1>5. CASE cst.kind = "LT"
  <2>2. neg = [e |-> Negate(cst.e), kind |-> "LE"]
    BY <1>5 DEF NegateConstraint
  <2>3. neg.e = Negate(cst.e) /\ neg.kind = "LE"
    BY <2>2
  <2>4. IsConstraint(neg)
    BY <1>3, <2>2, <2>3 DEF IsConstraint
  <2>5. n < 0 => Meets(q, cst)
    BY <1>2, <1>5, KindFacts DEF Meets
  <2>6. ~ (n < 0) => Meets(q, neg)
    <3>1. Val(neg.e, q) = - n /\ - n \in Int
      BY <1>2, <1>3, <2>3
    <3> HIDE DEF neg, n
    <3> QED
      BY <1>2, <2>3, <2>4, <3>1, KindFacts DEF Meets
  <2> QED
    BY <2>4, <2>5, <2>6
<1>6. CASE cst.kind = "LE"
  <2>2. neg = [e |-> Negate(cst.e), kind |-> "LT"]
    BY <1>6 DEF NegateConstraint
  <2>3. neg.e = Negate(cst.e) /\ neg.kind = "LT"
    BY <2>2
  <2>4. IsConstraint(neg)
    BY <1>3, <2>2, <2>3 DEF IsConstraint
  <2>5. n <= 0 => Meets(q, cst)
    BY <1>2, <1>6, KindFacts DEF Meets
  <2>6. ~ (n <= 0) => Meets(q, neg)
    <3>1. Val(neg.e, q) = - n /\ - n \in Int
      BY <1>2, <1>3, <2>3
    <3> HIDE DEF neg, n
    <3> QED
      BY <1>2, <2>3, <2>4, <3>1, KindFacts DEF Meets
  <2> QED
    BY <2>4, <2>5, <2>6
<1> QED
  BY <1>1, <1>4, <1>5, <1>6

LEMMA EntailAuxSound ==
  ASSUME NEW q \in Valuations, NEW z \in Zone({q}), NEW cst, IsConstraint(cst), cst.kind # "EQ", entail_aux(z, cst)
  PROVE  Meets(q, cst)
<1>1. IsConstraint(NegateConstraint(cst)) /\ (Meets(q, cst) \/ Meets(q, NegateConstraint(cst)))
  BY NegationSound
<1>2. ~ Meets(q, NegateConstraint(cst))
  BY <1>1, AddedIsFeasible DEF entail_aux
<1> QED
  BY <1>1, <1>2

LEMMA NoTerms ==
  ASSUME NEW q \in Valuations, NEW e, IsLinear(e), e.t = <<>>
  PROVE  Val(e, q) = e.c
<1>1. DOMAIN e.t = {}
  OBVIOUS
<1>2. e.c \in Int
  BY LinearFacts
<1> DEFINE f == Products(e.t, DOMAIN e.t, q)
<1>3. Val(e, q) = e.c + SumFunctionOnSet(f, {})
  BY <1>1, <1>2, ValSum
<1>4. SumFunctionOnSet(f, {}) = 0
  <2>1. IsFiniteSet({}) /\ IntOn(f, {})
    BY FS_EmptySet DEF IntOn
  <2> HIDE DEF f
  <2> QED
    BY <2>1, SumStep
<1> HIDE DEF f
<1> QED
  BY <1>2, <1>3, <1>4

IntervalEntails(i, kind) ==
  CASE kind = "EQ" -> i = Just(0)
    [] kind = "LE" -> BLeq(i.ub, Fin(0))
    [] kind = "LT" -> BLess(i.ub, Fin(0))
    [] kind = "NE" -> BLess(i.ub, Fin(0)) \/ BLess(Fin(0), i.lb)

LEMMA IntervalEntailsSound ==
  ASSUME NEW cst, IsConstraint(cst), NEW i, Proper(i), NEW n \in Int, Holds(i, n), IntervalEntails(i, cst.kind)
  PROVE  HoldsFor(cst.kind, n)
<1>1. cst.kind \in {"LE", "LT", "EQ", "NE"}
  BY KindFacts
<1>2. Fin(0) \in Bounds /\ Fin(0).n = 0 /\ ~ Fin(0).inf
  BY BoundFacts
<1>3. i.lb \in Bounds /\ i.ub \in Bounds /\ (i.lb.inf => i.lb.n = -1) /\ (i.ub.inf => i.ub.n = 1)
  BY DEF Proper
<1>31. i.lb.inf \in BOOLEAN /\ i.ub.inf \in BOOLEAN /\ i.lb.n \in Int /\ i.ub.n \in Int
  BY <1>3 DEF Bounds
<1>4. BLeq(i.ub, Fin(0)) => n <= 0
  BY <1>2, <1>3, <1>31 DEF BLeq, Holds
<1>5. BLess(i.ub, Fin(0)) => n < 0
  <2> SUFFICES ASSUME BLess(i.ub, Fin(0)) PROVE n < 0
    OBVIOUS
  <2>1. ~ i.ub.inf
    <3> SUFFICES ASSUME i.ub.inf PROVE FALSE
      OBVIOUS
    <3>1. i.ub.inf # Fin(0).inf
      BY <1>2, Zenon
    <3>2. i.ub.n > 0
      BY <1>3
    <3>3. ~ Fin(0).inf
      BY <1>2
    <3> QED
      BY <3>1, <3>2, <3>3, Zenon DEF BLess, BLeq
  <2>2. BLeq(Fin(0), i.ub) <=> 0 <= i.ub.n
    BY <1>2, <1>3, <2>1, FiniteOrder
  <2>3. n <= i.ub.n
    BY <2>1 DEF Holds
  <2> QED
    BY <1>31, <2>2, <2>3 DEF BLess
<1>6. BLess(Fin(0), i.lb) => 0 < n
  <2> SUFFICES ASSUME BLess(Fin(0), i.lb) PROVE 0 < n
    OBVIOUS
  <2>1. ~ i.lb.inf
    <3> SUFFICES ASSUME i.lb.inf PROVE FALSE
      OBVIOUS
    <3>1. i.lb.inf # Fin(0).inf
      BY <1>2, Zenon
    <3>2. i.lb.n < 0
      BY <1>3
    <3>3. ~ Fin(0).inf
      BY <1>2
    <3> QED
      BY <3>1, <3>2, <3>3, Zenon DEF BLess, BLeq
  <2>2. BLeq(i.lb, Fin(0)) <=> i.lb.n <= 0
    BY <1>2, <1>3, <2>1, FiniteOrder
  <2>3. i.lb.n <= n
    BY <2>1 DEF Holds
  <2> QED
    BY <1>31, <2>2, <2>3 DEF BLess
<1>7. i = Just(0) => n = 0
  <2> SUFFICES ASSUME i = Just(0) PROVE n = 0
    OBVIOUS
  <2>1. i.lb = Fin(0) /\ i.ub = Fin(0)
    BY DEF Just
  <2> QED
    BY <1>2, <2>1 DEF Holds
<1>8. CASE cst.kind = "EQ"
  <2>1. i = Just(0)
    BY <1>8 DEF IntervalEntails
  <2> QED
    BY <1>7, <1>8, <2>1, KindFacts
<1>9. CASE cst.kind = "LE"
  <2>1. BLeq(i.ub, Fin(0))
    BY <1>9 DEF IntervalEntails
  <2> QED
    BY <1>4, <1>9, <2>1, KindFacts
<1>10. CASE cst.kind = "LT"
  <2>1. BLess(i.ub, Fin(0))
    BY <1>10 DEF IntervalEntails
  <2> QED
    BY <1>5, <1>10, <2>1, KindFacts
<1>11. CASE cst.kind = "NE"
  <2>1. BLess(i.ub, Fin(0)) \/ BLess(Fin(0), i.lb)
    BY <1>11 DEF IntervalEntails
  <2>2. n # 0
    BY <1>5, <1>6, <2>1
  <2> QED
    BY <1>11, <2>2, KindFacts
<1> QED
  BY <1>1, <1>8, <1>9, <1>10, <1>11

LEMMA EntailSound ==
  ASSUME NEW q \in Valuations, NEW z \in Zone({q}), NEW cst, IsConstraint(cst), entail(z, cst)
  PROVE  Meets(q, cst)
<1> DEFINE i == eval_interval(z, cst.e)
<1>0. IsLinear(cst.e) /\ cst = [e |-> cst.e, kind |-> cst.kind] /\ {q} \in SUBSET Valuations
  BY KindFacts
<1>00. Val(cst.e, q) \in Int
  BY <1>0, ValSum
<1>1. CASE cst.e.t = <<>>
  BY <1>0, <1>1, NoTerms DEF entail, Meets
<1>2. CASE cst.e.t # <<>> /\ IntervalEntails(i, cst.kind)
  <2>1. Proper(i) /\ \A w \in With({q}, z.p) : Holds(i, Val(cst.e, w))
    BY <1>0, EvalIntervalSound
  <2>2. q \in With({q}, z.p)
    BY DEF With
  <2> HIDE DEF i
  <2> QED
    BY <1>00, <1>2, <2>1, <2>2, IntervalEntailsSound DEF Meets
<1>3. CASE cst.e.t # <<>> /\ cst.kind = "EQ" /\ ~ IntervalEntails(i, cst.kind)
  <2> DEFINE le == [cst EXCEPT !.kind = "LE"]
             ge == [e |-> Negate(cst.e), kind |-> "LE"]
             n == Val(cst.e, q)
  <2>1. entail_aux(z, le) /\ entail_aux(z, ge)
    BY <1>3 DEF entail, IntervalEntails
  <2>2. le = [e |-> cst.e, kind |-> "LE"]
    BY <1>0
  <2>3. IsLinear(Negate(cst.e)) /\ Val(Negate(cst.e), q) = - n
    BY <1>0, NegateVal
  <2>4. IsConstraint(le) /\ le.e = cst.e /\ le.kind = "LE"
    BY <1>0, <2>2 DEF IsConstraint
  <2>5. IsConstraint(ge) /\ ge.e = Negate(cst.e) /\ ge.kind = "LE"
    BY <2>3 DEF IsConstraint
  <2> HIDE DEF le, ge
  <2>6. Meets(q, le) /\ Meets(q, ge)
    BY <2>1, <2>4, <2>5, EntailAuxSound
  <2>7. n <= 0
    BY <1>00, <2>4, <2>6, KindFacts DEF Meets
  <2>8. - n <= 0
    <3>1. - n \in Int
      BY <1>00
    <3> HIDE DEF n
    <3> QED
      BY <2>3, <2>5, <2>6, <3>1, KindFacts DEF Meets
  <2>9. n = 0
    BY <1>00, <2>7, <2>8
  <2> QED
    BY <1>00, <1>3, <2>9, KindFacts DEF Meets
<1>4. CASE cst.e.t # <<>> /\ cst.kind # "EQ" /\ ~ IntervalEntails(i, cst.kind)
  <2>1. entail_aux(z, cst)
    BY <1>4 DEF entail, IntervalEntails
  <2> QED
    BY <1>4, <2>1, EntailAuxSound
<1> QED
  BY <1>1, <1>2, <1>3, <1>4

LEMMA IntersectSound ==
  ASSUME NEW q \in Valuations, NEW z \in Zone({q}), NEW cst, IsConstraint(cst), Meets(q, cst)
  PROVE  intersect(z, cst)
<1>1. IsLinear(cst.e)
  BY KindFacts
<1>2. CASE cst.e.t = <<>>
  BY <1>1, <1>2, NoTerms DEF intersect, Meets
<1>3. CASE cst.e.t # <<>>
  BY <1>3, AddedIsFeasible DEF intersect
<1> QED
  BY <1>2, <1>3

-----------------------------------------------------------------------------
(* Points as valuations. *)

Extend(pt) == [v \in Verts |-> IF v \in Vars THEN pt[v] ELSE 0]
Extended(S) == {Extend(pt) : pt \in S}

LEMMA PointFacts ==
  ASSUME NEW pt \in Points
  PROVE  /\ Extend(pt) \in Valuations
         /\ \A v \in Live : Extend(pt)[v] = At(pt, v) /\ At(pt, v) \in Int
         /\ \A v \in Vars : Extend(pt)[v] = pt[v] /\ pt[v] \in Int
<1>1. Box \subseteq Int
  BY InputsAssumption
<1>2. \A v \in Vars : pt[v] \in Int
  BY <1>1 DEF Points
<1>3. Extend(pt) \in [Verts -> Int] /\ Extend(pt)[0] = 0 /\ \A v \in Verts : Extend(pt)[v] = IF v \in Vars THEN pt[v] ELSE 0
  BY <1>2, VertFacts DEF Extend
<1>4. Extend(pt) \in Valuations
  BY <1>3 DEF Valuations
<1> QED
  BY <1>2, <1>3, <1>4, VertFacts, LiveFacts DEF At

LEMMA PointsExtended ==
  ASSUME NEW S \in SUBSET Points
  PROVE  Extended(S) \in SUBSET Valuations
  BY PointFacts DEF Extended

LEMMA GammaPoints ==
  ASSUME NEW z
  PROVE  gamma(z) \in SUBSET Points /\ Extended(gamma(z)) \in SUBSET Valuations
<1>1. gamma(z) \in SUBSET Points
  BY DEF gamma
<1> QED
  BY <1>1, PointsExtended

LEMMA EdgesAtPoint ==
  ASSUME NEW Q \in SUBSET Valuations, NEW z \in Zone(Q), NEW pt \in Points
  PROVE  Sat(Extend(pt), z.g) <=> \A e \in DOMAIN z.g : At(pt, e[2]) - At(pt, e[1]) <= z.g[e]
<1>1. z.g \in Gr(DOMAIN z.p, Q) /\ DOMAIN z.p \in SUBSET Live
  BY ZoneElim
<1>2. \A e \in DOMAIN z.g : e[1] \in Live /\ e[2] \in Live
  BY <1>1, GrElim
<1>3. \A e \in DOMAIN z.g : Extend(pt)[e[2]] = At(pt, e[2]) /\ Extend(pt)[e[1]] = At(pt, e[1])
  BY <1>2, PointFacts
<1> QED
  BY <1>3 DEF Sat

(* A zone holds for its points, and a point for which it holds is one.      *)
LEMMA GammaIn ==
  ASSUME NEW z \in Zone({})
  PROVE  z \in Zone(Extended(gamma(z)))
<1> DEFINE R == Extended(gamma(z))
<1>0. {} \in SUBSET Valuations
  OBVIOUS
<1>1. /\ z.p \in Potentials /\ z.g \in Gr(DOMAIN z.p, With({}, z.p)) /\ z.ok \in BOOLEAN
      /\ z = [ok |-> z.ok, g |-> z.g, p |-> z.p]
  BY <1>0, ZoneElim
<1>2. R \in SUBSET Valuations
  BY GammaPoints
<1>3. R # {} => z.ok
  BY DEF Extended, gamma
<1>4. \A q \in R : Sat(q, z.g)
  <2> SUFFICES ASSUME NEW pt \in gamma(z) PROVE Sat(Extend(pt), z.g)
    BY DEF Extended
  <2>1. pt \in Points /\ \A e \in DOMAIN z.g : At(pt, e[2]) - At(pt, e[1]) <= z.g[e]
    BY DEF gamma
  <2> QED
    BY <1>0, <2>1, EdgesAtPoint
<1> HIDE DEF R
<1>5. z.g \in Gr(DOMAIN z.p, With(R, z.p))
  <2> DEFINE V == DOMAIN z.p
             W == With({}, z.p)
             X == With(R, z.p)
             D == DOMAIN z.g
  <2>1. z.g \in Gr(V, W)
    BY <1>1
  <2>2. D \in SUBSET (V \X V) /\ z.g \in [D -> Int] /\ \A e \in D : \A q \in W : q[e[2]] - q[e[1]] <= z.g[e]
    <3> HIDE DEF V, W
    <3> QED
      BY <2>1, GrElim
  <2>3. \A e \in D : \A q \in X : q[e[2]] - q[e[1]] <= z.g[e]
    BY <1>4, <2>2 DEF With, Sat
  <2> HIDE DEF V, X, D
  <2>4. z.g \in Gr(V, X)
    BY <2>2, <2>3, GrIntro
  <2> QED
    BY <2>4 DEF V, X
<1>6. z \in Zone(R)
  BY <1>1, <1>2, <1>3, <1>5, ZoneIntro
<1> QED
  BY <1>6 DEF R

LEMMA GammaOut ==
  ASSUME NEW R \in SUBSET Valuations, NEW z \in Zone(R), NEW pt \in Points, Extend(pt) \in R
  PROVE  pt \in gamma(z)
<1>1. z.ok /\ z.g \in Gr(DOMAIN z.p, R)
  BY ZoneElim
<1>2. Sat(Extend(pt), z.g)
  BY <1>1, GrElim DEF Sat
<1> QED
  BY <1>1, <1>2, EdgesAtPoint DEF gamma

LEMMA AtOnePoint ==
  ASSUME NEW z \in Zone({}), NEW pt \in gamma(z)
  PROVE  z \in Zone({Extend(pt)}) /\ Extend(pt) \in Valuations
<1>1. z \in Zone(Extended(gamma(z))) /\ Extended(gamma(z)) \in SUBSET Valuations
  BY GammaIn, GammaPoints
<1>2. {Extend(pt)} \subseteq Extended(gamma(z))
  BY DEF Extended
<1> QED
  BY <1>1, <1>2, ZoneMono

(* The abstract specification's expressions and constraints. *)
LEMMA ValueIsVal ==
  ASSUME NEW e, IsLinear(e), NEW pt \in Points
  PROVE  Domain!Value(e, pt) = Val(e, Extend(pt)) /\ Domain!Value(e, pt) \in Int
<1>1. Products(e.t, DOMAIN e.t, Extend(pt)) = [v \in DOMAIN e.t |-> e.t[v] * pt[v]]
  <2>1. \A v \in DOMAIN e.t : Extend(pt)[v] = pt[v]
    BY LinearFacts, PointFacts
  <2> QED
    BY <2>1 DEF Products
<1>2. Val(e, Extend(pt)) = e.c + SumFunction([v \in DOMAIN e.t |-> e.t[v] * pt[v]])
  BY <1>1 DEF Val
<1>3. Domain!Value(e, pt) = e.c + SumFunction([v \in DOMAIN e.t |-> e.t[v] * pt[v]])
  <2> DEFINE f == [v \in DOMAIN e.t |-> e.t[v] * pt[v]]
  <2>1. Domain!SumFunction(f) = SumFunction(f)
    <3> HIDE DEF f
    <3> QED
      BY DEF Domain!SumFunction, Domain!SumFunctionOnSet, Domain!FoldFunctionOnSet, Domain!MapThenFoldSet,
             SumFunction, SumFunctionOnSet, FoldFunctionOnSet, MapThenFoldSet
  <2> QED
    BY <2>1 DEF Domain!Value
<1>4. Val(e, Extend(pt)) \in Int
  BY PointFacts, ValSum
<1> QED
  BY <1>2, <1>3, <1>4

LEMMA SatisfiesIsMeets ==
  ASSUME NEW cst, IsConstraint(cst), NEW pt \in Points
  PROVE  Domain!Satisfies(pt, cst) <=> Meets(Extend(pt), cst)
<1>1. IsLinear(cst.e) /\ cst.kind \in {"LE", "LT", "EQ", "NE"}
  BY KindFacts
<1>2. Domain!Value(cst.e, pt) = Val(cst.e, Extend(pt))
  BY <1>1, ValueIsVal
<1>3. CASE cst.kind = "LE"
  BY <1>2, <1>3 DEF Domain!Satisfies, Meets, HoldsFor
<1>4. CASE cst.kind = "LT"
  BY <1>2, <1>4 DEF Domain!Satisfies, Meets, HoldsFor
<1>5. CASE cst.kind = "EQ"
  BY <1>2, <1>5 DEF Domain!Satisfies, Meets, HoldsFor
<1>6. CASE cst.kind = "NE"
  BY <1>2, <1>6 DEF Domain!Satisfies, Meets, HoldsFor
<1> QED
  BY <1>1, <1>3, <1>4, <1>5, <1>6

-----------------------------------------------------------------------------
(* The operations at points. *)

LEMMA NoneLost ==
  ASSUME NEW R \in SUBSET Valuations, NEW z \in Zone(R), NEW S, \A pt \in S \cap Points : Extend(pt) \in R
  PROVE  z \in Zone({}) /\ S \cap Points \subseteq gamma(z)
<1>1. z \in Zone({})
  BY ZoneMono
<1> QED
  BY <1>1, GammaOut

LEMMA AssignPoints ==
  ASSUME NEW z \in Zone({}), NEW x \in Vars, NEW e, IsLinear(e),
         NEW S, S = {[pt EXCEPT ![x] = Domain!Value(e, pt)] : pt \in gamma(z)}
  PROVE  assign(z, x, e) \in Zone({}) /\ S \cap Points \subseteq gamma(assign(z, x, e))
<1> DEFINE Q == Extended(gamma(z))
           R == Assigned(Q, x, e)
<1>1. z \in Zone(Q) /\ Q \in SUBSET Valuations /\ gamma(z) \in SUBSET Points
  BY GammaIn, GammaPoints
<1>2. x \in Verts /\ x # 0
  BY VertFacts
<1>3. R \in SUBSET Valuations
  <2> HIDE DEF Q
  <2> QED
    BY <1>1, <1>2, AssignedFacts DEF AreAssigned
<1>4. assign(z, x, e) \in Zone(R)
  <2> HIDE DEF Q
  <2> QED
    BY <1>1, AssignSound
<1>5. \A pt \in S \cap Points : Extend(pt) \in R
  <2> SUFFICES ASSUME NEW pt \in gamma(z) PROVE Extend([pt EXCEPT ![x] = Domain!Value(e, pt)]) \in R
    OBVIOUS
  <2>1. pt \in [Vars -> Box]
    BY <1>1 DEF Points
  <2>2. Domain!Value(e, pt) = Val(e, Extend(pt))
    BY <1>1, ValueIsVal
  <2> DEFINE k == Val(e, Extend(pt))
             a == [pt EXCEPT ![x] = k]
             b == [Extend(pt) EXCEPT ![x] = k]
  <2>3. Extend(a) = b
    <3> HIDE DEF k
    <3> QED
      BY <1>2, <2>1 DEF Extend
  <2>4. b \in R
    BY DEF Assigned, Extended
  <2> QED
    BY <2>2, <2>3, <2>4
<1> HIDE DEF R
<1> QED
  BY <1>3, <1>4, <1>5, NoneLost

LEMMA SetPoints ==
  ASSUME NEW z \in Zone({}), NEW x \in Vars, NEW l \in Int, NEW u \in Int, l <= u,
         NEW S, \A q \in S : \E pt \in gamma(z), n \in l..u : q = [pt EXCEPT ![x] = n]
  PROVE  set(z, x, Range2(l, u)) \in Zone({}) /\ S \cap Points \subseteq gamma(set(z, x, Range2(l, u)))
<1> DEFINE Q == Extended(gamma(z))
           R == Extended(S \cap Points)
           i == Range2(l, u)
<1>1. z \in Zone(Q) /\ Q \in SUBSET Valuations /\ gamma(z) \in SUBSET Points
  BY GammaIn, GammaPoints
<1>2. R \in SUBSET Valuations
  BY PointsExtended
<1>3. Proper(i) /\ \A n \in l..u : Holds(i, n)
  <2>1. /\ Fin(l) \in Bounds /\ Fin(l).n = l /\ ~ Fin(l).inf
        /\ Fin(u) \in Bounds /\ Fin(u).n = u /\ ~ Fin(u).inf
    BY BoundFacts
  <2> QED
    BY <2>1, BetweenProper DEF Range2
<1>4. \A r \in R : \E pt \in gamma(z) : \E n \in l..u : r = Extend([pt EXCEPT ![x] = n])
  BY DEF Extended
<1>5. \A pt \in gamma(z) : \A n \in l..u :
        /\ Extend([pt EXCEPT ![x] = n])[x] = n
        /\ \A v \in Verts \ {x} : Extend([pt EXCEPT ![x] = n])[v] = Extend(pt)[v]
        /\ Extend(pt) \in Q
  <2> SUFFICES ASSUME NEW pt \in gamma(z), NEW n \in l..u
               PROVE  /\ Extend([pt EXCEPT ![x] = n])[x] = n
                      /\ \A v \in Verts \ {x} : Extend([pt EXCEPT ![x] = n])[v] = Extend(pt)[v]
                      /\ Extend(pt) \in Q
    OBVIOUS
  <2>1. pt \in [Vars -> Box]
    BY <1>1 DEF Points
  <2>2. x \in Verts
    BY VertFacts
  <2> QED
    BY <2>1, <2>2 DEF Extend, Extended
<1>55. ASSUME NEW r \in R
       PROVE  Holds(i, r[x]) /\ \E q \in Q : \A v \in Verts \ {x} : r[v] = q[v]
  <2> HIDE DEF R, Q, i
  <2>1. PICK pt \in gamma(z) : \E n \in l..u : r = Extend([pt EXCEPT ![x] = n])
    BY <1>4
  <2>2. PICK n \in l..u : r = Extend([pt EXCEPT ![x] = n])
    BY <2>1
  <2>3. r[x] = n /\ Extend(pt) \in Q
    BY <1>5, <2>2
  <2>4. \A v \in Verts \ {x} : r[v] = Extend(pt)[v]
    BY <1>5, <2>2
  <2> QED
    BY <1>3, <2>3, <2>4
<1>6. AgreesOff(R, Q, x)
  <2> HIDE DEF R, Q
  <2> QED
    BY <1>55 DEF AgreesOff
<1>7. \A r \in R : Holds(i, r[x])
  BY <1>55
<1>8. set(z, x, i) \in Zone(R)
  <2>1. l \in Int /\ Holds(i, l)
    BY <1>3
  <2> HIDE DEF R, Q, i
  <2> QED
    BY <1>1, <1>2, <1>3, <1>6, <1>7, <2>1, SetSound
<1>9. \A pt \in S \cap Points : Extend(pt) \in R
  BY DEF Extended
<1> HIDE DEF R
<1> QED
  BY <1>2, <1>8, <1>9, NoneLost

LEMMA HavocPoints ==
  ASSUME NEW z \in Zone({}), NEW x \in Vars,
         NEW S, S = {q \in Points : \E pt \in gamma(z) : q = [pt EXCEPT ![x] = q[x]]}
  PROVE  havoc(z, x) \in Zone({}) /\ S \cap Points \subseteq gamma(havoc(z, x))
<1> DEFINE Q == Extended(gamma(z))
           R == Extended(S)
<1>1. z \in Zone(Q) /\ Q \in SUBSET Valuations /\ gamma(z) \in SUBSET Points
  BY GammaIn, GammaPoints
<1>2. R \in SUBSET Valuations
  BY PointsExtended
<1>3. AgreesOff(R, Q, x)
  <2> SUFFICES ASSUME NEW q \in S
               PROVE  \E r \in Q : \A u \in Verts \ {x} : Extend(q)[u] = r[u]
    BY DEF AgreesOff, Extended
  <2>1. PICK pt \in gamma(z) : q = [pt EXCEPT ![x] = q[x]]
    OBVIOUS
  <2>2. pt \in [Vars -> Box] /\ q \in [Vars -> Box]
    BY <1>1 DEF Points
  <2>3. \A u \in Vars \ {x} : q[u] = pt[u]
    BY <2>1, <2>2
  <2>4. \A u \in Verts \ {x} : Extend(q)[u] = Extend(pt)[u]
    BY <2>3 DEF Extend
  <2>5. Extend(pt) \in Q
    BY DEF Extended
  <2> QED
    BY <2>4, <2>5
<1>4. havoc(z, x) \in Zone(R)
  <2> HIDE DEF R, Q
  <2> QED
    BY <1>1, <1>2, <1>3, HavocSound
<1>5. \A pt \in S \cap Points : Extend(pt) \in R
  BY DEF Extended
<1> HIDE DEF R
<1> QED
  BY <1>2, <1>4, <1>5, NoneLost

LEMMA AssumePoints ==
  ASSUME NEW z \in Zone({}), NEW cst, IsConstraint(cst),
         NEW S, S = {pt \in gamma(z) : Domain!Satisfies(pt, cst)}
  PROVE  add_constraint(z, cst) \in Zone({}) /\ S \cap Points \subseteq gamma(add_constraint(z, cst))
<1> DEFINE Q == Extended(gamma(z))
           R == Extended(S)
<1>1. z \in Zone(Q) /\ Q \in SUBSET Valuations /\ gamma(z) \in SUBSET Points
  BY GammaIn, GammaPoints
<1>2. R \in SUBSET Valuations /\ R \subseteq Q
  <2>1. R \subseteq Q
    BY DEF Extended
  <2> QED
    BY <1>1, <2>1
<1>3. \A q \in R : Meets(q, cst)
  <2> SUFFICES ASSUME NEW pt \in S PROVE Meets(Extend(pt), cst)
    BY DEF Extended
  <2> QED
    BY <1>1, SatisfiesIsMeets
<1>4. z \in Zone(R)
  <2> HIDE DEF R, Q
  <2> QED
    BY <1>1, <1>2, ZoneMono
<1>5. add_constraint(z, cst) \in Zone(R)
  <2> HIDE DEF R
  <2> QED
    BY <1>2, <1>3, <1>4, AddConstraintSound
<1>6. \A pt \in S \cap Points : Extend(pt) \in R
  BY DEF Extended
<1> HIDE DEF R
<1> QED
  BY <1>2, <1>5, <1>6, NoneLost

LEMMA BinaryPoints ==
  ASSUME NEW x \in Zone({}), NEW y \in Zone({})
  PROVE  /\ zone_join(x, y) \in Zone({}) /\ (gamma(x) \cup gamma(y)) \cap Points \subseteq gamma(zone_join(x, y))
         /\ zone_widen(x, y) \in Zone({}) /\ (gamma(x) \cup gamma(y)) \cap Points \subseteq gamma(zone_widen(x, y))
         /\ zone_narrow(x, y) \in Zone({}) /\ (gamma(x) \cap gamma(y)) \cap Points \subseteq gamma(zone_narrow(x, y))
<1> DEFINE P == Extended(gamma(x))
           Q == Extended(gamma(y))
           U == P \cup Q
           I == P \cap Q
           A == gamma(x) \cup gamma(y)
           B == gamma(x) \cap gamma(y)
<1>1. /\ x \in Zone(P) /\ P \in SUBSET Valuations
      /\ y \in Zone(Q) /\ Q \in SUBSET Valuations
  BY GammaIn, GammaPoints
<1>2. /\ \A pt \in A \cap Points : Extend(pt) \in U
      /\ \A pt \in B \cap Points : Extend(pt) \in I
  BY DEF Extended
<1> HIDE DEF P, Q
<1>3. zone_join(x, y) \in Zone(U)
  BY <1>1, JoinSound
<1>4. zone_widen(x, y) \in Zone(U)
  BY <1>1, WidenSound
<1>5. zone_narrow(x, y) \in Zone(I)
  BY <1>1, NarrowSound
<1>6. U \in SUBSET Valuations /\ I \in SUBSET Valuations
  BY <1>1
<1> HIDE DEF U, I, A, B
<1>7. zone_join(x, y) \in Zone({}) /\ A \cap Points \subseteq gamma(zone_join(x, y))
  BY <1>2, <1>3, <1>6, NoneLost
<1>8. zone_widen(x, y) \in Zone({}) /\ A \cap Points \subseteq gamma(zone_widen(x, y))
  BY <1>2, <1>4, <1>6, NoneLost
<1>9. zone_narrow(x, y) \in Zone({}) /\ B \cap Points \subseteq gamma(zone_narrow(x, y))
  BY <1>2, <1>5, <1>6, NoneLost
<1> QED
  BY <1>7, <1>8, <1>9 DEF A, B

-----------------------------------------------------------------------------
(* The theorems. *)

(* The inductive invariant: the graphs, potentials and flags of the zones   *)
(* are well formed, and each potential is a model of its graph.  What holds *)
(* of the points follows, because the points of a zone are those that       *)
(* satisfy its graph.                                                       *)
ZonesHold == zone \in [Slots -> Zone({})]

LEMMA InitHolds ==
  ASSUME Init
  PROVE  ZonesHold /\ Domain!Init
<1>1. TopZone \in Zone({}) /\ {} \in SUBSET Valuations
  BY EmptyZones
<1>2. ZonesHold
  BY <1>1 DEF Init, ZonesHold
<1>3. gamma(TopZone) = Points
  BY DEF gamma, TopZone
<1>4. \A s \in Slots : zone[s] = TopZone
  BY DEF Init
<1>5. [s \in Slots |-> gamma(zone[s])] = [s \in Slots |-> Points]
  BY <1>3, <1>4
<1>6. op = [name |-> "none"]
  BY DEF Init
<1> QED
  BY <1>2, <1>5, <1>6 DEF Domain!Init

(* A step that replaces the zone of one slot by one that keeps the points.  *)
LEMMA StepHolds ==
  ASSUME ZonesHold, NEW s \in Slots, zone' = [zone EXCEPT ![s] = zone'[s]], zone'[s] \in Zone({}),
         op'.s = s, Domain!Post(op') \cap Points \subseteq gamma(zone'[s])
  PROVE  ZonesHold' /\ Domain!Next
<1>1. ZonesHold'
  BY DEF ZonesHold
<1>2. \A t \in Slots \ {s} : zone'[t] = zone[t]
  BY DEF ZonesHold
<1>3. Domain!Perform(s)
  BY <1>2 DEF Domain!Perform
<1> QED
  BY <1>1, <1>3 DEF Domain!Next

(* AddBottom loses nothing: bottom has no points. *)
LEMMA LiftHolds ==
  ASSUME NEW z \in Zone({}), NEW r \in Zone({}), NEW S, S \cap Points \subseteq gamma(r), gamma(z) = {} => S = {}
  PROVE  Lift(z, r) \in Zone({}) /\ S \cap Points \subseteq gamma(Lift(z, r))
<1>1. ~ z.ok => gamma(z) = {}
  BY DEF gamma
<1> QED
  BY <1>1 DEF Lift

LEMMA AssignHolds ==
  ASSUME ZonesHold, NEW s \in Slots, NEW x \in Vars, NEW e, IsLinear(e), Assign(s, x, e)
  PROVE  ZonesHold' /\ Domain!Next
<1> DEFINE z == zone[s]
           r == assign(z, x, e)
           S == {[pt EXCEPT ![x] = Domain!Value(e, pt)] : pt \in gamma(z)}
           o == [name |-> "assign", s |-> s, x |-> x, e |-> e]
<1>1. z \in Zone({})
  BY DEF ZonesHold
<1>2. zone' = [zone EXCEPT ![s] = Lift(z, r)] /\ op' = o
  BY DEF Assign, Unary
<1>3. zone'[s] = Lift(z, r) /\ zone' = [zone EXCEPT ![s] = zone'[s]]
  BY <1>2 DEF ZonesHold
<1>4. r \in Zone({}) /\ S \cap Points \subseteq gamma(r)
  BY <1>1, AssignPoints
<1>5. gamma(z) = {} => S = {}
  OBVIOUS
<1>6. Domain!Post(o) = S
  BY DEF Domain!Post
<1>7. Lift(z, r) \in Zone({}) /\ S \cap Points \subseteq gamma(Lift(z, r))
  <2> HIDE DEF r, S, z
  <2> QED
    BY <1>1, <1>4, <1>5, LiftHolds
<1>8. op'.s = s /\ Domain!Post(op') \cap Points \subseteq gamma(zone'[s]) /\ zone'[s] \in Zone({})
  BY <1>2, <1>3, <1>6, <1>7
<1> QED
  BY <1>3, <1>8, StepHolds

LEMMA SetHolds ==
  ASSUME ZonesHold, NEW s \in Slots, NEW x \in Vars, NEW b, b[1] \in Int, b[2] \in Int, b[1] <= b[2], Set(s, x, b)
  PROVE  ZonesHold' /\ Domain!Next
<1> DEFINE z == zone[s]
           lo == b[1]
           hi == b[2]
           r == set(z, x, Range2(lo, hi))
           S == {[pt EXCEPT ![x] = n] : pt \in gamma(z), n \in lo..hi}
           o == [name |-> "set", s |-> s, x |-> x, range |-> lo..hi]
<1>1. z \in Zone({})
  BY DEF ZonesHold
<1>2. zone' = [zone EXCEPT ![s] = Lift(z, r)] /\ op' = o
  BY DEF Set, Unary
<1>3. zone'[s] = Lift(z, r) /\ zone' = [zone EXCEPT ![s] = zone'[s]]
  BY <1>2 DEF ZonesHold
<1>4. r \in Zone({}) /\ S \cap Points \subseteq gamma(r)
  <2>1. lo \in Int /\ hi \in Int /\ lo <= hi
    OBVIOUS
  <2> HIDE DEF lo, hi, z
  <2>2. \A q \in S : \E pt \in gamma(z), n \in lo..hi : q = [pt EXCEPT ![x] = n]
    OBVIOUS
  <2> HIDE DEF S
  <2> QED
    BY <1>1, <2>1, <2>2, SetPoints
<1>5. gamma(z) = {} => S = {}
  OBVIOUS
<1>6. Domain!Post(o) = S
  BY DEF Domain!Post
<1>7. Lift(z, r) \in Zone({}) /\ S \cap Points \subseteq gamma(Lift(z, r))
  <2> HIDE DEF r, S, z
  <2> QED
    BY <1>1, <1>4, <1>5, LiftHolds
<1>8. op'.s = s /\ Domain!Post(op') \cap Points \subseteq gamma(zone'[s]) /\ zone'[s] \in Zone({})
  BY <1>2, <1>3, <1>6, <1>7
<1> QED
  BY <1>3, <1>8, StepHolds

LEMMA HavocHolds ==
  ASSUME ZonesHold, NEW s \in Slots, NEW x \in Vars, Havoc(s, x)
  PROVE  ZonesHold' /\ Domain!Next
<1> DEFINE z == zone[s]
           r == havoc(z, x)
           S == {q \in Points : \E pt \in gamma(z) : q = [pt EXCEPT ![x] = q[x]]}
           o == [name |-> "havoc", s |-> s, x |-> x]
<1>1. z \in Zone({})
  BY DEF ZonesHold
<1>2. zone' = [zone EXCEPT ![s] = Lift(z, r)] /\ op' = o
  BY DEF Havoc, Unary
<1>3. zone'[s] = Lift(z, r) /\ zone' = [zone EXCEPT ![s] = zone'[s]]
  BY <1>2 DEF ZonesHold
<1>4. r \in Zone({}) /\ S \cap Points \subseteq gamma(r)
  BY <1>1, HavocPoints
<1>5. gamma(z) = {} => S = {}
  OBVIOUS
<1>6. Domain!Post(o) = S
  BY DEF Domain!Post
<1>7. Lift(z, r) \in Zone({}) /\ S \cap Points \subseteq gamma(Lift(z, r))
  <2> HIDE DEF r, S, z
  <2> QED
    BY <1>1, <1>4, <1>5, LiftHolds
<1>8. op'.s = s /\ Domain!Post(op') \cap Points \subseteq gamma(zone'[s]) /\ zone'[s] \in Zone({})
  BY <1>2, <1>3, <1>6, <1>7
<1> QED
  BY <1>3, <1>8, StepHolds

LEMMA AssumeHolds ==
  ASSUME ZonesHold, NEW s \in Slots, NEW cst, IsConstraint(cst), Assume(s, cst)
  PROVE  ZonesHold' /\ Domain!Next
<1> DEFINE z == zone[s]
           r == add_constraint(z, cst)
           S == {pt \in gamma(z) : Domain!Satisfies(pt, cst)}
           o == [name |-> "assume", s |-> s, cst |-> cst]
<1>1. z \in Zone({})
  BY DEF ZonesHold
<1>2. zone' = [zone EXCEPT ![s] = Lift(z, r)] /\ op' = o
  BY DEF Assume, Unary
<1>3. zone'[s] = Lift(z, r) /\ zone' = [zone EXCEPT ![s] = zone'[s]]
  BY <1>2 DEF ZonesHold
<1>4. r \in Zone({}) /\ S \cap Points \subseteq gamma(r)
  BY <1>1, AssumePoints
<1>5. gamma(z) = {} => S = {}
  OBVIOUS
<1>6. Domain!Post(o) = S
  BY DEF Domain!Post
<1>7. Lift(z, r) \in Zone({}) /\ S \cap Points \subseteq gamma(Lift(z, r))
  <2> HIDE DEF r, S, z
  <2> QED
    BY <1>1, <1>4, <1>5, LiftHolds
<1>8. op'.s = s /\ Domain!Post(op') \cap Points \subseteq gamma(zone'[s]) /\ zone'[s] \in Zone({})
  BY <1>2, <1>3, <1>6, <1>7
<1> QED
  BY <1>3, <1>8, StepHolds

LEMMA JoinHolds ==
  ASSUME ZonesHold, JoinZones
  PROVE  ZonesHold' /\ Domain!Next
<1> DEFINE r == zone_join(zone[1], zone[2])
           o == [name |-> "join", s |-> 1, with |-> 2]
<1>1. zone[1] \in Zone({}) /\ zone[2] \in Zone({}) /\ 1 \in Slots /\ 2 \in Slots
  BY DEF ZonesHold, Slots
<1>2. zone' = [zone EXCEPT ![1] = r] /\ op' = o
  BY DEF JoinZones, Binary
<1>3. zone'[1] = r /\ zone' = [zone EXCEPT ![1] = zone'[1]]
  BY <1>1, <1>2 DEF ZonesHold
<1>4. r \in Zone({}) /\ (gamma(zone[1]) \cup gamma(zone[2])) \cap Points \subseteq gamma(r)
  BY <1>1, BinaryPoints
<1>5. Domain!Post(o) = gamma(zone[1]) \cup gamma(zone[2])
  BY <1>1 DEF Domain!Post
<1>6. op'.s = 1 /\ Domain!Post(op') \cap Points \subseteq gamma(zone'[1]) /\ zone'[1] \in Zone({})
  <2> HIDE DEF r
  <2> QED
    BY <1>2, <1>3, <1>4, <1>5
<1> QED
  BY <1>1, <1>3, <1>6, StepHolds

LEMMA WidenHolds ==
  ASSUME ZonesHold, WidenZones
  PROVE  ZonesHold' /\ Domain!Next
<1> DEFINE r == zone_widen(zone[1], zone[2])
           o == [name |-> "widen", s |-> 1, with |-> 2]
<1>1. zone[1] \in Zone({}) /\ zone[2] \in Zone({}) /\ 1 \in Slots /\ 2 \in Slots
  BY DEF ZonesHold, Slots
<1>2. zone' = [zone EXCEPT ![1] = r] /\ op' = o
  BY DEF WidenZones, Binary
<1>3. zone'[1] = r /\ zone' = [zone EXCEPT ![1] = zone'[1]]
  BY <1>1, <1>2 DEF ZonesHold
<1>4. r \in Zone({}) /\ (gamma(zone[1]) \cup gamma(zone[2])) \cap Points \subseteq gamma(r)
  BY <1>1, BinaryPoints
<1>5. Domain!Post(o) = gamma(zone[1]) \cup gamma(zone[2])
  BY <1>1 DEF Domain!Post
<1>6. op'.s = 1 /\ Domain!Post(op') \cap Points \subseteq gamma(zone'[1]) /\ zone'[1] \in Zone({})
  <2> HIDE DEF r
  <2> QED
    BY <1>2, <1>3, <1>4, <1>5
<1> QED
  BY <1>1, <1>3, <1>6, StepHolds

LEMMA NarrowHolds ==
  ASSUME ZonesHold, NarrowZones
  PROVE  ZonesHold' /\ Domain!Next
<1> DEFINE r == zone_narrow(zone[1], zone[2])
           o == [name |-> "narrow", s |-> 1, with |-> 2]
<1>1. zone[1] \in Zone({}) /\ zone[2] \in Zone({}) /\ 1 \in Slots /\ 2 \in Slots
  BY DEF ZonesHold, Slots
<1>2. zone' = [zone EXCEPT ![1] = r] /\ op' = o
  BY DEF NarrowZones, Binary
<1>3. zone'[1] = r /\ zone' = [zone EXCEPT ![1] = zone'[1]]
  BY <1>1, <1>2 DEF ZonesHold
<1>4. r \in Zone({}) /\ (gamma(zone[1]) \cap gamma(zone[2])) \cap Points \subseteq gamma(r)
  BY <1>1, BinaryPoints
<1>5. Domain!Post(o) = gamma(zone[1]) \cap gamma(zone[2])
  BY <1>1 DEF Domain!Post
<1>6. op'.s = 1 /\ Domain!Post(op') \cap Points \subseteq gamma(zone'[1]) /\ zone'[1] \in Zone({})
  <2> HIDE DEF r
  <2> QED
    BY <1>2, <1>3, <1>4, <1>5
<1> QED
  BY <1>1, <1>3, <1>6, StepHolds

LEMMA NextHolds ==
  ASSUME ZonesHold, [Next]_vars
  PROVE  ZonesHold' /\ [Domain!Next]_(Domain!absVars)
<1>1. ASSUME NEW s \in Slots, NEW a \in Assignments, Assign(s, a[1], a[2])
      PROVE  ZonesHold' /\ Domain!Next
  <2>1. a[1] \in Vars /\ IsLinear(a[2])
    BY InputsAssumption
  <2> QED
    BY <1>1, <2>1, AssignHolds
<1>2. ASSUME NEW s \in Slots, NEW a \in Settings, Set(s, a[1], a[2])
      PROVE  ZonesHold' /\ Domain!Next
  <2>1. a[1] \in Vars /\ a[2][1] \in Int /\ a[2][2] \in Int /\ a[2][1] <= a[2][2]
    BY InputsAssumption
  <2> QED
    BY <1>2, <2>1, SetHolds
<1>3. ASSUME NEW s \in Slots, NEW x \in Havocs, Havoc(s, x)
      PROVE  ZonesHold' /\ Domain!Next
  <2>1. x \in Vars
    BY InputsAssumption
  <2> QED
    BY <1>3, <2>1, HavocHolds
<1>4. ASSUME NEW s \in Slots, NEW cst \in Csts, Assume(s, cst)
      PROVE  ZonesHold' /\ Domain!Next
  <2>1. IsConstraint(cst)
    BY InputsAssumption
  <2> QED
    BY <1>4, <2>1, AssumeHolds
<1>5. CASE JoinZones
  BY <1>5, JoinHolds
<1>6. CASE WidenZones
  BY <1>6, WidenHolds
<1>7. CASE NarrowZones
  BY <1>7, NarrowHolds
<1>8. CASE UNCHANGED vars
  <2>1. zone' = zone /\ op' = op
    BY <1>8 DEF vars
  <2>2. ZonesHold'
    BY <2>1 DEF ZonesHold
  <2>3. UNCHANGED Domain!absVars
    BY <2>1 DEF Domain!absVars
  <2> QED
    BY <2>2, <2>3
<1> QED
  BY <1>1, <1>2, <1>3, <1>4, <1>5, <1>6, <1>7, <1>8 DEF Next

(* Each zone is well formed and its potential is a model of its graph,      *)
(* whatever operations of split_dbm.cpp made it.                            *)
THEOREM ZonesInvariant == Spec => []ZonesHold
<1>1. Init => ZonesHold
  BY InitHolds
<1>2. ZonesHold /\ [Next]_vars => ZonesHold'
  BY NextHolds
<1> QED
  BY <1>1, <1>2, PTL DEF Spec

(* The potential that repair_potential, set, assign, join and widening      *)
(* leave behind satisfies every edge: no operation hands the shortest-path  *)
(* algorithms of graph_ops.hpp a negative reduced weight.                   *)
THEOREM PotentialTheorem == Spec => []PotentialIsAModel
<1>1. ZonesHold => PotentialIsAModel
  <2> SUFFICES ASSUME ZonesHold, NEW s \in Slots, NEW e \in DOMAIN zone[s].g
               PROVE  zone[s].p[e[1]] + zone[s].g[e] >= zone[s].p[e[2]]
    BY DEF PotentialIsAModel
  <2> DEFINE z == zone[s]
             p == z.p
             w == Model(p)
  <2>1. z \in Zone({}) /\ {} \in SUBSET Valuations
    BY DEF ZonesHold
  <2> HIDE DEF z
  <2>2. /\ p \in Potentials /\ z.g \in Gr(DOMAIN p, With({}, p)) /\ 0 \in DOMAIN p
        /\ \A v \in DOMAIN p : p[v] \in Int
    BY <2>1, ZoneElim
  <2>3. w \in With({}, p)
    BY DEF With
  <2>4. e \in DOMAIN z.g
    BY DEF z
  <2> DEFINE W == With({}, p)
             V == DOMAIN p
  <2>5. z.g \in Gr(V, W) /\ w \in W
    BY <2>2, <2>3
  <2>6. \A v \in V : w[v] = p[v] - p[0] /\ p[v] \in Int /\ p[0] \in Int
    BY <2>2, ModelFacts
  <2> HIDE DEF W, V, w, p
  <2>7. e[1] \in V /\ e[2] \in V /\ z.g[e] \in Int /\ w[e[2]] - w[e[1]] <= z.g[e]
    BY <2>4, <2>5, GrElim
  <2>8. p[e[1]] + z.g[e] >= p[e[2]]
    BY <2>6, <2>7
  <2> QED
    BY <2>8 DEF p, z
<1> QED
  BY <1>1, ZonesInvariant, PTL

(* leq, by which the fixpoint iteration decides that it is done, never      *)
(* takes a zone to be below one that lacks some of its points.              *)
THEOREM LeqTheorem == Spec => []LeqIsSound
<1>1. ZonesHold => LeqIsSound
  <2> SUFFICES ASSUME ZonesHold, zone[1].ok, zone[2].ok, leq(zone[1], zone[2]), NEW pt \in gamma(zone[1])
               PROVE  pt \in gamma(zone[2])
    BY DEF LeqIsSound
  <2>1. zone[1] \in Zone({}) /\ zone[2] \in Zone({}) /\ {} \in SUBSET Valuations
    BY DEF ZonesHold, Slots
  <2>2. pt \in Points /\ Extend(pt) \in Valuations
    BY PointFacts DEF gamma
  <2>3. Sat(Extend(pt), zone[1].g)
    BY <2>1, <2>2, EdgesAtPoint DEF gamma
  <2>4. Sat(Extend(pt), zone[2].g)
    BY <2>1, <2>2, <2>3, LeqSound
  <2> QED
    BY <2>1, <2>2, <2>4, EdgesAtPoint DEF gamma
<1> QED
  BY <1>1, ZonesInvariant, PTL

(* entail and intersect, on which the checker's verdicts rest, answer       *)
(* rightly for every point of a zone that any sequence of operations made.  *)
THEOREM AnswersTheorem == Spec => []AnswersAreRight
<1>1. ZonesHold => AnswersAreRight
  <2> SUFFICES ASSUME ZonesHold, NEW c \in Queries, NEW pt \in gamma(zone[1])
               PROVE  /\ entail(zone[1], c) => Domain!Satisfies(pt, c)
                      /\ ~ intersect(zone[1], c) => ~ Domain!Satisfies(pt, c)
    BY DEF AnswersAreRight
  <2>1. zone[1] \in Zone({})
    BY DEF ZonesHold, Slots
  <2>2. zone[1] \in Zone({Extend(pt)}) /\ Extend(pt) \in Valuations
    BY <2>1, AtOnePoint
  <2>3. IsConstraint(c) /\ pt \in Points
    BY InputsAssumption DEF gamma
  <2>4. Domain!Satisfies(pt, c) <=> Meets(Extend(pt), c)
    BY <2>3, SatisfiesIsMeets
  <2>5. entail(zone[1], c) => Meets(Extend(pt), c)
    BY <2>2, <2>3, EntailSound
  <2>6. Meets(Extend(pt), c) => intersect(zone[1], c)
    BY <2>2, <2>3, IntersectSound
  <2> QED
    BY <2>4, <2>5, <2>6
<1> QED
  BY <1>1, ZonesInvariant, PTL

(* The zone domain implements the numerical domain: no sequence of          *)
(* assignments, constraints, joins, widenings and narrowings loses a point. *)
THEOREM ZonesSoundTheorem == Spec => ZonesAreSound
<1>1. Init => Domain!Init
  BY InitHolds
<1>2. ZonesHold /\ [Next]_vars => [Domain!Next]_(Domain!absVars)
  BY NextHolds
<1> QED
  BY <1>1, <1>2, ZonesInvariant, PTL DEF Spec, ZonesAreSound, Domain!Spec
=============================================================================
