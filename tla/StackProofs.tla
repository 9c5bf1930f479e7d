---------------------------- MODULE StackProofs ----------------------------
(***************************************************************************)
(* What num_bytes and stack_numeric_size promise, for every stack size,    *)
(* word, set of abstract states and workload.                              *)
(***************************************************************************)
EXTENDS StackArray, WellFoundedInduction, TLAPS

StackInv == TypeOK /\ NumericBytesAreNumbers /\ NumericSizeIsRight

(* A set of natural numbers has a least element. *)
LEMMA LeastNatural ==
  ASSUME NEW T, T \subseteq Nat, T # {}
  PROVE  Min(T) \in T /\ \A y \in T : Min(T) <= y
<1>1. PICK x \in T : \A y \in T : ~ (<<y, x>> \in OpToRel(<, Nat))
  BY NatLessThanWellFounded, WFMin
<1>2. ASSUME NEW y \in T, y < x
      PROVE  FALSE
  <2>1. <<y, x>> \in Nat \X Nat
    OBVIOUS
  <2>2. <<y, x>> \in OpToRel(<, Nat)
    BY <1>2, <2>1 DEF OpToRel
  <2> QED
    BY <1>1, <2>2
<1>3. \A y \in T : x <= y
  BY <1>2
<1> QED
  BY <1>3 DEF Min

(* all_num_width(lb) counts only bytes that are numbers. *)
LEMMA AllNumWidthFacts ==
  ASSUME NEW bits \in SUBSET Bytes, NEW lb \in Int
  PROVE  /\ AllNumWidth(bits, lb) \in Nat
         /\ \A b \in Bytes : lb <= b /\ b < lb + AllNumWidth(bits, lb) => b \notin bits
<1> DEFINE stops == {b \in bits : b >= lb}
<1>0. Bytes \subseteq Int
  BY StackAssumption DEF Bytes
<1>1. CASE lb \notin Bytes
  <2>1. AllNumWidth(bits, lb) = 0
    BY <1>1 DEF AllNumWidth
  <2> QED
    BY <1>0, <2>1
<1>2. CASE lb \in Bytes /\ stops = {}
  BY <1>2, StackAssumption DEF AllNumWidth, Bytes
<1>3. CASE lb \in Bytes /\ stops # {}
  <2>0. StackSize \in Nat /\ \A b \in bits : b \in 0 .. StackSize - 1
    BY StackAssumption DEF Bytes
  <2>1. stops \subseteq Nat
    BY <2>0
  <2>2. Min(stops) \in stops /\ \A y \in stops : Min(stops) <= y
    BY <1>3, <2>1, LeastNatural
  <2>3. AllNumWidth(bits, lb) = Min(stops) - lb
    BY <1>3 DEF AllNumWidth
  <2>4. Min(stops) \in Int /\ Min(stops) >= lb
    BY <2>1, <2>2
  <2>5. AllNumWidth(bits, lb) \in Nat /\ lb + AllNumWidth(bits, lb) = Min(stops)
    BY <2>3, <2>4
  <2>6. ASSUME NEW b \in Bytes, lb <= b, b < Min(stops), b \in bits PROVE FALSE
    <3>1. b \in stops
      BY <2>6
    <3>2. Min(stops) <= b /\ b \in Int
      BY <2>1, <2>2, <3>1
    <3> QED
      BY <2>4, <2>6, <3>2
  <2> QED
    BY <2>5, <2>6
<1> QED
  BY <1>1, <1>2, <1>3

(* The two claims about one state, of whose execution the stack is m and a *)
(* pointer is x.                                                           *)
BitsRight(bits, m) == \A b \in Bytes \ bits : m[b].holds \in Numeric
SizeRight(size, m, x) ==
  \A z \in size : \A b \in Bytes : x <= b /\ b < x + z.lo => m[b].holds \in Numeric

(* recompute_stack_numeric_size keeps a size that is right, or finds one   *)
(* that is.                                                                *)
LEMMA RecomputeFacts ==
  ASSUME NEW bits \in SUBSET Bytes, NEW i \in Intervals, NEW size \in SUBSET Intervals,
         NEW m, NEW x \in i.lo .. i.hi, BitsRight(bits, m), SizeRight(size, m, x)
  PROVE  /\ Recompute(bits, i, size) \in SUBSET Intervals
         /\ SizeRight(Recompute(bits, i, size), m, x)
<1> DEFINE n == MinAllNumSize(bits, i)
           w == AllNumWidth(bits, i.lo)
<1>1. i.lo \in Int /\ i.hi \in Int /\ i.lo <= i.hi
  BY DEF Intervals
<1>2. w \in Nat /\ \A b \in Bytes : i.lo <= b /\ b < i.lo + w => b \notin bits
  BY <1>1, AllNumWidthFacts
<1>3. n \in Nat /\ (n > 0 => n = w - (i.hi - i.lo))
  BY <1>1, <1>2 DEF MinAllNumSize
<1>4. CASE n > 0
  <2>1. Recompute(bits, i, size) = {[lo |-> n, hi |-> n]}
    BY <1>4 DEF Recompute
  <2>2. [lo |-> n, hi |-> n] \in Intervals
    BY <1>3 DEF Intervals
  <2>3. \A b \in Bytes : x <= b /\ b < x + n => b \notin bits
    BY <1>1, <1>2, <1>3, <1>4, StackAssumption DEF Bytes
  <2> QED
    BY <2>1, <2>2, <2>3 DEF BitsRight, SizeRight
<1>5. CASE ~ (n > 0)
  BY <1>5 DEF Recompute
<1> QED
  BY <1>4, <1>5

(* What the invariant says of one state: its num_bytes, the offsets and    *)
(* sizes of its pointers, and the stack and the pointers of its execution. *)
AllRight(bits, i, size, m, x) ==
  /\ bits \in SUBSET Bytes /\ i \in [Pointers -> Intervals]
  /\ size \in [Pointers -> SUBSET Intervals] /\ x \in [Pointers -> Int]
  /\ m = [b \in Bytes |-> m[b]]
  /\ \A p \in Pointers : x[p] \in i[p].lo .. i[p].hi
  /\ BitsRight(bits, m)
  /\ \A p \in Pointers : SizeRight(size[p], m, x[p])

(* A step that leaves s so, and the other states alone *)
Leaves(s, bits, i, size, m, x) ==
  /\ Step
  /\ non_numerical_bytes' = [non_numerical_bytes EXCEPT ![s] = bits]
  /\ offset' = [offset EXCEPT ![s] = i]
  /\ numeric_size' = [numeric_size EXCEPT ![s] = size]
  /\ memory' = [memory EXCEPT ![s] = m]
  /\ place' = [place EXCEPT ![s] = x]

(* The invariant after a step that changes what is known of s, from facts  *)
(* about s alone.                                                          *)
LEMMA StepOfOneState ==
  ASSUME StackInv, NEW s \in States, NEW bits, NEW i, NEW size, NEW m, NEW x,
         AllRight(bits, i, size, m, x), Leaves(s, bits, i, size, m, x)
  PROVE  StackInv'
<1> USE DEF AllRight, Leaves
<1>1. workload' = workload /\ workload \in Workloads /\ workload.max_steps \in Nat
  BY WorkloadAssumption DEF StackInv, TypeOK, Step
<1>2. steps' \in 0 .. workload'.max_steps
  BY <1>1 DEF StackInv, TypeOK, Step
<1>3. /\ non_numerical_bytes' \in [States -> SUBSET Bytes]
      /\ offset' \in [States -> [Pointers -> Intervals]]
      /\ numeric_size' \in [States -> [Pointers -> SUBSET Intervals]]
      /\ place' \in [States -> [Pointers -> Int]]
  BY DEF StackInv, TypeOK
<1>4. \A t \in States, p \in Pointers : place'[t][p] \in offset'[t][p].lo .. offset'[t][p].hi
  BY DEF StackInv, TypeOK
<1>5. memory' = [t \in States |-> [b \in Bytes |-> memory'[t][b]]]
  BY DEF StackInv, TypeOK
<1>6. TypeOK'
  BY <1>1, <1>2, <1>3, <1>4, <1>5 DEF TypeOK
<1>7. NumericBytesAreNumbers'
  BY DEF StackInv, TypeOK, NumericBytesAreNumbers, BitsRight
<1>8. NumericSizeIsRight'
  BY DEF StackInv, TypeOK, NumericSizeIsRight, SizeRight
<1> QED
  BY <1>6, <1>7, <1>8 DEF StackInv

(* Storing in one state: the bytes that are said to be numbers after it    *)
(* are numbers.                                                            *)
LEMMA StoredBitsAreRight ==
  ASSUME NEW bits \in SUBSET Bytes, NEW a \in Accesses, NEW r \in Registers,
         NEW m, BitsRight(bits, m),
         NEW x \in a.lo .. a.hi
  PROVE  /\ StoreBits(bits, a, r) \in SUBSET Bytes
         /\ BitsRight(StoreBits(bits, a, r), Written(m, x, a, r))
<1> DEFINE new == StoreBits(bits, a, r)
           old == HavocTypeBits(bits, a)
<1>1. /\ a.lo \in Int /\ a.hi \in Int /\ a.wlo \in Nat /\ a.whi \in Nat
      /\ a.lo <= a.hi /\ a.wlo <= a.whi
  BY DEF Accesses
<1>2. StackSize \in Nat /\ Bytes = 0 .. StackSize - 1
  BY StackAssumption DEF Bytes
<1>3. new \in SUBSET Bytes
  BY DEF StoreBits, HavocTypeBits, StoreTypeBits, Range0
<1>4. \A b \in Bytes : b \notin x .. x + a.wlo - 1 => Written(m, x, a, r)[b] = m[b]
  BY DEF Written
<1>5. r.type = "num" \/ (r.type = "uninit" /\ ~ Singleton(a)) =>
        \A b \in Bytes : b \in x .. x + a.wlo - 1 => Written(m, x, a, r)[b].holds \in Numeric
  BY DEF Written, RegisterByte, NumByte, Unseen, Numeric
<1>6. ASSUME Singleton(a)
      PROVE  /\ x = a.lo
             /\ old = bits \cup Range0(a.lo, a.wlo)
             /\ r.type # "num" => new = old
             /\ r.type = "num" => new = old \ Range0(a.lo, a.wlo)
  <2>1. x = a.lo
    BY <1>1, <1>6 DEF Singleton
  <2>2. old = bits \cup Range0(a.lo, a.wlo)
    BY <1>6 DEF HavocTypeBits
  <2>3. r.type # "num" => new = old
    BY <1>6, <2>2 DEF StoreBits, StoreTypeBits
  <2>4. r.type = "num" => new = old \ Range0(a.lo, a.wlo)
    BY <1>6 DEF StoreBits, StoreTypeBits
  <2> QED
    BY <2>1, <2>2, <2>3, <2>4
<1>7. CASE Singleton(a)
  <2>1. \A b \in Bytes : b \in Range0(a.lo, a.wlo) <=> b \in x .. x + a.wlo - 1
    BY <1>1, <1>2, <1>6, <1>7 DEF Range0
  <2>2. CASE r.type = "num"
    BY <1>4, <1>5, <1>6, <1>7, <2>1, <2>2 DEF BitsRight
  <2>3. CASE r.type # "num"
    <3>1. new = bits \cup Range0(a.lo, a.wlo)
      BY <1>6, <1>7, <2>3
    <3>2. \A b \in Bytes \ new : b \in Bytes \ bits /\ b \notin x .. x + a.wlo - 1
      BY <2>1, <3>1
    <3> QED
      BY <1>3, <1>4, <3>2 DEF BitsRight
  <2> QED
    BY <1>3, <2>2, <2>3
<1>8. CASE ~ Singleton(a)
  <2>1. CASE r.type = "uninit"
    <3>1. new = bits
      BY <1>8, <2>1 DEF StoreBits, HavocTypeBits
    <3> QED
      BY <1>3, <1>4, <1>5, <1>8, <2>1, <3>1 DEF BitsRight
  <2>2. CASE r.type # "uninit"
    <3>1. new = bits \cup Range0(Bound(a.lo), Bound(a.hi + a.whi))
      BY <1>8, <2>2 DEF StoreBits, HavocTypeBits, StoreTypeBits
    <3>2. \A b \in Bytes : b \in x .. x + a.wlo - 1 =>
            b \in Range0(Bound(a.lo), Bound(a.hi + a.whi))
      BY <1>1, <1>2, SMTT(30) DEF Range0, Bound
    <3> QED
      BY <1>3, <1>4, <3>1, <3>2 DEF BitsRight
  <2> QED
    BY <2>1, <2>2
<1> QED
  BY <1>7, <1>8

(* Storing in one state: stack_numeric_size is right after it. *)
LEMMA StoredSizeIsRight ==
  ASSUME NEW i \in Intervals, NEW p \in i.lo .. i.hi, NEW size \in SUBSET Intervals,
         NEW a \in Accesses, NEW r \in Registers, NEW m, NEW x \in a.lo .. a.hi,
         NEW n, n = Written(m, x, a, r),
         NEW bits \in SUBSET Bytes, BitsRight(bits, n),
         SizeRight(size, m, p)
  PROVE  LET new == StoreNumericSize(bits, i, size, a, r.type = "num") IN
         /\ new \in SUBSET Intervals
         /\ SizeRight(new, n, p)
<1> DEFINE new == StoreNumericSize(bits, i, size, a, r.type = "num")
           touches == /\ size = {} \/ \E z \in size : a.lo <= i.hi + z.hi
                      /\ a.hi + a.wlo >= i.lo
<1>1. /\ a.lo \in Int /\ a.hi \in Int /\ a.wlo \in Nat /\ a.lo <= a.hi
      /\ i.lo \in Int /\ i.hi \in Int /\ p \in Int /\ x \in Int
  BY DEF Accesses, Intervals
<1>2. Bytes \subseteq Int
  BY StackAssumption DEF Bytes
<1>3. \A b \in Bytes : b \notin x .. x + a.wlo - 1 => n[b] = m[b]
  BY DEF Written
<1>4. \A z \in size : z.lo \in Int /\ z.hi \in Int /\ z.lo <= z.hi
  BY DEF Intervals
<1>5. CASE r.type = "num"
  <2>1. \A b \in Bytes : b \in x .. x + a.wlo - 1 => n[b].holds \in Numeric
    BY <1>5 DEF Written, RegisterByte, NumByte, Numeric
  <2>2. SizeRight(size, n, p)
    BY <1>3, <2>1 DEF SizeRight
  <2>3. new = Recompute(bits, i, size) \/ new = size
    BY <1>5 DEF StoreNumericSize
  <2>4. /\ Recompute(bits, i, size) \in SUBSET Intervals
        /\ SizeRight(Recompute(bits, i, size), n, p)
    BY <2>2, RecomputeFacts
  <2> QED
    BY <2>2, <2>3, <2>4
<1>6. CASE r.type # "num" /\ touches
  <2>1. new = Recompute(bits, i, {})
    BY <1>6 DEF StoreNumericSize
  <2>2. /\ Recompute(bits, i, {}) \in SUBSET Intervals
        /\ SizeRight(Recompute(bits, i, {}), n, p)
    <3>1. {} \in SUBSET Intervals /\ SizeRight({}, n, p)
      BY DEF SizeRight
    <3> QED
      BY <3>1, RecomputeFacts
  <2> QED
    BY <2>1, <2>2
<1>7. CASE r.type # "num" /\ ~ touches
  <2>1. new = size
    BY <1>7 DEF StoreNumericSize
  <2>2. ASSUME NEW z \in size, NEW b \in Bytes, p <= b, b < p + z.lo
        PROVE  n[b].holds \in Numeric
    <3>1. b \notin x .. x + a.wlo - 1
      <4>1. CASE a.hi + a.wlo < i.lo
        BY <1>1, <1>2, <2>2, <4>1
      <4>2. CASE ~ (a.hi + a.wlo < i.lo)
        <5>1. ~ (a.lo <= i.hi + z.hi)
          BY <1>1, <1>7, <4>2
        <5> QED
          BY <1>1, <1>2, <1>4, <2>2, <5>1
      <4> QED
        BY <4>1, <4>2
    <3> QED
      BY <1>3, <2>2, <3>1 DEF SizeRight
  <2> QED
    BY <2>1, <2>2 DEF SizeRight
<1> QED
  BY <1>5, <1>6, <1>7

(* What StackInv says of one state. *)
LEMMA OneState ==
  ASSUME StackInv, NEW s \in States
  PROVE  /\ AllRight(non_numerical_bytes[s], offset[s], numeric_size[s], memory[s], place[s])
         /\ non_numerical_bytes = [non_numerical_bytes EXCEPT ![s] = non_numerical_bytes[s]]
         /\ offset = [offset EXCEPT ![s] = offset[s]]
         /\ numeric_size = [numeric_size EXCEPT ![s] = numeric_size[s]]
         /\ memory = [memory EXCEPT ![s] = memory[s]]
         /\ place = [place EXCEPT ![s] = place[s]]
BY DEF StackInv, TypeOK, NumericBytesAreNumbers, NumericSizeIsRight, BitsRight, SizeRight, AllRight

(* What it says of one pointer of one state. *)
LEMMA OnePointer ==
  ASSUME StackInv, NEW s \in States, NEW p \in Pointers
  PROVE  /\ offset[s][p] \in Intervals
         /\ numeric_size[s][p] \in SUBSET Intervals
         /\ place[s][p] \in offset[s][p].lo .. offset[s][p].hi
         /\ place[s][p] \in Int
         /\ SizeRight(numeric_size[s][p], memory[s], place[s][p])
BY OneState DEF AllRight

(* do_store_stack *)
LEMMA StoreStep ==
  ASSUME StackInv, NEW s \in States, NEW a \in Accesses, NEW r \in Registers, Store(s, a, r)
  PROVE  StackInv'
<1> DEFINE bits == StoreBits(non_numerical_bytes[s], a, r)
           new(p) == StoreNumericSize(bits, offset[s][p], numeric_size[s][p], a, r.type = "num")
           size == [p \in Pointers |-> new(p)]
<1>1. PICK x \in a.lo .. a.hi : memory' = [memory EXCEPT ![s] = Written(@, x, a, r)]
  BY DEF Store
<1> DEFINE n == Written(memory[s], x, a, r)
<1>2. Leaves(s, bits, offset[s], size, n, place[s])
  BY <1>1, OneState DEF Store, Becomes, Leaves
<1>4. bits \in SUBSET Bytes /\ BitsRight(bits, n)
  BY OneState, StoredBitsAreRight DEF AllRight
<1>5. ASSUME NEW p \in Pointers
      PROVE  new(p) \in SUBSET Intervals /\ SizeRight(new(p), n, place[s][p])
  <2> HIDE DEF bits
  <2> QED
    BY <1>4, OnePointer, StoredSizeIsRight
<1>6. n = [b \in Bytes |-> n[b]]
  BY DEF Written
<1> HIDE DEF bits, new, n
<1>7. /\ size \in [Pointers -> SUBSET Intervals]
      /\ \A p \in Pointers : SizeRight(size[p], n, place[s][p])
  BY <1>5
<1> HIDE DEF size
<1>8. AllRight(bits, offset[s], size, n, place[s])
  BY <1>4, <1>6, <1>7, OneState DEF AllRight
<1> QED
  BY <1>2, <1>8, StepOfOneState

(* A load changes nothing that the claims are about: do_load_stack *)
LEMMA LoadStep ==
  ASSUME StackInv, NEW s \in States,
         \/ \E a \in Accesses : LoadFixed(s, a)
         \/ \E p \in Pointers, k \in Int, w \in Nat : LoadThrough(s, p, k, w)
  PROVE  StackInv'
<1>1. Leaves(s, non_numerical_bytes[s], offset[s], numeric_size[s], memory[s], place[s])
  BY OneState DEF LoadFixed, LoadThrough, Becomes, Leaves
<1> QED
  BY <1>1, OneState, StepOfOneState

(* A helper writes numbers, and store_numbers marks only bytes it must     *)
(* have written.                                                           *)
LEMMA HelperStep ==
  ASSUME StackInv, NEW s \in States, NEW a \in Accesses, HelperWrite(s, a)
  PROVE  StackInv'
<1> DEFINE bits == StoreNumbersBits(non_numerical_bytes[s], a)
<1>1. PICK x \in a.lo .. a.hi, w \in a.wlo .. a.whi, v \in {0, 1} :
        memory' = [memory EXCEPT ![s] = Filled(@, x, w, v)]
  BY DEF HelperWrite
<1> DEFINE n == Filled(memory[s], x, w, v)
<1>2. Leaves(s, bits, offset[s], numeric_size[s], n, place[s])
  BY <1>1, OneState DEF HelperWrite, Becomes, Leaves
<1>3. /\ \A b \in Bytes : b \in x .. x + w - 1 => n[b].holds \in Numeric
      /\ \A b \in Bytes : n[b].holds \in Numeric \/ n[b] = memory[s][b]
  BY DEF Filled, NumByte, Numeric
<1>4. Singleton(a) => x = a.lo /\ w = a.wlo
  BY DEF Singleton, Accesses
<1>5. \A b \in Bytes : b \in Range0(a.lo, a.wlo) <=> a.lo <= b /\ b < a.lo + a.wlo
  BY DEF Range0
<1>6. /\ non_numerical_bytes[s] \in SUBSET Bytes
      /\ \A b \in Bytes \ non_numerical_bytes[s] : memory[s][b].holds \in Numeric
      /\ \A p \in Pointers : SizeRight(numeric_size[s][p], memory[s], place[s][p])
  BY OneState DEF BitsRight, AllRight
<1>7. bits \in SUBSET Bytes /\ BitsRight(bits, n)
  <2>1. CASE Singleton(a)
    <3>1. \A b \in Bytes : b \in Range0(a.lo, a.wlo) => n[b].holds \in Numeric
      BY <1>3, <1>4, <1>5, <2>1, StackAssumption DEF Bytes, Accesses
    <3> QED
      <4> HIDE DEF n
      <4> QED
        BY <1>3, <1>6, <3>1 DEF StoreNumbersBits, BitsRight
  <2>2. CASE ~ Singleton(a)
    <3> HIDE DEF n
    <3> QED
      BY <1>3, <1>6, <2>2 DEF StoreNumbersBits, BitsRight
  <2> QED
    BY <2>1, <2>2
<1>8. \A p \in Pointers : SizeRight(numeric_size[s][p], n, place[s][p])
  <2> HIDE DEF n
  <2> QED
    BY <1>3, <1>6 DEF SizeRight
<1>9. n = [b \in Bytes |-> n[b]]
  BY DEF Filled
<1> HIDE DEF bits, n
<1>10. AllRight(bits, offset[s], numeric_size[s], n, place[s])
  BY <1>7, <1>8, <1>9, OneState DEF AllRight
<1> QED
  BY <1>2, <1>10, StepOfOneState

(* A pointer moves, and what is said of it with it: add.  The num_bytes    *)
(* may have lost something before.                                         *)
LEMMA AddStep ==
  ASSUME StackInv, NEW s \in States, NEW p \in Pointers, NEW imm \in Int,
         NEW bits \in SUBSET Bytes, non_numerical_bytes[s] \subseteq bits,
         Step, Add(s, p, imm, bits),
         non_numerical_bytes' = [non_numerical_bytes EXCEPT ![s] = bits],
         memory' = memory
  PROVE  StackInv'
<1> DEFINE i == [lo |-> offset[s][p].lo + imm, hi |-> offset[s][p].hi + imm]
           size == IF imm >= 0
                   THEN {[lo |-> z.lo - imm, hi |-> z.hi - imm] : z \in numeric_size[s][p]}
                   ELSE {}
           new == Recompute(bits, i, size)
           x == place[s][p] + imm
<1>1. Leaves(s, bits, [offset[s] EXCEPT ![p] = i], [numeric_size[s] EXCEPT ![p] = new],
             memory[s], [place[s] EXCEPT ![p] = x])
  BY OneState DEF Add, StackInv, TypeOK, Leaves
<1>2. i \in Intervals /\ x \in i.lo .. i.hi /\ place[s][p] \in Int /\ x \in Int
  <2>1. offset[s][p] \in Intervals /\ place[s][p] \in offset[s][p].lo .. offset[s][p].hi
    BY OnePointer
  <2> QED
    BY <2>1 DEF Intervals
<1>3. \A z \in numeric_size[s][p] : z.lo \in Int /\ z.hi \in Int /\ z.lo <= z.hi
  BY OnePointer DEF Intervals
<1>4. size \in SUBSET Intervals
  BY <1>3 DEF Intervals
<1>5. SizeRight(size, memory[s], x)
  <2>1. SUFFICES ASSUME imm >= 0, NEW z \in numeric_size[s][p], NEW b \in Bytes,
                        x <= b, b < x + (z.lo - imm)
                 PROVE  memory[s][b].holds \in Numeric
    BY DEF SizeRight
  <2>2. place[s][p] <= b /\ b < place[s][p] + z.lo
    BY <1>2, <1>3, <2>1, StackAssumption DEF Bytes
  <2>3. SizeRight(numeric_size[s][p], memory[s], place[s][p])
    BY OnePointer
  <2> QED
    BY <2>2, <2>3 DEF SizeRight
<1>6. BitsRight(bits, memory[s])
  BY OneState DEF BitsRight, AllRight
<1> HIDE DEF i, size, x
<1>7. new \in SUBSET Intervals /\ SizeRight(new, memory[s], x)
  BY <1>2, <1>4, <1>5, <1>6, RecomputeFacts
<1> HIDE DEF new
<1>8. AllRight(bits, [offset[s] EXCEPT ![p] = i], [numeric_size[s] EXCEPT ![p] = new],
               memory[s], [place[s] EXCEPT ![p] = x])
  BY <1>2, <1>6, <1>7, OneState DEF AllRight
<1> QED
  BY <1>1, <1>8, StepOfOneState

(* r6 += imm *)
LEMMA AdvanceStep ==
  ASSUME StackInv, NEW s \in States, NEW imm \in Int, Advance(s, imm)
  PROVE  StackInv'
<1>1. /\ Step /\ Add(s, "r6", imm, non_numerical_bytes[s]) /\ "r6" \in Pointers
      /\ non_numerical_bytes' = [non_numerical_bytes EXCEPT ![s] = non_numerical_bytes[s]]
      /\ memory' = memory
  BY OneState DEF Advance, Pointers
<1>2. non_numerical_bytes[s] \in SUBSET Bytes
  BY OneState DEF AllRight
<1> QED
  BY <1>1, <1>2, AddStep

(* r10 moves down by a frame: CallLocal *)
LEMMA CallStep ==
  ASSUME StackInv, NEW s \in States, CallLocal(s)
  PROVE  StackInv'
<1>1. /\ Step /\ Add(s, "r10", -SubprogramSize, non_numerical_bytes[s]) /\ "r10" \in Pointers
      /\ non_numerical_bytes' = [non_numerical_bytes EXCEPT ![s] = non_numerical_bytes[s]]
      /\ memory' = memory
  BY OneState DEF CallLocal, Pointers
<1>2. -SubprogramSize \in Int
  BY StackAssumption
<1>3. non_numerical_bytes[s] \in SUBSET Bytes
  BY OneState DEF AllRight
<1> QED
  BY <1>1, <1>2, <1>3, AddStep

(* Leaving a callee forgets its frame and moves r10 up: Exit *)
LEMMA ExitStep ==
  ASSUME StackInv, NEW s \in States, Exit(s)
  PROVE  StackInv'
<1> DEFINE bits == HavocTypeBits(non_numerical_bytes[s], Fixed(FrameStart(s), SubprogramSize))
<1>1. /\ Step /\ Add(s, "r10", SubprogramSize, bits) /\ "r10" \in Pointers
      /\ non_numerical_bytes' = [non_numerical_bytes EXCEPT ![s] = bits]
      /\ memory' = memory
  BY OneState DEF Exit, Becomes, Pointers
<1>2. bits \in SUBSET Bytes /\ non_numerical_bytes[s] \subseteq bits
  BY OneState DEF HavocTypeBits, Range0, AllRight
<1>3. SubprogramSize \in Int
  BY StackAssumption
<1> HIDE DEF bits
<1> QED
  BY <1>1, <1>2, <1>3, AddStep

(* Both successors of a branch start from the state. *)
LEMMA CopyStep ==
  ASSUME StackInv, NEW s \in States, NEW t \in States, Copy(s, t)
  PROVE  StackInv'
<1>1. Leaves(t, non_numerical_bytes[s], offset[s], numeric_size[s], memory[s], place[s])
  BY DEF Copy, Leaves
<1> QED
  BY <1>1, OneState, StepOfOneState

(* The hull of two intervals contains both. *)
LEMMA HullFacts ==
  ASSUME NEW i \in Intervals, NEW j \in Intervals
  PROVE  /\ Hull(i, j) \in Intervals
         /\ Hull(i, j).lo <= i.lo /\ Hull(i, j).lo <= j.lo
         /\ i.hi <= Hull(i, j).hi /\ j.hi <= Hull(i, j).hi
<1>1. i.lo \in Int /\ i.hi \in Int /\ i.lo <= i.hi /\ j.lo \in Int /\ j.hi \in Int /\ j.lo <= j.hi
  BY DEF Intervals
<1>2. Min({i.lo, j.lo}) \in {i.lo, j.lo} /\ \A y \in {i.lo, j.lo} : Min({i.lo, j.lo}) <= y
  <2>1. \E v \in {i.lo, j.lo} : \A y \in {i.lo, j.lo} : v <= y
    BY <1>1
  <2> QED
    BY <2>1 DEF Min
<1>3. Max({i.hi, j.hi}) \in {i.hi, j.hi} /\ \A y \in {i.hi, j.hi} : y <= Max({i.hi, j.hi})
  <2>1. \E v \in {i.hi, j.hi} : \A y \in {i.hi, j.hi} : v >= y
    BY <1>1
  <2>2. Max({i.hi, j.hi}) \in {i.hi, j.hi} /\ \A y \in {i.hi, j.hi} : Max({i.hi, j.hi}) >= y
    BY <2>1 DEF Max
  <2> QED
    BY <1>1, <2>2
<1> QED
  BY <1>1, <1>2, <1>3 DEF Hull, Intervals

(* What is joined of one pointer is right for an execution along a side. *)
PointerJoined(s, t, side, p) ==
  LET i == Hull(offset[s][p], offset[t][p])
      size == HullIfBoth(numeric_size[s][p], numeric_size[t][p])
  IN  /\ i \in Intervals /\ place[side][p] \in i.lo .. i.hi
      /\ size \in SUBSET Intervals
      /\ SizeRight(size, memory[side], place[side][p])

(* It is so for either side. *)
LEMMA JoinedSizeIsRight ==
  ASSUME StackInv, NEW s \in States, NEW t \in States, NEW side \in {s, t}, NEW p \in Pointers
  PROVE  PointerJoined(s, t, side, p)
<1> DEFINE i == Hull(offset[s][p], offset[t][p])
           size == HullIfBoth(numeric_size[s][p], numeric_size[t][p])
<1>1. side \in States /\ place[side][p] \in Int
  BY OnePointer
<1>2. i \in Intervals /\ i.lo <= offset[side][p].lo /\ offset[side][p].hi <= i.hi
  BY OnePointer, HullFacts
<1>3. place[side][p] \in i.lo .. i.hi
  <2>1. offset[side][p] \in Intervals /\ place[side][p] \in offset[side][p].lo .. offset[side][p].hi
    BY <1>1, OnePointer
  <2>2. i.lo \in Int /\ i.hi \in Int /\ offset[side][p].lo \in Int /\ offset[side][p].hi \in Int
    BY <1>2, <2>1 DEF Intervals
  <2> QED
    BY <1>1, <1>2, <2>1, <2>2
<1>4. \A y \in numeric_size[s][p], z \in numeric_size[t][p] :
        Hull(y, z) \in Intervals /\ Hull(y, z).lo <= y.lo /\ Hull(y, z).lo <= z.lo
  BY OnePointer, HullFacts
<1>5. size \in SUBSET Intervals
  BY <1>4 DEF HullIfBoth
<1>6. SizeRight(size, memory[side], place[side][p])
  <2>1. SUFFICES ASSUME NEW y \in numeric_size[s][p], NEW z \in numeric_size[t][p], NEW b \in Bytes,
                        place[side][p] <= b, b < place[side][p] + Hull(y, z).lo
                 PROVE  memory[side][b].holds \in Numeric
    BY DEF SizeRight, HullIfBoth
  <2>2. PICK v \in numeric_size[side][p] : Hull(y, z).lo <= v.lo
    BY <1>4
  <2>3. v.lo \in Int /\ Hull(y, z).lo \in Int /\ b \in Int
    <3>1. v \in Intervals /\ Hull(y, z) \in Intervals
      BY <1>1, <1>4, OnePointer
    <3> QED
      BY <3>1, StackAssumption DEF Intervals, Bytes
  <2>4. b < place[side][p] + v.lo
    BY <1>1, <2>1, <2>2, <2>3
  <2>5. SizeRight(numeric_size[side][p], memory[side], place[side][p])
    BY <1>1, OnePointer
  <2> QED
    BY <2>1, <2>4, <2>5 DEF SizeRight
<1> QED
  BY <1>2, <1>3, <1>5, <1>6 DEF PointerJoined

(* What is joined holds for an execution along either side: operator|= *)
LEMMA JoinStep ==
  ASSUME StackInv, NEW s \in States, NEW t \in States, Join(s, t)
  PROVE  StackInv'
<1> DEFINE bits == non_numerical_bytes[s] \cup non_numerical_bytes[t]
           hull(p) == Hull(offset[s][p], offset[t][p])
           sizes(p) == HullIfBoth(numeric_size[s][p], numeric_size[t][p])
           i == [p \in Pointers |-> hull(p)]
           size == [p \in Pointers |-> sizes(p)]
<1>1. PICK side \in {s, t} : /\ memory' = [memory EXCEPT ![s] = memory[side]]
                             /\ place' = [place EXCEPT ![s] = place[side]]
  BY DEF Join
<1>2. Leaves(s, bits, i, size, memory[side], place[side])
  BY <1>1, OneState DEF Join, Leaves
<1>3. side \in States
  BY <1>1
<1>4. bits \in SUBSET Bytes /\ BitsRight(bits, memory[side])
  BY <1>1, <1>3, OneState DEF BitsRight, AllRight
<1>5. ASSUME NEW p \in Pointers
      PROVE
        /\ hull(p) \in Intervals /\ place[side][p] \in hull(p).lo .. hull(p).hi
        /\ sizes(p) \in SUBSET Intervals
        /\ SizeRight(sizes(p), memory[side], place[side][p])
  BY <1>1, JoinedSizeIsRight DEF PointerJoined
<1> HIDE DEF bits, hull, sizes
<1>6. /\ i \in [Pointers -> Intervals] /\ size \in [Pointers -> SUBSET Intervals]
      /\ \A p \in Pointers : place[side][p] \in i[p].lo .. i[p].hi
      /\ \A p \in Pointers : SizeRight(size[p], memory[side], place[side][p])
  BY <1>5
<1> HIDE DEF i, size
<1>7. AllRight(bits, i, size, memory[side], place[side])
  BY <1>3, <1>4, <1>6, OneState DEF AllRight
<1> QED
  BY <1>2, <1>7, StepOfOneState

(* At the entry everything may be something else than a number. *)
LEMMA StackInit ==
  ASSUME Init
  PROVE  StackInv
<1>1. workload \in Workloads /\ workload.max_steps \in Nat /\ workload.offset \in Intervals
  BY WorkloadAssumption DEF Init
<1>2. workload.frame \in Int /\ [lo |-> workload.frame, hi |-> workload.frame] \in Intervals
  BY <1>1, WorkloadAssumption, StackAssumption DEF Intervals
<1>3. workload.offset.lo \in Int /\ workload.offset.hi \in Int
  BY <1>1 DEF Intervals
<1>4. PICK x \in workload.offset.lo .. workload.offset.hi :
        place = [s \in States |-> [p \in Pointers |-> IF p = "r10" THEN workload.frame ELSE x]]
  BY DEF Init
<1>5. /\ offset \in [States -> [Pointers -> Intervals]]
      /\ numeric_size \in [States -> [Pointers -> SUBSET Intervals]]
      /\ place \in [States -> [Pointers -> Int]]
  BY <1>1, <1>2, <1>3, <1>4 DEF Init
<1>6. \A s \in States, p \in Pointers : place[s][p] \in offset[s][p].lo .. offset[s][p].hi
  BY <1>2, <1>3, <1>4 DEF Init
<1>7. TypeOK
  BY <1>1, <1>5, <1>6 DEF Init, TypeOK
<1>8. NumericBytesAreNumbers /\ NumericSizeIsRight
  BY DEF Init, NumericBytesAreNumbers, NumericSizeIsRight
<1> QED
  BY <1>7, <1>8 DEF StackInv

(* Every step preserves the invariant. *)
LEMMA StackNext ==
  ASSUME StackInv, [Next]_vars
  PROVE  StackInv'
<1>0. CASE UNCHANGED vars
  BY <1>0 DEF vars, StackInv, TypeOK, NumericBytesAreNumbers, NumericSizeIsRight
<1> SUFFICES ASSUME Next PROVE StackInv'
  BY <1>0
<1>1. PICK s \in workload.states :
        \/ \E x \in workload.stores : Store(s, x.access, x.register)
        \/ \E a \in workload.loads : LoadFixed(s, a)
        \/ \E p \in Pointers, k \in workload.indices, w \in Widths : LoadThrough(s, p, k, w)
        \/ \E a \in workload.helpers : HelperWrite(s, a)
        \/ CallLocal(s) \/ Exit(s)
        \/ \E imm \in workload.moves : Advance(s, imm)
        \/ \E t \in workload.states : Copy(s, t) \/ Join(s, t)
  BY DEF Next
<1>2. /\ workload \in Workloads /\ workload.states \subseteq States
      /\ workload.stores \subseteq [access : Accesses, register : Registers]
      /\ workload.loads \subseteq Accesses /\ workload.helpers \subseteq Accesses
      /\ workload.indices \subseteq Int /\ workload.moves \subseteq Int
  BY WorkloadAssumption DEF StackInv, TypeOK
<1>3. ASSUME NEW x \in workload.stores, Store(s, x.access, x.register)
      PROVE  StackInv'
  <2>1. x.access \in Accesses /\ x.register \in Registers
    BY <1>2
  <2> QED
    BY <1>1, <1>2, <1>3, <2>1, StoreStep
<1>4. ASSUME \/ \E a \in workload.loads : LoadFixed(s, a)
             \/ \E p \in Pointers, k \in workload.indices, w \in Widths : LoadThrough(s, p, k, w)
      PROVE  StackInv'
  <2>1. Widths \subseteq Nat
    BY StackAssumption DEF Widths
  <2> QED
    BY <1>1, <1>2, <1>4, <2>1, LoadStep
<1>5. ASSUME NEW a \in workload.helpers, HelperWrite(s, a)
      PROVE  StackInv'
  BY <1>1, <1>2, <1>5, HelperStep
<1>6. ASSUME CallLocal(s) \/ Exit(s)
      PROVE  StackInv'
  BY <1>1, <1>2, <1>6, CallStep, ExitStep
<1>7. ASSUME NEW imm \in workload.moves, Advance(s, imm)
      PROVE  StackInv'
  BY <1>1, <1>2, <1>7, AdvanceStep
<1>8. ASSUME NEW t \in workload.states, Copy(s, t) \/ Join(s, t)
      PROVE  StackInv'
  BY <1>1, <1>2, <1>8, CopyStep, JoinStep
<1> QED
  BY <1>1, <1>3, <1>4, <1>5, <1>6, <1>7, <1>8

(***************************************************************************)
(* num_bytes counts no byte as a number that is not one, for every stack   *)
(* size, number of states and sequence of accesses, calls and exits,       *)
(* except for the bytes that a register of unknown type left at an offset  *)
(* that is not fixed, which havoc_type does not look at.                   *)
(***************************************************************************)
THEOREM NumericBytesTheorem == Spec => []NumericBytesAreNumbers
<1>1. Init => StackInv
  BY StackInit
<1>2. StackInv /\ [Next]_vars => StackInv'
  BY StackNext
<1>3. StackInv => NumericBytesAreNumbers
  BY DEF StackInv
<1> QED
  BY <1>1, <1>2, <1>3, PTL DEF Spec

(***************************************************************************)
(* stack_numeric_size promises only numbers, with the same exception:      *)
(* recompute_stack_numeric_size, add, the calls and the joins keep it      *)
(* right for r6 and for r10, although a helper that writes memory leaves   *)
(* it alone, and a callee's exit leaves r6's.                              *)
(***************************************************************************)
THEOREM NumericSizeTheorem == Spec => []NumericSizeIsRight
<1>1. Init => StackInv
  BY StackInit
<1>2. StackInv /\ [Next]_vars => StackInv'
  BY StackNext
<1>3. StackInv => NumericSizeIsRight
  BY DEF StackInv
<1> QED
  BY <1>1, <1>2, <1>3, PTL DEF Spec
===========================================================================
