---------------------------- MODULE DecodeProofs ----------------------------
(***************************************************************************)
(* Theorems about the decoder, for every program, platform and table of    *)
(* helpers: each slot is decoded once, the instructions that get through   *)
(* are valid, jumps land on code, and the arguments of a helper are        *)
(* covered.  They also hold of a program that the encoder wrote, and that  *)
(* one is decoded to the program it was written for.                       *)
(***************************************************************************)
EXTENDS Decode, SequenceTheorems, Induction

-----------------------------------------------------------------------------
(***************************************************************************)
(* Powers of two, as the numbers of subsets.                               *)
(***************************************************************************)

(* A set of k elements has 2^k subsets. *)
LEMMA SubsetCount ==
  ASSUME NEW k \in Nat
  PROVE  /\ IsFiniteSet(SUBSET (1..k))
         /\ Cardinality(SUBSET (1..k)) = 2^k
         /\ 2^k \in Nat
<1>1. 1 \in Int /\ k \in Int
  OBVIOUS
<1>2. /\ IsFiniteSet(1..k)
      /\ Cardinality(1..k) = IF 1 > k THEN 0 ELSE k - 1 + 1
  BY <1>1, FS_Interval
<1>3. Cardinality(1..k) = k
  BY <1>2
<1>4. IsFiniteSet(SUBSET (1..k)) /\ Cardinality(SUBSET (1..k)) = 2^k
  BY <1>2, <1>3, FS_SUBSET
<1> QED
  BY <1>4, FS_CardinalityType

(* A larger exponent gives a larger power. *)
LEMMA PowersGrow ==
  ASSUME NEW m \in Nat, NEW n \in Nat, m <= n
  PROVE  2^m <= 2^n
<1>1. SUBSET (1..m) \subseteq SUBSET (1..n)
  OBVIOUS
<1>2. Cardinality(SUBSET (1..m)) <= Cardinality(SUBSET (1..n))
  BY <1>1, SubsetCount, FS_Subset
<1> QED
  BY <1>2, SubsetCount

(* One more element makes for twice as many subsets. *)
LEMMA PowersDouble ==
  ASSUME NEW n \in Nat
  PROVE  2 * 2^n <= 2^(n + 1)
<1> DEFINE A == SUBSET (1..n)
           C == SUBSET (1..(n + 1))
           f == [T \in A |-> T \cup {n + 1}]
           B == {f[T] : T \in A}
<1>1. IsFiniteSet(A) /\ Cardinality(A) = 2^n /\ 2^n \in Nat
  BY SubsetCount
<1>2. IsFiniteSet(C) /\ Cardinality(C) = 2^(n + 1)
  <2>1. n + 1 \in Nat
    OBVIOUS
  <2> QED
    BY <2>1, SubsetCount
<1>3. \A T \in A : T \in C /\ n + 1 \notin T
  OBVIOUS
<1>4. \A T \in A : f[T] = T \cup {n + 1}
  OBVIOUS
<1>5. \A T \in A : f[T] \in C
  <2>1. \A T \in A : T \cup {n + 1} \in C
    OBVIOUS
  <2> QED
    BY <1>4, <2>1
<1>6. f \in [A -> B]
  OBVIOUS
<1> HIDE DEF f, A, C
<1>7. A \cap B = {} /\ A \cup B \subseteq C
  BY <1>3, <1>4, <1>5
<1>8. \A S, T \in A : f[S] = f[T] => S = T
  <2> TAKE S, T \in A
  <2>1. S = (S \cup {n + 1}) \ {n + 1} /\ T = (T \cup {n + 1}) \ {n + 1}
    BY <1>3
  <2> QED
    BY <1>4, <2>1
<1>9. \A x \in B : \E T \in A : f[T] = x
  OBVIOUS
<1> HIDE DEF B
<1>10. f \in Bijection(A, B)
  BY <1>6, <1>8, <1>9 DEF Bijection, Injection, Surjection, IsInjective
<1>11. IsFiniteSet(B) /\ Cardinality(B) = Cardinality(A)
  <2>1. ExistsBijection(A, B)
    BY <1>10 DEF ExistsBijection
  <2> QED
    BY <1>1, <2>1, FS_Bijection
<1>12. Cardinality(A \cup B) = 2^n + 2^n
  <2>1. Cardinality(A \cap B) = 0
    BY <1>7, FS_EmptySet
  <2>2. Cardinality(A \cup B) = Cardinality(A) + Cardinality(B) - Cardinality(A \cap B)
    BY <1>1, <1>11, FS_Union
  <2> QED
    BY <1>1, <1>11, <2>1, <2>2
<1>13. Cardinality(A \cup B) <= Cardinality(C)
  BY <1>2, <1>7, FS_Subset
<1> QED
  BY <1>1, <1>2, <1>12, <1>13

(* What is used of the widths: the immediate of a shift by 32 stays what   *)
(* it is when it becomes a register's value, and no other one becomes 32.  *)
LEMMA WidthFacts ==
  /\ 2^(ImmBits - 1) \in Nat /\ 2^(ImmBits - 1) >= 128
  /\ 2^ImmBits \in Nat /\ 2^ImmBits > 0
  /\ 2^(2 * ImmBits) \in Nat /\ 2^(2 * ImmBits) >= 2 * 2^(ImmBits - 1)
<1>1. ImmBits \in Nat /\ ImmBits >= 8 /\ ImmBits - 1 \in Nat /\ 2 * ImmBits \in Nat
  BY DecodeAssumption
<1>2. 2^(ImmBits - 1) \in Nat /\ 2^ImmBits \in Nat /\ 2^(2 * ImmBits) \in Nat
  BY <1>1, SubsetCount
<1>3. 2^(ImmBits - 1) >= 128
  <2>1. 2^7 <= 2^(ImmBits - 1)
    <3>1. 7 \in Nat /\ ImmBits - 1 \in Nat /\ 7 <= ImmBits - 1
      BY <1>1
    <3> QED
      BY <3>1, PowersGrow, Zenon
  <2>2. 2^7 = 128
    OBVIOUS
  <2> QED
    BY <1>2, <2>1, <2>2
<1>4. 2 * 2^(ImmBits - 1) <= 2^ImmBits
  <2>1. (ImmBits - 1) + 1 = ImmBits
    BY <1>1
  <2>2. 2 * 2^(ImmBits - 1) <= 2^((ImmBits - 1) + 1)
    BY <1>1, PowersDouble
  <2> QED
    BY <2>1, <2>2
<1>5. 2^ImmBits <= 2^(2 * ImmBits)
  BY <1>1, PowersGrow
<1> QED
  BY <1>2, <1>3, <1>4, <1>5

-----------------------------------------------------------------------------
(***************************************************************************)
(* Decoded instructions.                                                   *)
(***************************************************************************)
Register == 0..R10
Value == [reg : Register] \cup [imm : Int]
Access == [width : {1, 2, 4, 8}, basereg : Register, offset : Int]

BinOK(ins) ==
  /\ ins \in [kind : {"bin"}, op : DOMAIN BinNibble, dst : Register, v : Value,
              is64 : BOOLEAN, lddw : BOOLEAN]
  /\ ins.lddw => ins.v \in [imm : Int]

UnOK(ins) ==
  ins \in [kind : {"un"}, op : {"NEG", "LE", "BE", "SWAP"}, width : {0, 16, 32, 64},
           dst : Register, is64 : BOOLEAN]

MapOK(ins) ==
  \/ ins \in [kind : {"map_fd"}, dst : Register, mapfd : Int]
  \/ ins \in [kind : {"map_address"}, dst : Register, mapfd : Int, offset : Int]

MemOK(ins) ==
  /\ ins \in [kind : {"mem"}, is_load : BOOLEAN, access : Access, value : Value]
  /\ ins.is_load => ins.value \in [reg : Register]

PacketOK(ins) ==
  ins \in [kind : {"packet"}, width : {1, 2, 4}, offset : Int,
           regoffset : {None} \cup [reg : Register]]

AtomicOK(ins) ==
  ins \in [kind : {"atomic"}, op : DOMAIN AtomicImm, fetch : BOOLEAN, access : Access,
           valreg : Register]

CallOK(ins) ==
  \/ ins.kind = "call" /\ ins.func \in Int
  \/ ins \in [kind : {"call_local"}, target : Int]
  \/ ins \in [kind : {"callx"}, func : Register]
  \/ ins = [kind |-> "exit"]

JmpOK(ins) ==
  ins \in [kind : {"jmp"}, target : Int,
           cond : {None} \cup [op : DOMAIN CondNibble, left : Register, is64 : BOOLEAN,
                               right : Value]]

(* What the decoder makes, and the encoder takes. *)
InsOK(ins) ==
  \/ BinOK(ins)
  \/ UnOK(ins)
  \/ MapOK(ins)
  \/ MemOK(ins)
  \/ PacketOK(ins)
  \/ AtomicOK(ins)
  \/ CallOK(ins)
  \/ JmpOK(ins)

-----------------------------------------------------------------------------
(***************************************************************************)
(* The inductive invariant.                                                *)
(***************************************************************************)

(* A slot that the decoder reads: of a program that it was given, or one   *)
(* the encoder wrote.                                                      *)
Slot ==
  {i \in [opcode : Nat, dst : Nat, src : Nat, offset : Int, imm : Int] :
     Class(i) = ALU64 => Fits(i.imm, ImmBits)}

InstsOK == insts \in Seq(Slot)

ProgOK ==
  /\ prog \in Seq({prog[k] : k \in DOMAIN prog})
  /\ \A k \in DOMAIN prog : prog[k].label \in Nat /\ InsOK(prog[k].ins)

PcOK ==
  /\ pc \in Nat
  /\ prog = <<>> => pc = 0
  /\ status = "done" => pc >= Len(insts)

(* A slot behind pc has a label, is the second of a merged pair, or the    *)
(* second of an lddw.                                                      *)
Accounted(s) ==
  \/ s \in LabelsOf(prog)
  \/ s > 0 /\ IsPair(s - 1)
  \/ insts[s + 1].opcode = 0

SlotsAccounted == \A s \in 0..(pc - 1) : Accounted(s)

(* The targets were checked when their jumps were decoded. *)
TargetsChecked ==
  \A k \in DOMAIN prog :
    prog[k].ins.kind \in {"jmp", "call_local"} => IsTarget(insts, prog[k].ins.target)

DecodeInv ==
  /\ InstsOK
  /\ ProgOK
  /\ PcOK
  /\ SlotsAreCovered
  /\ SlotsAccounted
  /\ TargetsChecked
  /\ InstructionsAreValid

(* What an action that takes `slots` slots may emit. *)
Good(ins, slots) ==
  /\ InsOK(ins)
  /\ RegistersOK(ins)
  /\ (IF IsPair(pc) THEN {"base64"} ELSE Needs(ins)) \subseteq groups
  /\ slots = Width(pc, ins)
  /\ slots = 1 \/ (slots = 2 /\ (IsPair(pc) \/ insts[pc + 2].opcode = 0))
  /\ ins.kind \in {"jmp", "call_local"} => IsTarget(insts, ins.target)

(* An instruction at the end of the program. *)
LEMMA AppendFacts ==
  ASSUME NEW s, s \in Seq({s[k] : k \in DOMAIN s}), NEW e
  PROVE  LET t == Append(s, e)
         IN  /\ t \in Seq({t[k] : k \in DOMAIN t})
             /\ Len(s) \in Nat
             /\ DOMAIN s = 1..Len(s)
             /\ Len(t) = Len(s) + 1
             /\ DOMAIN t = 1..(Len(s) + 1)
             /\ \A k \in 1..Len(s) : t[k] = s[k]
             /\ t[Len(s) + 1] = e
<1> DEFINE S == {s[k] : k \in DOMAIN s} \cup {e}
           t == Append(s, e)
           n == Len(s)
<1>1. n \in Nat /\ DOMAIN s = 1..n
  BY LenProperties
<1>2. s \in Seq(S)
  <2>1. \A k \in 1..n : s[k] \in S
    BY <1>1
  <2>2. s = [k \in 1..n |-> s[k]]
    BY <1>1
  <2> HIDE DEF S, n
  <2> QED
    BY <1>1, <2>1, <2>2, SeqDef
<1>3. e \in S
  OBVIOUS
<1> HIDE DEF S
<1>4. /\ t \in Seq(S)
      /\ Len(t) = n + 1
      /\ \A k \in 1..n : t[k] = s[k]
      /\ t[n + 1] = e
  BY <1>2, <1>3, AppendProperties
<1>5. DOMAIN t = 1..(n + 1)
  BY <1>4, LenProperties
<1> HIDE DEF t, n
<1>6. t \in Seq({t[k] : k \in DOMAIN t})
  <2>1. t = [k \in 1..(n + 1) |-> t[k]]
    BY <1>4, <1>5
  <2>2. n + 1 \in Nat
    BY <1>1
  <2> QED
    BY <1>5, <2>1, <2>2, SeqDef
<1> QED
  BY <1>1, <1>4, <1>5, <1>6 DEF t, n

(* A step that decodes nothing. *)
LEMMA SameKeepsInv ==
  ASSUME DecodeInv, UNCHANGED <<insts, groups, pc, prog>>,
         status' = "done" => status = "done" \/ pc >= Len(insts)
  PROVE  DecodeInv'
<1>1. InstsOK' /\ ProgOK' /\ PcOK'
  BY DEF DecodeInv, InstsOK, ProgOK, PcOK
<1>2. \A at : IsPair(at)' <=> IsPair(at)
  BY DEF IsPair
<1>3. SlotsAreCovered'
  BY <1>2 DEF DecodeInv, SlotsAreCovered, Width
<1>4. SlotsAccounted'
  BY <1>2 DEF DecodeInv, SlotsAccounted, Accounted, LabelsOf
<1>5. TargetsChecked' /\ InstructionsAreValid'
  BY <1>2 DEF DecodeInv, TargetsChecked, InstructionsAreValid
<1> QED
  BY <1>1, <1>3, <1>4, <1>5 DEF DecodeInv

(* An error ends the decoding, and a good instruction is appended. *)
LEMMA EmitKeepsInv ==
  ASSUME DecodeInv, Decoding, NEW ins, NEW slots, Emit(ins, slots),
         Failed(ins) \/ Good(ins, slots)
  PROVE  DecodeInv'
<1>1. CASE Failed(ins)
  <2>1. UNCHANGED <<insts, groups, pc, prog>> /\ status' # "done"
    BY <1>1 DEF Emit
  <2> QED
    BY <2>1, SameKeepsInv
<1>2. CASE ~ Failed(ins)
  <2> DEFINE e == [label |-> pc, ins |-> ins]
             n == Len(prog)
  <2>1. /\ pc' = pc + slots /\ prog' = Append(prog, e)
        /\ UNCHANGED <<insts, groups, status>>
    BY <1>2 DEF Emit
  <2>2. Good(ins, slots)
    BY <1>2
  <2>3. e.label = pc /\ e.ins = ins
    OBVIOUS
  <2>4. /\ n \in Nat /\ DOMAIN prog = 1..n
        /\ prog' \in Seq({prog'[k] : k \in DOMAIN prog'})
        /\ Len(prog') = n + 1 /\ DOMAIN prog' = 1..(n + 1)
        /\ \A k \in 1..n : prog'[k] = prog[k]
        /\ prog'[n + 1] = e
    <3>1. prog \in Seq({prog[k] : k \in DOMAIN prog})
      BY DEF DecodeInv, ProgOK
    <3> HIDE DEF e
    <3> DEFINE t == Append(prog, e)
    <3>2. /\ t \in Seq({t[k] : k \in DOMAIN t})
          /\ n \in Nat /\ DOMAIN prog = 1..n
          /\ Len(t) = n + 1 /\ DOMAIN t = 1..(n + 1)
          /\ \A k \in 1..n : t[k] = prog[k]
          /\ t[n + 1] = e
      BY <3>1, AppendFacts
    <3>3. prog' = t
      BY <2>1
    <3> HIDE DEF t, n
    <3> QED
      BY <3>2, <3>3, Zenon
  <2> HIDE DEF e, n
  <2>5. \A k \in 1..(n + 1) : k \in 1..n \/ k = n + 1
    BY <2>4
  <2>6. pc \in Nat /\ slots \in {1, 2} /\ pc' \in Nat
    BY <2>1, <2>2 DEF Good, DecodeInv, PcOK
  <2>7. InstsOK'
    BY <2>1 DEF DecodeInv, InstsOK
  <2>8. ProgOK'
    BY <2>2, <2>3, <2>4, <2>5, <2>6 DEF DecodeInv, ProgOK, Good
  <2>9. PcOK'
    <3>1. prog' # <<>>
      BY <2>4
    <3>2. status' = "decoding"
      BY <2>1 DEF Decoding
    <3> QED
      BY <2>6, <3>1, <3>2 DEF PcOK
  <2>10. \A at : IsPair(at)' <=> IsPair(at)
    BY <2>1 DEF IsPair
  <2>11. \A at, i : Width(at, i)' = Width(at, i)
    BY <2>10 DEF Width
  <2>12. SlotsAreCovered'
    <3>1. ASSUME NEW k \in 1..n
          PROVE  /\ k = 1 => prog'[k].label = 0
                 /\ prog'[k].label + Width(prog'[k].label, prog'[k].ins) =
                      IF k = n + 1 THEN pc' ELSE prog'[k + 1].label
      <4>1. /\ k = 1 => prog[k].label = 0
            /\ prog[k].label + Width(prog[k].label, prog[k].ins) =
                 IF k = n THEN pc ELSE prog[k + 1].label
        BY <2>4 DEF DecodeInv, SlotsAreCovered, n
      <4>2. prog'[k] = prog[k] /\ k # n + 1
        BY <2>4
      <4>3. CASE k = n
        BY <2>3, <2>4, <4>1, <4>2, <4>3
      <4>4. CASE k # n
        <5>1. k + 1 \in 1..n
          BY <2>4, <4>4
        <5> QED
          BY <2>4, <4>1, <4>2, <4>4, <5>1
      <4> QED
        BY <4>3, <4>4
    <3>2. /\ n + 1 = 1 => prog'[n + 1].label = 0
          /\ prog'[n + 1].label + Width(prog'[n + 1].label, prog'[n + 1].ins) = pc'
      <4>1. n + 1 = 1 => pc = 0
        <5>1. n = 0 => prog = <<>>
          BY EmptySeq DEF n, DecodeInv, ProgOK
        <5> QED
          BY <2>4, <5>1 DEF DecodeInv, PcOK
      <4> QED
        BY <2>1, <2>2, <2>3, <2>4, <4>1 DEF Good
    <3> QED
      BY <2>4, <2>5, <2>11, <3>1, <3>2 DEF SlotsAreCovered
  <2>13. SlotsAccounted'
    <3> SUFFICES ASSUME NEW s \in 0..(pc' - 1)
                 PROVE  \/ s \in LabelsOf(prog')
                        \/ s > 0 /\ IsPair(s - 1)
                        \/ insts[s + 1].opcode = 0
      BY <2>1, <2>10 DEF SlotsAccounted, Accounted
    <3>1. CASE s < pc
      <4>1. Accounted(s)
        BY <2>6, <3>1 DEF DecodeInv, SlotsAccounted
      <4>2. LabelsOf(prog) \subseteq LabelsOf(prog')
        BY <2>4 DEF LabelsOf
      <4> QED
        BY <4>1, <4>2 DEF Accounted
    <3>2. CASE s = pc
      <4>1. n + 1 \in DOMAIN prog' /\ prog'[n + 1].label = pc
        BY <2>3, <2>4
      <4> QED
        BY <3>2, <4>1 DEF LabelsOf
    <3>3. CASE s = pc + 1 /\ slots = 2
      <4>1. s - 1 = pc /\ s + 1 = pc + 2 /\ s > 0
        BY <2>6, <3>3
      <4>2. IsPair(pc) \/ insts[pc + 2].opcode = 0
        BY <2>2, <3>3 DEF Good
      <4> QED
        BY <4>1, <4>2
    <3> QED
      BY <2>1, <2>6, <3>1, <3>2, <3>3
  <2>14. TargetsChecked'
    BY <2>1, <2>2, <2>3, <2>4, <2>5 DEF DecodeInv, TargetsChecked, Good
  <2>15. InstructionsAreValid'
    <3>1. ASSUME NEW k \in 1..(n + 1)
          PROVE  /\ RegistersOK(prog'[k].ins)
                 /\ (IF IsPair(prog'[k].label) THEN {"base64"} ELSE Needs(prog'[k].ins)) \subseteq groups
      <4>1. CASE k \in 1..n
        BY <2>4, <4>1 DEF DecodeInv, InstructionsAreValid
      <4>2. CASE k = n + 1
        BY <2>2, <2>3, <2>4, <4>2 DEF Good
      <4> QED
        BY <2>5, <4>1, <4>2
    <3> QED
      BY <2>1, <2>4, <2>10, <3>1 DEF InstructionsAreValid
  <2> QED
    BY <2>7, <2>8, <2>9, <2>12, <2>13, <2>14, <2>15 DEF DecodeInv
<1> QED
  BY <1>1, <1>2

-----------------------------------------------------------------------------
(***************************************************************************)
(* What each branch of the decoder emits.                                  *)
(***************************************************************************)

(* The slots at pc. *)
LEMMA CurrentFacts ==
  ASSUME DecodeInv, Decoding
  PROVE  /\ pc \in Nat
         /\ Current \in Slot
         /\ HasNext => insts[pc + 2] \in Slot
         /\ IsPair(pc) => HasNext /\ Current.opcode = 103
<1>1. insts \in Seq(Slot) /\ pc \in Nat /\ pc < Len(insts) /\ Len(insts) \in Nat
  BY LenProperties DEF DecodeInv, InstsOK, PcOK, Decoding
<1>2. pc + 1 \in 1..Len(insts)
  BY <1>1
<1>3. HasNext => pc + 2 \in 1..Len(insts)
  BY <1>1 DEF HasNext
<1>4. IsPair(pc) => HasNext /\ Current.opcode = 103
  BY <1>1 DEF IsPair, HasNext, Current
<1> QED
  BY <1>1, <1>2, <1>3, <1>4, ElementOfSeq DEF Current

(* The fields of a slot. *)
LEMMA SlotFacts ==
  ASSUME NEW i \in Slot
  PROVE  /\ i.opcode \in Nat /\ i.dst \in Nat /\ i.src \in Nat
         /\ i.offset \in Int /\ i.imm \in Int
         /\ Class(i) = ALU64 => Fits(i.imm, ImmBits)
         /\ Class(i) \in 0..7 /\ OpField(i) \in Nat /\ Mode(i) \in Nat
         /\ opcode_to_width(i) \in {1, 2, 4, 8}
<1>1. /\ i.opcode \in Nat /\ i.dst \in Nat /\ i.src \in Nat
      /\ i.offset \in Int /\ i.imm \in Int
      /\ Class(i) = ALU64 => Fits(i.imm, ImmBits)
  BY DEF Slot
<1>2. Class(i) \in 0..7 /\ OpField(i) \in Nat /\ Mode(i) \in Nat
  BY <1>1 DEF Class, OpField, Mode
<1>3. (i.opcode \div 8) % 4 \in 0..3
  BY <1>1
<1>4. opcode_to_width(i) \in {1, 2, 4, 8}
  BY <1>3 DEF opcode_to_width
<1> QED
  BY <1>1, <1>2, <1>4

(* The properties' view of an instruction, kind by kind. *)
LEMMA BinFacts ==
  ASSUME NEW ins, ins.kind = "bin"
  PROVE  /\ Registers(ins) = {ins.dst, SrcField(ins.v)}
         /\ Writes(ins) = {ins.dst}
         /\ Needs(ins) =
              (IF ins.is64 THEN {"base64"} ELSE {"base32"}) \cup
                (IF ins.op \in {"MUL", "UDIV", "SDIV", "UMOD", "SMOD"}
                 THEN {IF ins.is64 THEN "divmul64" ELSE "divmul32"} ELSE {})
         /\ size(ins) = IF ins.lddw THEN 2 ELSE 1
<1>1. Registers(ins) = {ins.dst, SrcField(ins.v)}
  BY DEF Registers
<1>2. Writes(ins) = {ins.dst}
  BY DEF Writes
<1>3. Needs(ins) =
        (IF ins.is64 THEN {"base64"} ELSE {"base32"}) \cup
          (IF ins.op \in {"MUL", "UDIV", "SDIV", "UMOD", "SMOD"}
           THEN {IF ins.is64 THEN "divmul64" ELSE "divmul32"} ELSE {})
  BY DEF Needs
<1>4. size(ins) = IF ins.lddw THEN 2 ELSE 1
  BY DEF size
<1> QED
  BY <1>1, <1>2, <1>3, <1>4

LEMMA UnFacts ==
  ASSUME NEW ins, ins.kind = "un"
  PROVE  /\ Registers(ins) = {ins.dst} /\ Writes(ins) = {ins.dst} /\ size(ins) = 1
         /\ Needs(ins) = IF ins.is64 \/ ins.width = 64 THEN {"base64"} ELSE {"base32"}
<1>1. Registers(ins) = {ins.dst}
  BY DEF Registers
<1>2. Writes(ins) = {ins.dst} /\ size(ins) = 1
  BY DEF Writes, size
<1>3. Needs(ins) = IF ins.is64 \/ ins.width = 64 THEN {"base64"} ELSE {"base32"}
  BY DEF Needs
<1> QED
  BY <1>1, <1>2, <1>3

LEMMA MapFacts ==
  ASSUME NEW ins, ins.kind \in {"map_fd", "map_address"}
  PROVE  /\ Registers(ins) = {ins.dst} /\ Writes(ins) = {} /\ size(ins) = 2
         /\ Needs(ins) = {"base64"}
<1>1. Registers(ins) = {ins.dst}
  BY DEF Registers
<1>2. Writes(ins) = {} /\ size(ins) = 2
  BY DEF Writes, size
<1>3. Needs(ins) = {"base64"}
  BY DEF Needs
<1> QED
  BY <1>1, <1>2, <1>3

LEMMA MemFacts ==
  ASSUME NEW ins, ins.kind = "mem"
  PROVE  /\ Registers(ins) = {ins.access.basereg, SrcField(ins.value)} /\ size(ins) = 1
         /\ Writes(ins) = IF ins.is_load THEN {ins.value.reg} ELSE {}
         /\ Needs(ins) = IF ins.access.width = 8 THEN {"base64"} ELSE {"base32"}
<1>1. Registers(ins) = {ins.access.basereg, SrcField(ins.value)}
  BY DEF Registers
<1>2. size(ins) = 1 /\ Writes(ins) = IF ins.is_load THEN {ins.value.reg} ELSE {}
  BY DEF Writes, size
<1>3. Needs(ins) = IF ins.access.width = 8 THEN {"base64"} ELSE {"base32"}
  BY DEF Needs
<1> QED
  BY <1>1, <1>2, <1>3

LEMMA PacketFacts ==
  ASSUME NEW ins, ins.kind = "packet"
  PROVE  /\ Registers(ins) = (IF ins.regoffset = None THEN {} ELSE {ins.regoffset.reg})
         /\ Writes(ins) = {} /\ size(ins) = 1 /\ Needs(ins) = {"packet"}
<1>1. Registers(ins) = IF ins.regoffset = None THEN {} ELSE {ins.regoffset.reg}
  BY DEF Registers
<1>2. size(ins) = 1 /\ Writes(ins) = {}
  BY DEF Writes, size
<1>3. Needs(ins) = {"packet"}
  BY DEF Needs
<1> QED
  BY <1>1, <1>2, <1>3

LEMMA AtomicFacts ==
  ASSUME NEW ins, ins.kind = "atomic"
  PROVE  /\ Registers(ins) = {ins.access.basereg, ins.valreg}
         /\ Writes(ins) = {} /\ size(ins) = 1
         /\ Needs(ins) = {IF ins.access.width = 8 THEN "atomic64" ELSE "atomic32"}
<1>1. Registers(ins) = {ins.access.basereg, ins.valreg}
  BY DEF Registers
<1>2. size(ins) = 1 /\ Writes(ins) = {}
  BY DEF Writes, size
<1>3. Needs(ins) = {IF ins.access.width = 8 THEN "atomic64" ELSE "atomic32"}
  BY DEF Needs
<1> QED
  BY <1>1, <1>2, <1>3

LEMMA JmpFacts ==
  ASSUME NEW ins, ins.kind = "jmp"
  PROVE  /\ Registers(ins) = IF ins.cond = None THEN {}
                             ELSE {ins.cond.left, SrcField(ins.cond.right)}
         /\ Writes(ins) = {} /\ size(ins) = 1
         /\ Needs(ins) = IF ins.cond # None /\ ins.cond.is64 THEN {"base64"} ELSE {"base32"}
<1>1. Registers(ins) = IF ins.cond = None THEN {} ELSE {ins.cond.left, SrcField(ins.cond.right)}
  BY DEF Registers
<1>2. size(ins) = 1 /\ Writes(ins) = {}
  BY DEF Writes, size
<1>3. Needs(ins) = IF ins.cond # None /\ ins.cond.is64 THEN {"base64"} ELSE {"base32"}
  BY DEF Needs
<1> QED
  BY <1>1, <1>2, <1>3

LEMMA CallFacts ==
  ASSUME NEW ins, ins.kind \in {"call", "call_local", "callx", "exit"}
  PROVE  /\ Registers(ins) = (IF ins.kind = "callx" THEN {ins.func} ELSE {})
         /\ Writes(ins) = {} /\ size(ins) = 1
         /\ Needs(ins) = IF ins.kind = "callx" THEN {"callx"} ELSE {"base32"}
<1>1. Registers(ins) = IF ins.kind = "callx" THEN {ins.func} ELSE {}
  BY DEF Registers
<1>2. size(ins) = 1 /\ Writes(ins) = {}
  BY DEF Writes, size
<1>3. Needs(ins) = IF ins.kind = "callx" THEN {"callx"} ELSE {"base32"}
  BY DEF Needs
<1> QED
  BY <1>1, <1>2, <1>3

(* An instruction that takes one slot. *)
LEMMA OneSlotIsGood ==
  ASSUME NEW ins, InsOK(ins), RegistersOK(ins), Needs(ins) \subseteq groups,
         size(ins) = 1, ~ IsPair(pc),
         ins.kind \in {"jmp", "call_local"} => IsTarget(insts, ins.target)
  PROVE  Good(ins, 1)
BY DEF Good, Width

(* Errors. *)
LEMMA ErrorsFail == Failed(Invalid) /\ Failed(Thrown)
BY DEF Failed, Invalid, Thrown

(* An lddw takes two slots; the second one is not an instruction. *)
LEMMA LddwIsGood ==
  ASSUME DecodeInv, Decoding, Current.opcode = INST_OP_LDDW_IMM, HasNext,
         NEW ins, ins = makeLddw(Current, insts[pc + 2], groups)
  PROVE  Failed(ins) \/ Good(ins, 2)
<1> DEFINE i == Current
           next == insts[pc + 2]
           n == Unsigned(next.imm, ImmBits) * 2^ImmBits + Unsigned(i.imm, ImmBits)
<1>1. /\ i.opcode = 24 /\ i.dst \in Nat /\ i.src \in Nat /\ i.imm \in Int
      /\ next.imm \in Int
  BY CurrentFacts, SlotFacts DEF INST_OP_LDDW_IMM
<1>2. ~ IsPair(pc)
  BY <1>1, CurrentFacts
<1>3. n \in Int
  <2>1. Unsigned(next.imm, ImmBits) \in Nat /\ Unsigned(i.imm, ImmBits) \in Nat
    BY <1>1, WidthFacts DEF Unsigned
  <2> QED
    BY <2>1, WidthFacts
<1> HIDE DEF n
<1>4. \/ Failed(ins)
      \/ /\ "base64" \in groups /\ next.opcode = 0 /\ i.dst <= R10
         /\ \/ ins = BinIns("MOV", i.dst, Imm(n), TRUE, TRUE)
            \/ ins = [kind |-> "map_fd", dst |-> i.dst, mapfd |-> i.imm]
            \/ ins = [kind |-> "map_address", dst |-> i.dst, mapfd |-> i.imm, offset |-> next.imm]
  <2> DEFINE ok == /\ "base64" \in groups
                   /\ next.opcode = 0 /\ next.dst = 0 /\ next.src = 0 /\ next.offset = 0
                   /\ i.offset = 0 /\ i.dst <= R10
  <2>1. ~ ok => ins = Invalid
    BY DEF makeLddw
  <2>2. ok /\ i.src = 0 => ins = BinIns("MOV", i.dst, Imm(n), TRUE, TRUE)
    BY DEF makeLddw, n
  <2>3. ok /\ i.src = 1 =>
          ins = If(next.imm = 0, [kind |-> "map_fd", dst |-> i.dst, mapfd |-> i.imm])
    BY DEF makeLddw
  <2>4. ok /\ i.src = 2 =>
          ins = [kind |-> "map_address", dst |-> i.dst, mapfd |-> i.imm, offset |-> next.imm]
    BY DEF makeLddw
  <2>5. ok /\ i.src \notin {0, 1, 2} => ins = Invalid
    BY DEF makeLddw
  <2>6. Failed(Invalid)
    BY DEF Failed, Invalid
  <2> HIDE DEF i, next
  <2> QED
    BY <2>1, <2>2, <2>3, <2>4, <2>5, <2>6 DEF If
<1> HIDE DEF i, next
<1>5. ASSUME "base64" \in groups, next.opcode = 0, i.dst <= R10,
             ins = BinIns("MOV", i.dst, Imm(n), TRUE, TRUE)
      PROVE  Good(ins, 2)
  <2>1. i.dst \in Register
    BY <1>1, <1>5 DEF Register, R10
  <2>2. BinOK(ins)
    BY <1>3, <1>5, <2>1 DEF BinOK, BinIns, Imm, Value, BinNibble
  <2>3. /\ ins.kind = "bin" /\ ins.dst = i.dst /\ ins.v = Imm(n) /\ ins.is64 = TRUE
        /\ ins.lddw = TRUE /\ ins.op = "MOV"
    BY <1>5 DEF BinIns
  <2>4. SrcField(Imm(n)) = 0
    BY DEF SrcField, IsReg, Imm
  <2> QED
    <3>1. RegistersOK(ins)
      BY <2>1, <2>3, <2>4, BinFacts DEF RegistersOK, Register, R10
    <3>2. Needs(ins) = {"base64"} /\ size(ins) = 2
      BY <2>3, BinFacts
    <3> QED
      BY <1>2, <1>5, <2>2, <2>3, <3>1, <3>2 DEF Good, InsOK, Width, next
<1>6. ASSUME "base64" \in groups, next.opcode = 0, i.dst <= R10,
             \/ ins = [kind |-> "map_fd", dst |-> i.dst, mapfd |-> i.imm]
             \/ ins = [kind |-> "map_address", dst |-> i.dst, mapfd |-> i.imm, offset |-> next.imm]
      PROVE  Good(ins, 2)
  <2>1. i.dst \in Register
    BY <1>1, <1>6 DEF Register, R10
  <2>2. MapOK(ins)
    BY <1>1, <1>6, <2>1 DEF MapOK
  <2>3. ins.kind \in {"map_fd", "map_address"} /\ ins.dst = i.dst
    BY <1>6
  <2> QED
    BY <1>2, <1>6, <2>1, <2>2, <2>3, MapFacts
       DEF Good, InsOK, RegistersOK, Width, next, Register
<1> QED
  BY <1>4, <1>5, <1>6

(* Loads, stores, atomic operations and packet accesses. *)
LEMMA PacketIsGood ==
  ASSUME ~ IsPair(pc), NEW i \in Slot, i.src <= R10,
         NEW regoffset \in {None, Reg(i.src)},
         NEW ins, ins = makePacket(i, groups, regoffset)
  PROVE  Failed(ins) \/ Good(ins, 1)
<1> DEFINE width == opcode_to_width(i)
           p == [kind |-> "packet", width |-> width, offset |-> i.imm, regoffset |-> regoffset]
<1>1. \/ ins = Invalid
      \/ ins = p /\ "packet" \in groups /\ width # 8
  BY DEF makePacket, If
<1>2. ASSUME ins = p, "packet" \in groups, width # 8
      PROVE  Good(ins, 1)
  <2>1. width \in {1, 2, 4} /\ i.imm \in Int /\ i.src \in Nat
    BY <1>2, SlotFacts
  <2> HIDE DEF width
  <2>2. i.src \in Register
    BY <2>1 DEF Register, R10
  <2>3. regoffset \in {None} \cup [reg : Register]
    BY <2>2 DEF Reg
  <2>4. PacketOK(ins)
    BY <1>2, <2>1, <2>3 DEF PacketOK
  <2>5. ins.kind = "packet" /\ ins.regoffset = regoffset
    BY <1>2
  <2>6. regoffset # None => regoffset.reg \in Register
    BY <2>2 DEF Reg
  <2>7. RegistersOK(ins)
    BY <2>5, <2>6, PacketFacts DEF RegistersOK, Register
  <2> QED
    BY <1>2, <2>4, <2>5, <2>7, PacketFacts, OneSlotIsGood DEF InsOK
<1> QED
  BY <1>1, <1>2, ErrorsFail

LEMMA MemIsGood ==
  ASSUME ~ IsPair(pc), NEW i \in Slot, i.dst <= R10, i.src <= R10,
         (IF opcode_to_width(i) = 8 THEN "base64" ELSE "base32") \in groups,
         NEW ins, ins = makeMem(i)
  PROVE  Failed(ins) \/ Good(ins, 1)
<1> DEFINE width == opcode_to_width(i)
           isLoad == Class(i) = LDX
           isImm == Class(i) = ST
           access == Deref(width, IF isLoad THEN i.src ELSE i.dst, i.offset)
           value == IF isLoad THEN Reg(i.dst)
                    ELSE IF isImm THEN zero_extend(i.imm) ELSE Reg(i.src)
           m == [kind |-> "mem", is_load |-> isLoad, access |-> access, value |-> value]
<1>1. \/ ins = Invalid
      \/ ins = m /\ (isLoad => i.dst # R10)
  BY DEF makeMem, If
<1>2. ASSUME ins = m, isLoad => i.dst # R10
      PROVE  Good(ins, 1)
  <2>1. /\ width \in {1, 2, 4, 8} /\ i.imm \in Int /\ i.src \in Register /\ i.dst \in Register
        /\ i.offset \in Int
    BY SlotFacts DEF Register, R10
  <2>2. value \in Value /\ (isLoad => value = Reg(i.dst) /\ value \in [reg : Register])
    <3>1. Unsigned(i.imm, ImmBits) \in Int
      BY <2>1, WidthFacts DEF Unsigned
    <3>2. zero_extend(i.imm) \in [imm : Int]
      BY <3>1 DEF zero_extend, Imm
    <3>3. Reg(i.dst) \in [reg : Register] /\ Reg(i.src) \in [reg : Register]
      BY <2>1 DEF Reg
    <3> QED
      BY <3>2, <3>3 DEF Value
  <2>3. access \in Access /\ access.width = width /\ access.basereg \in Register
    BY <2>1 DEF Access, Deref
  <2>4. SrcField(value) \in Register
    <3>1. SrcField(Reg(i.dst)) = i.dst /\ SrcField(Reg(i.src)) = i.src
      BY DEF SrcField, IsReg, Reg
    <3>2. SrcField(zero_extend(i.imm)) = 0
      BY DEF SrcField, IsReg, zero_extend, Imm
    <3>3. 0 \in Register
      BY DEF Register, R10
    <3> QED
      BY <2>1, <3>1, <3>2, <3>3
  <2> HIDE DEF width, access, value
  <2>5. /\ ins.kind = "mem" /\ ins.access = access /\ ins.value = value
        /\ ins.is_load \in BOOLEAN /\ (ins.is_load <=> isLoad)
    <3>1. /\ ins.kind = "mem" /\ ins.access = access /\ ins.value = value
          /\ ins.is_load = isLoad
      BY <1>2
    <3>2. isLoad \in BOOLEAN
      OBVIOUS
    <3> HIDE DEF isLoad
    <3> QED
      BY <3>1, <3>2, Zenon
  <2>6. MemOK(ins)
    <3>1. ins \in [kind : {"mem"}, is_load : BOOLEAN, access : Access, value : Value]
      BY <1>2, <2>2, <2>3
    <3> QED
      BY <2>2, <2>5, <3>1 DEF MemOK
  <2>7. isLoad => value.reg = i.dst
    BY <2>2 DEF Reg
  <2>8. RegistersOK(ins)
    <3>1. Registers(ins) \subseteq Register
      BY <2>3, <2>4, <2>5, MemFacts
    <3>2. R10 \notin Writes(ins)
      <4>1. CASE isLoad
        BY <1>2, <2>5, <2>7, <4>1, MemFacts
      <4>2. CASE ~ isLoad
        BY <2>5, <4>2, MemFacts
      <4> QED
        BY <4>1, <4>2
    <3> QED
      BY <3>1, <3>2 DEF RegistersOK, Register
  <2>9. Needs(ins) \subseteq groups
    BY <2>3, <2>5, MemFacts DEF width
  <2> QED
    BY <2>5, <2>6, <2>8, <2>9, MemFacts, OneSlotIsGood DEF InsOK
<1> QED
  BY <1>1, <1>2, ErrorsFail

LEMMA AtomicIsGood ==
  ASSUME ~ IsPair(pc), NEW i \in Slot, i.dst <= R10, i.src <= R10,
         NEW ins, ins = makeAtomic(i, groups)
  PROVE  Failed(ins) \/ Good(ins, 1)
<1> DEFINE op == i.imm - (i.imm % 2)
           fetch == i.imm % 2 = 1
           width == opcode_to_width(i)
           a == [kind |-> "atomic", op |-> getAtomicOp[op], fetch |-> fetch,
                 access |-> Deref(width, i.dst, i.offset), valreg |-> i.src]
<1>1. \/ ins = Invalid
      \/ /\ ins = a /\ op \in DOMAIN getAtomicOp
         /\ (IF width = 8 THEN "atomic64" ELSE "atomic32") \in groups
  BY DEF makeAtomic, If
<1>2. ASSUME ins = a, op \in DOMAIN getAtomicOp,
             (IF width = 8 THEN "atomic64" ELSE "atomic32") \in groups
      PROVE  Good(ins, 1)
  <2>1. /\ width \in {1, 2, 4, 8} /\ i.src \in Register /\ i.dst \in Register
        /\ i.offset \in Int
    BY SlotFacts DEF Register, R10
  <2> HIDE DEF width, op
  <2>2. getAtomicOp[op] \in DOMAIN AtomicImm
    BY <1>2 DEF getAtomicOp, AtomicImm
  <2>3. /\ Deref(width, i.dst, i.offset) \in Access
        /\ Deref(width, i.dst, i.offset).width = width
        /\ Deref(width, i.dst, i.offset).basereg = i.dst
    BY <2>1 DEF Deref, Access
  <2>4. /\ ins.kind = "atomic" /\ ins.access = Deref(width, i.dst, i.offset)
        /\ ins.valreg = i.src
    BY <1>2
  <2>5. AtomicOK(ins)
    BY <1>2, <2>1, <2>2, <2>3 DEF AtomicOK
  <2>6. RegistersOK(ins)
    BY <2>1, <2>3, <2>4, AtomicFacts DEF RegistersOK, Register
  <2>7. Needs(ins) \subseteq groups
    BY <1>2, <2>3, <2>4, AtomicFacts
  <2> QED
    BY <2>4, <2>5, <2>6, <2>7, AtomicFacts, OneSlotIsGood DEF InsOK
<1> QED
  BY <1>1, <1>2, ErrorsFail

LEMMA MemOpIsGood ==
  ASSUME ~ IsPair(pc), NEW i \in Slot, NEW ins, ins = makeMemOp(i, groups)
  PROVE  Failed(ins) \/ Good(ins, 1)
<1> DEFINE ok == /\ i.dst <= R10 /\ i.src <= R10
                 /\ (IF opcode_to_width(i) = 8 THEN "base64" ELSE "base32") \in groups
<1>0. i.dst \in Nat /\ i.src \in Nat
  BY SlotFacts
<1>1. ~ ok => ins = Invalid
  BY <1>0 DEF makeMemOp, R10
<1>2. ok =>
        \/ ins = Invalid
        \/ ins = makePacket(i, groups, None)
        \/ ins = makePacket(i, groups, Reg(i.src))
        \/ ins = makeMem(i)
        \/ ins = makeAtomic(i, groups)
  <2> DEFINE m == Mode(i)
  <2>1. ASSUME ok
        PROVE  ins = CASE m = 1 -> If(i.src = 0, makePacket(i, groups, None))
                       [] m = 2 -> makePacket(i, groups, Reg(i.src))
                       [] m = 3 -> makeMem(i)
                       [] m = 6 -> makeAtomic(i, groups)
                       [] OTHER -> Invalid
    BY <1>0, <2>1 DEF makeMemOp, R10
  <2> HIDE DEF m
  <2>2. ASSUME ok, m = 1
        PROVE  ins = Invalid \/ ins = makePacket(i, groups, None)
    BY <2>1, <2>2 DEF If
  <2> QED
    BY <2>1, <2>2
<1>3. None \in {None, Reg(i.src)} /\ Reg(i.src) \in {None, Reg(i.src)}
  OBVIOUS
<1>4. CASE ~ ok
  BY <1>1, <1>4, ErrorsFail
<1>5. CASE ok
  BY <1>2, <1>3, <1>5, ErrorsFail, PacketIsGood, MemIsGood, AtomicIsGood
<1> QED
  BY <1>4, <1>5

(* Arithmetic.  A pair of shifts is looked at later. *)
AluGood(ins) ==
  /\ BinOK(ins) \/ UnOK(ins)
  /\ RegistersOK(ins)
  /\ Needs(ins) \subseteq groups
  /\ size(ins) = 1

(* The value of a source operand. *)
Operand(i) == IF SrcReg(i) THEN Reg(i.src) ELSE sign_extend(i.imm)

(* makeBin finds the operation in its table. *)
LEMMA BinShape ==
  ASSUME NEW i \in Slot, NEW ins, ins = makeBin(i, groups)
  PROVE  \/ ins = Invalid
         \/ \E op :
              /\ ins = BinIns(op, i.dst, Operand(i), Class(i) = ALU64, FALSE)
              /\ <<OpField(i), i.offset, op>> \in BinaryOps
              /\ OpField(i) \in {2, 3, 9} =>
                   (IF Class(i) = ALU64 THEN "divmul64" ELSE "divmul32") \in groups
<1> DEFINE is64 == Class(i) = ALU64
           found == {t \in BinaryOps : t[1] = OpField(i) /\ t[2] = i.offset}
           t == CHOOSE u \in found : TRUE
           op == t[3]
<1>1. \/ ins = Invalid
      \/ /\ found # {}
         /\ OpField(i) \in {2, 3, 9} => (IF is64 THEN "divmul64" ELSE "divmul32") \in groups
         /\ ins = BinIns(op, i.dst, Operand(i), is64, FALSE)
  BY DEF makeBin, Operand
<1>2. ASSUME found # {}
      PROVE  <<OpField(i), i.offset, op>> \in BinaryOps
  <2>1. t \in found
    BY <1>2
  <2> HIDE DEF t
  <2>2. t \in BinaryOps /\ t[1] = OpField(i) /\ t[2] = i.offset
    BY <2>1
  <2>3. \A u \in BinaryOps : u = <<u[1], u[2], u[3]>>
    BY DEF BinaryOps
  <2> QED
    BY <2>2, <2>3
<1> HIDE DEF found, op
<1> QED
  BY <1>1, <1>2

(* The table. *)
LEMMA BinTable ==
  ASSUME NEW n, NEW m, NEW op, <<n, m, op>> \in BinaryOps
  PROVE  /\ op \in DOMAIN BinNibble
         /\ op \in {"MUL", "UDIV", "SDIV", "UMOD", "SMOD"} => n \in {2, 3, 9}
         /\ op = "LSH" <=> n = 6
         /\ op = "RSH" <=> n = 7
         /\ op = "ARSH" <=> n = 12
<1>1. \/ <<n, m, op>> = <<0, 0, "ADD">> \/ <<n, m, op>> = <<1, 0, "SUB">>
      \/ <<n, m, op>> = <<2, 0, "MUL">> \/ <<n, m, op>> = <<3, 0, "UDIV">>
      \/ <<n, m, op>> = <<3, 1, "SDIV">> \/ <<n, m, op>> = <<4, 0, "OR">>
      \/ <<n, m, op>> = <<5, 0, "AND">> \/ <<n, m, op>> = <<6, 0, "LSH">>
      \/ <<n, m, op>> = <<7, 0, "RSH">> \/ <<n, m, op>> = <<9, 0, "UMOD">>
      \/ <<n, m, op>> = <<9, 1, "SMOD">> \/ <<n, m, op>> = <<10, 0, "XOR">>
      \/ <<n, m, op>> = <<11, 0, "MOV">> \/ <<n, m, op>> = <<11, 8, "MOVSX8">>
      \/ <<n, m, op>> = <<11, 16, "MOVSX16">> \/ <<n, m, op>> = <<11, 32, "MOVSX32">>
      \/ <<n, m, op>> = <<12, 0, "ARSH">>
  BY DEF BinaryOps
<1>2. /\ op \in {"MUL", "UDIV", "SDIV", "UMOD", "SMOD"} => n \in {2, 3, 9}
      /\ op = "LSH" <=> n = 6
      /\ op = "RSH" <=> n = 7
      /\ op = "ARSH" <=> n = 12
  BY <1>1
<1>3. op \in DOMAIN BinNibble
  BY <1>1 DEF BinNibble
<1> QED
  BY <1>2, <1>3

(* A source operand is a register that exists or a number. *)
LEMMA OperandFacts ==
  ASSUME NEW i \in Slot, i.src <= R10
  PROVE  /\ Operand(i) \in Value
         /\ SrcField(Operand(i)) \in Register
<1>1. i.src \in Register /\ i.imm \in Int
  BY SlotFacts DEF Register, R10
<1>2. Unsigned(i.imm, 2 * ImmBits) \in Int
  BY <1>1, WidthFacts DEF Unsigned
<1>3. /\ Reg(i.src) \in [reg : Register]
      /\ SrcField(Reg(i.src)) = i.src
  BY <1>1 DEF Reg, SrcField, IsReg
<1>4. /\ sign_extend(i.imm) \in [imm : Int]
      /\ SrcField(sign_extend(i.imm)) = 0
  BY <1>2 DEF sign_extend, Imm, SrcField, IsReg
<1>5. 0 \in Register
  BY DEF Register, R10
<1> QED
  BY <1>1, <1>3, <1>4, <1>5 DEF Operand, Value

LEMMA BinIsGood ==
  ASSUME NEW i \in Slot, i.dst < R10, i.src <= R10,
         (IF Class(i) = ALU64 THEN "base64" ELSE "base32") \in groups,
         NEW ins, ins = makeBin(i, groups)
  PROVE  Failed(ins) \/ AluGood(ins)
<1> DEFINE is64 == Class(i) = ALU64
<1>1. CASE ins = Invalid
  BY <1>1, ErrorsFail
<1>2. ASSUME NEW op,
             ins = BinIns(op, i.dst, Operand(i), is64, FALSE),
             <<OpField(i), i.offset, op>> \in BinaryOps,
             OpField(i) \in {2, 3, 9} => (IF is64 THEN "divmul64" ELSE "divmul32") \in groups
      PROVE  AluGood(ins)
  <2>1. op \in DOMAIN BinNibble
    BY <1>2, BinTable
  <2>2. i.dst \in Register /\ i.dst # R10
    BY SlotFacts DEF Register, R10
  <2>3. Operand(i) \in Value /\ SrcField(Operand(i)) \in Register
    BY OperandFacts
  <2>4. is64 \in BOOLEAN
    OBVIOUS
  <2>5. /\ ins.kind = "bin" /\ ins.op = op /\ ins.dst = i.dst /\ ins.v = Operand(i)
        /\ ins.is64 = is64 /\ ins.lddw = FALSE
    BY <1>2 DEF BinIns
  <2>6. ins.is64 <=> is64
    <3> HIDE DEF is64
    <3> QED
      BY <2>4, <2>5, Zenon
  <2>7. ~ ins.lddw
    BY <2>5, Zenon
  <2>8. BinOK(ins)
    <3>1. ins \in [kind : {"bin"}, op : DOMAIN BinNibble, dst : Register, v : Value,
                   is64 : BOOLEAN, lddw : BOOLEAN]
      <4> HIDE DEF is64
      <4> QED
        BY <1>2, <2>1, <2>2, <2>3, <2>4 DEF BinIns
    <3> QED
      BY <2>7, <3>1 DEF BinOK
  <2>9. RegistersOK(ins)
    BY <2>2, <2>3, <2>5, BinFacts DEF RegistersOK, Register
  <2>10. Needs(ins) \subseteq groups
    <3>1. Needs(ins) =
            (IF is64 THEN {"base64"} ELSE {"base32"}) \cup
              (IF op \in {"MUL", "UDIV", "SDIV", "UMOD", "SMOD"}
               THEN {IF is64 THEN "divmul64" ELSE "divmul32"} ELSE {})
      BY <2>5, <2>6, BinFacts
    <3>2. op \in {"MUL", "UDIV", "SDIV", "UMOD", "SMOD"} =>
            (IF is64 THEN "divmul64" ELSE "divmul32") \in groups
      BY <1>2, BinTable
    <3> QED
      BY <3>1, <3>2
  <2>11. size(ins) = 1
    BY <2>5, <2>7, BinFacts
  <2> QED
    BY <2>8, <2>9, <2>10, <2>11 DEF AluGood
<1> QED
  BY <1>1, <1>2, BinShape

LEMMA UnIsGood ==
  ASSUME NEW i \in Slot, i.dst < R10,
         (IF Class(i) = ALU64 THEN "base64" ELSE "base32") \in groups,
         NEW ins, ins = makeUn(i, groups)
  PROVE  ins = Invalid \/ (AluGood(ins) /\ ins.kind = "un")
<1> DEFINE is64 == Class(i) = ALU64
           neg == OpField(i) = 8
           op == IF neg THEN "NEG" ELSE IF is64 THEN "SWAP" ELSE IF SrcReg(i) THEN "BE" ELSE "LE"
           width == IF neg THEN 0 ELSE i.imm
           u == [kind |-> "un", op |-> op, width |-> width, dst |-> i.dst, is64 |-> is64]
<1>1. \/ ins = Invalid
      \/ /\ ins = u
         /\ neg \/ (i.imm \in {16, 32, 64} /\ (IF i.imm = 64 THEN "base64" ELSE "base32") \in groups)
  BY DEF makeUn, If
<1>2. ASSUME ins = u,
             neg \/ (i.imm \in {16, 32, 64} /\ (IF i.imm = 64 THEN "base64" ELSE "base32") \in groups)
      PROVE  AluGood(ins) /\ ins.kind = "un"
  <2>1. i.dst \in Register /\ i.dst # R10
    BY SlotFacts DEF Register, R10
  <2>2. op \in {"NEG", "LE", "BE", "SWAP"} /\ width \in {0, 16, 32, 64} /\ is64 \in BOOLEAN
    BY <1>2
  <2>3. (IF is64 \/ width = 64 THEN "base64" ELSE "base32") \in groups
    BY <1>2
  <2> HIDE DEF is64, op, width
  <2>4. /\ ins.kind = "un" /\ ins.dst = i.dst /\ ins.width = width /\ ins.is64 = is64
    BY <1>2
  <2>5. ins.is64 <=> is64
    BY <2>2, <2>4, Zenon
  <2>6. UnOK(ins)
    BY <1>2, <2>1, <2>2 DEF UnOK
  <2>7. RegistersOK(ins)
    BY <2>1, <2>4, UnFacts DEF RegistersOK, Register
  <2>8. Needs(ins) \subseteq groups
    BY <2>3, <2>4, <2>5, UnFacts
  <2> QED
    BY <2>4, <2>6, <2>7, <2>8, UnFacts DEF AluGood
<1> QED
  BY <1>1, <1>2

LEMMA AluOpIsGood ==
  ASSUME NEW i \in Slot, NEW ins, ins = makeAluOp(i, groups)
  PROVE  Failed(ins) \/ AluGood(ins)
<1> DEFINE ok == i.dst < R10 /\ i.src <= R10 /\ (IF Class(i) = ALU64 THEN "base64" ELSE "base32") \in groups
<1>1. \/ ins = Invalid
      \/ ok /\ (ins = makeUn(i, groups) \/ ins = makeBin(i, groups))
  BY DEF makeAluOp
<1> QED
  BY <1>1, ErrorsFail, UnIsGood, BinIsGood

(* The opcodes of the shifts of a register of 64 bits by an immediate. *)
ShiftCode == [LSH |-> 103, RSH |-> 119, ARSH |-> 199]

(* A slot decodes to a shift by 32 exactly when it says so: no other       *)
(* immediate becomes 32 when it is extended.                               *)
LEMMA ShiftFacts ==
  ASSUME NEW i \in Slot, NEW ins, ins = makeAluOp(i, groups), ~ Failed(ins),
         NEW op \in {"LSH", "RSH", "ARSH"}
  PROVE  /\ i.opcode = ShiftCode[op] /\ i.imm = 32 => ins = shift32(i.dst, op)
         /\ \A d : ins = shift32(d, op) =>
                     /\ i.opcode = ShiftCode[op] /\ i.imm = 32 /\ d = i.dst
                     /\ d \in Register /\ d # R10 /\ "base64" \in groups
<1> DEFINE is64 == Class(i) = ALU64
           nibble == IF op = "LSH" THEN 6 ELSE IF op = "RSH" THEN 7 ELSE 12
<1>0. /\ i.opcode \in Nat /\ i.dst \in Nat /\ i.imm \in Int
      /\ is64 => Fits(i.imm, ImmBits)
  BY SlotFacts
<1>1. ins # Invalid
  BY ErrorsFail
<1>2. /\ i.dst < R10 /\ i.src <= R10
      /\ (IF is64 THEN "base64" ELSE "base32") \in groups
      /\ ins = IF OpField(i) \in {8, 13} THEN makeUn(i, groups) ELSE makeBin(i, groups)
  BY <1>1 DEF makeAluOp
<1>3. \A d : LET s == shift32(d, op)
             IN  s.kind = "bin" /\ s.op = op /\ s.dst = d /\ s.v = Imm(32) /\ s.is64 = TRUE
  BY DEF shift32, BinIns
<1>4. ShiftCode[op] = 16 * nibble + 7
  BY DEF ShiftCode
<1>5. i.opcode = 16 * nibble + 7 <=> OpField(i) = nibble /\ ~ SrcReg(i) /\ is64
  BY <1>0 DEF OpField, SrcReg, Class, ALU64
<1>6. CASE OpField(i) \in {8, 13}
  <2>1. ins.kind = "un"
    BY <1>1, <1>2, <1>6, UnIsGood
  <2>2. ~ (i.opcode = ShiftCode[op])
    BY <1>4, <1>5, <1>6
  <2> QED
    BY <1>3, <2>1, <2>2
<1>7. CASE OpField(i) \notin {8, 13}
  <2>1. PICK o : /\ ins = BinIns(o, i.dst, Operand(i), is64, FALSE)
                 /\ <<OpField(i), i.offset, o>> \in BinaryOps
    BY <1>1, <1>2, <1>7, BinShape
  <2>2. (o = op) <=> (OpField(i) = nibble)
    BY <2>1, BinTable
  <2>3. Operand(i) = Imm(32) <=> ~ SrcReg(i) /\ Unsigned(i.imm, 2 * ImmBits) = 32
    <3>1. Reg(i.src) # Imm(32)
      BY DEF Reg, Imm
    <3>2. sign_extend(i.imm) = Imm(32) <=> Unsigned(i.imm, 2 * ImmBits) = 32
      BY DEF sign_extend, Imm
    <3> QED
      BY <3>1, <3>2 DEF Operand
  <2>4. is64 => (Unsigned(i.imm, 2 * ImmBits) = 32 <=> i.imm = 32)
    <3> DEFINE h == 2^(ImmBits - 1)
               q == 2^(2 * ImmBits)
    <3>1. h \in Nat /\ h >= 128 /\ q \in Nat /\ q >= 2 * h
      BY WidthFacts
    <3>2. is64 => i.imm \in -h..(h - 1)
      BY <1>0 DEF Fits
    <3>3. Unsigned(i.imm, 2 * ImmBits) = i.imm % q
      BY DEF Unsigned
    <3> HIDE DEF h, q, is64
    <3>4. ASSUME is64, i.imm % q = 32
          PROVE  i.imm = 32
      BY <1>0, <3>1, <3>2, <3>4
    <3>5. 32 % q = 32
      BY <3>1
    <3> QED
      BY <3>3, <3>4, <3>5
  <2>5. ASSUME i.opcode = ShiftCode[op], i.imm = 32
        PROVE  ins = shift32(i.dst, op)
    <3>1. OpField(i) = nibble /\ ~ SrcReg(i) /\ is64
      BY <1>4, <1>5, <2>5
    <3>2. o = op /\ Operand(i) = Imm(32)
      BY <2>2, <2>3, <2>4, <2>5, <3>1
    <3>3. is64 = TRUE
      BY <3>1
    <3> HIDE DEF is64
    <3> QED
      BY <2>1, <3>2, <3>3 DEF shift32
  <2>6. ASSUME NEW d, ins = shift32(d, op)
        PROVE  /\ i.opcode = ShiftCode[op] /\ i.imm = 32 /\ d = i.dst
               /\ d \in Register /\ d # R10 /\ "base64" \in groups
    <3>1. /\ ins.op = o /\ ins.dst = i.dst /\ ins.v = Operand(i) /\ ins.is64 = is64
      BY <2>1 DEF BinIns
    <3>2. ins.op = op /\ ins.dst = d /\ ins.v = Imm(32) /\ ins.is64 = TRUE
      BY <1>3, <2>6
    <3>3. is64
      <4>1. is64 = TRUE
        BY <3>1, <3>2
      <4> QED
        BY <4>1
    <3>4. OpField(i) = nibble /\ ~ SrcReg(i) /\ i.imm = 32
      BY <2>2, <2>3, <2>4, <3>1, <3>2, <3>3
    <3>5. i.opcode = ShiftCode[op]
      BY <1>4, <1>5, <3>3, <3>4
    <3>6. d \in Register /\ d # R10
      BY <1>0, <1>2, <3>1, <3>2 DEF Register, R10
    <3>7. "base64" \in groups
      BY <1>2, <3>3
    <3> QED
      BY <3>1, <3>2, <3>4, <3>5, <3>6, <3>7
  <2> QED
    BY <2>5, <2>6
<1> QED
  BY <1>6, <1>7

(* The move that two shifts by 32 are merged into. *)
MergedMoves(d) == {BinIns("MOV", d, Reg(d), FALSE, FALSE), BinIns("MOVSX32", d, Reg(d), TRUE, FALSE)}

(* A merged pair of shifts takes both slots, and nothing else does. *)
LEMMA AluSteps ==
  ASSUME DecodeInv, DecodeAlu
  PROVE  \/ \E ins : Failed(ins) /\ Emit(ins, 1)
         \/ ~ IsPair(pc) /\ Emit(makeAluOp(Current, groups), 1)
         \/ /\ IsPair(pc) /\ Current.dst \in Register /\ Current.dst # R10 /\ "base64" \in groups
            /\ \E m \in MergedMoves(Current.dst) : Emit(m, 2)
<1> DEFINE i == Current
           j == insts[pc + 2]
           ins == makeAluOp(i, groups)
           next == makeAluOp(j, groups)
           looks == HasNext /\ ~ Failed(ins) /\ ins = shift32(i.dst, "LSH") /\ Class(j) = ALU64
           m == Merged(ins, next)
<1>0. Decoding
  BY DEF DecodeAlu
<1>1. /\ pc \in Nat /\ i \in Slot /\ (HasNext => j \in Slot)
      /\ IsPair(pc) => HasNext /\ i.opcode = 103
  BY <1>0, CurrentFacts
<1>2. IF ~ looks THEN Emit(ins, 1)
      ELSE IF Failed(next) THEN Emit(next, 1)
      ELSE IF m # None THEN Emit(m, 2)
      ELSE Emit(ins, 1)
  BY DEF DecodeAlu
<1>3. IsPair(pc) <=>
        /\ HasNext
        /\ i.opcode = ShiftCode["LSH"] /\ j.opcode \in {ShiftCode["RSH"], ShiftCode["ARSH"]}
        /\ i.dst = j.dst /\ i.imm = 32 /\ j.imm = 32
  <2>1. HasNext <=> pc + 2 <= Len(insts)
    <3>1. Len(insts) \in Nat
      BY LenProperties DEF DecodeInv, InstsOK
    <3> QED
      BY <1>1, <3>1 DEF HasNext
  <2> QED
    BY <2>1 DEF IsPair, ShiftCode, Current
<1> HIDE DEF ins, next, i, j
<1>7. CASE ~ looks
  <2>1. ASSUME IsPair(pc), ~ Failed(ins)
        PROVE  FALSE
    <3>1. ins = shift32(i.dst, "LSH")
      BY <1>1, <1>3, <2>1, ShiftFacts DEF ins
    <3>2. Class(j) = ALU64
      BY <1>3, <2>1 DEF Class, ALU64, ShiftCode
    <3> QED
      BY <1>3, <1>7, <2>1, <3>1, <3>2
  <2> QED
    BY <1>2, <1>7, <2>1 DEF ins, i
<1>8. CASE looks /\ Failed(next)
  BY <1>2, <1>8
<1>9. CASE looks /\ ~ Failed(next)
  <2>1. /\ i.opcode = ShiftCode["LSH"] /\ i.imm = 32
        /\ i.dst \in Register /\ i.dst # R10 /\ "base64" \in groups
    BY <1>1, <1>9, ShiftFacts DEF ins
  <2>2. ins.kind = "bin" /\ ins.dst = i.dst /\ ins = shift32(ins.dst, "LSH")
    BY <1>9 DEF shift32, BinIns
  <2> DEFINE mov == BinIns("MOV", i.dst, Reg(i.dst), FALSE, FALSE)
             movsx == BinIns("MOVSX32", i.dst, Reg(i.dst), TRUE, FALSE)
  <2>3. mov # None /\ movsx # None
    BY DEF BinIns, None
  <2>4. m = IF next = shift32(i.dst, "RSH") THEN mov
            ELSE IF next = shift32(i.dst, "ARSH") THEN movsx ELSE None
    BY <2>2 DEF Merged
  <2>5. IsPair(pc) <=> next = shift32(i.dst, "RSH") \/ next = shift32(i.dst, "ARSH")
    <3>1. j \in Slot
      BY <1>1, <1>9
    <3>2. next = shift32(i.dst, "RSH") =>
            j.opcode = ShiftCode["RSH"] /\ j.imm = 32 /\ j.dst = i.dst
      BY <1>9, <3>1, ShiftFacts DEF next
    <3>3. next = shift32(i.dst, "ARSH") =>
            j.opcode = ShiftCode["ARSH"] /\ j.imm = 32 /\ j.dst = i.dst
      BY <1>9, <3>1, ShiftFacts DEF next
    <3>4. j.opcode = ShiftCode["RSH"] /\ j.imm = 32 => next = shift32(j.dst, "RSH")
      BY <1>9, <3>1, ShiftFacts DEF next
    <3>5. j.opcode = ShiftCode["ARSH"] /\ j.imm = 32 => next = shift32(j.dst, "ARSH")
      BY <1>9, <3>1, ShiftFacts DEF next
    <3> QED
      BY <1>3, <1>9, <2>1, <3>2, <3>3, <3>4, <3>5
  <2>6. CASE m = None
    <3>1. ~ IsPair(pc)
      BY <2>3, <2>4, <2>5, <2>6
    <3> QED
      BY <1>2, <1>9, <2>6, <3>1 DEF ins, i
  <2>7. CASE m # None
    <3>1. IsPair(pc) /\ m \in {mov, movsx}
      BY <2>4, <2>5, <2>7
    <3>2. {mov, movsx} = MergedMoves(Current.dst)
      BY DEF MergedMoves, i
    <3>3. Emit(m, 2)
      BY <1>2, <1>9, <2>7
    <3>4. m \in MergedMoves(Current.dst)
      BY <3>1, <3>2
    <3> HIDE DEF m
    <3> QED
      BY <2>1, <3>1, <3>3, <3>4 DEF i
  <2> QED
    BY <2>6, <2>7
<1> QED
  BY <1>7, <1>8, <1>9

LEMMA DecodeAluKeepsInv ==
  ASSUME DecodeInv, DecodeAlu
  PROVE  DecodeInv'
<1> DEFINE i == Current
           ins == makeAluOp(i, groups)
<1>0. Decoding
  BY DEF DecodeAlu
<1>1. i \in Slot
  BY <1>0, CurrentFacts
<1>4. Failed(ins) \/ AluGood(ins)
  BY <1>1, AluOpIsGood
<1> HIDE DEF ins, i
<1>5. ASSUME ~ IsPair(pc), Emit(ins, 1)
      PROVE  DecodeInv'
  <2>1. AluGood(ins) => ins.kind \in {"bin", "un"}
    BY DEF AluGood, BinOK, UnOK
  <2>2. AluGood(ins) => Good(ins, 1)
    BY <1>5, <2>1, OneSlotIsGood DEF AluGood, InsOK
  <2> QED
    BY <1>0, <1>4, <1>5, <2>2, EmitKeepsInv
<1>6. ASSUME IsPair(pc), i.dst \in Register, i.dst # R10, "base64" \in groups,
             NEW m \in MergedMoves(i.dst), Emit(m, 2)
      PROVE  DecodeInv'
  <2>1. ASSUME NEW op \in {"MOV", "MOVSX32"}, NEW is64 \in BOOLEAN,
               m = BinIns(op, i.dst, Reg(i.dst), is64, FALSE)
        PROVE  Good(m, 2)
    <3>1. /\ m.kind = "bin" /\ m.dst = i.dst /\ m.v = Reg(i.dst) /\ m.lddw = FALSE
      BY <2>1 DEF BinIns
    <3>2. ~ m.lddw
      BY <3>1, Zenon
    <3>3. op \in DOMAIN BinNibble /\ Reg(i.dst) \in Value
      BY <1>6 DEF BinNibble, Reg, Value
    <3>4. m \in [kind : {"bin"}, op : DOMAIN BinNibble, dst : Register, v : Value,
                 is64 : BOOLEAN, lddw : BOOLEAN]
      BY <1>6, <2>1, <3>3 DEF BinIns
    <3>5. BinOK(m)
      BY <3>2, <3>4 DEF BinOK
    <3>6. SrcField(Reg(i.dst)) = i.dst
      BY DEF SrcField, IsReg, Reg
    <3>7. RegistersOK(m)
      BY <1>6, <3>1, <3>6, BinFacts DEF RegistersOK, Register
    <3> QED
      BY <1>6, <3>1, <3>5, <3>7 DEF Good, InsOK, Width
  <2>2. Good(m, 2)
    BY <1>6, <2>1 DEF MergedMoves
  <2> QED
    BY <1>0, <1>6, <2>2, EmitKeepsInv
<1>7. ASSUME NEW e, Failed(e), Emit(e, 1)
      PROVE  DecodeInv'
  BY <1>0, <1>7, EmitKeepsInv
<1> QED
  BY <1>5, <1>6, <1>7, AluSteps DEF ins, i

(* Calls, exits and jumps. *)
LEMMA CallShape ==
  ASSUME NEW func
  PROVE  \/ makeCall(func) = Thrown
         \/ makeCall(func).kind = "call" /\ makeCall(func).func = func
BY DEF makeCall

LEMMA ExitIsGood ==
  ASSUME ~ IsPair(pc), NEW i \in Slot, NEW ins, ins = makeExit(i, groups)
  PROVE  Failed(ins) \/ Good(ins, 1)
<1>1. \/ ins = Invalid
      \/ ins = [kind |-> "exit"] /\ "base32" \in groups
  BY DEF makeExit, If
<1>2. ASSUME ins = [kind |-> "exit"], "base32" \in groups
      PROVE  Good(ins, 1)
  <2>1. ins.kind = "exit" /\ CallOK(ins)
    BY <1>2 DEF CallOK
  <2> QED
    BY <1>2, <2>1, CallFacts, OneSlotIsGood DEF InsOK, RegistersOK
<1> QED
  BY <1>1, <1>2, ErrorsFail

LEMMA AnyCallIsGood ==
  ASSUME ~ IsPair(pc), pc \in Nat, NEW i \in Slot,
         NEW ins, ins = makeAnyCall(insts, pc, i, groups)
  PROVE  Failed(ins) \/ Good(ins, 1)
<1> DEFINE target == pc + 1 + i.imm
           func == IF i.imm # 0 THEN i.imm ELSE i.dst
<1>0. i.dst \in Nat /\ i.src \in Nat /\ i.imm \in Int /\ target \in Int
  BY SlotFacts
<1>1. \/ ins = Invalid
      \/ /\ "base32" \in groups
         /\ \/ ins = [kind |-> "call_local", target |-> target] /\ IsTarget(insts, target)
            \/ SrcReg(i) /\ "callx" \in groups /\ ins = makeCallx(i)
            \/ ins = makeCall(i.imm)
  BY DEF makeAnyCall, If
<1> HIDE DEF target
<1>2. ASSUME "base32" \in groups, IsTarget(insts, target),
             ins = [kind |-> "call_local", target |-> target]
      PROVE  Good(ins, 1)
  <2>1. ins.kind = "call_local" /\ ins.target = target /\ CallOK(ins)
    BY <1>0, <1>2 DEF CallOK
  <2> QED
    BY <1>2, <2>1, CallFacts, OneSlotIsGood DEF InsOK, RegistersOK
<1>3. ASSUME "callx" \in groups, ins = makeCallx(i)
      PROVE  Failed(ins) \/ Good(ins, 1)
  <2>1. \/ ins = Invalid
        \/ /\ ins = [kind |-> "callx", func |-> func]
           /\ i.dst <= R10 /\ (i.imm # 0 => i.imm \in 0..R10)
    BY <1>3 DEF makeCallx, If
  <2>2. ASSUME ins = [kind |-> "callx", func |-> func],
               i.dst <= R10, i.imm # 0 => i.imm \in 0..R10
        PROVE  Good(ins, 1)
    <3>1. func \in Register
      BY <1>0, <2>2 DEF Register, R10
    <3> HIDE DEF func
    <3>2. ins.kind = "callx" /\ ins.func = func /\ CallOK(ins)
      BY <2>2, <3>1 DEF CallOK
    <3> QED
      BY <1>3, <3>1, <3>2, CallFacts, OneSlotIsGood DEF InsOK, RegistersOK, Register
  <2> QED
    BY <2>1, <2>2, ErrorsFail
<1>4. ASSUME "base32" \in groups, ins = makeCall(i.imm)
      PROVE  Failed(ins) \/ Good(ins, 1)
  <2>1. ASSUME ins.kind = "call", ins.func = i.imm
        PROVE  Good(ins, 1)
    <3>1. CallOK(ins)
      BY <1>0, <2>1 DEF CallOK
    <3> QED
      BY <1>4, <2>1, <3>1, CallFacts, OneSlotIsGood DEF InsOK, RegistersOK
  <2> QED
    BY <1>4, <2>1, CallShape, ErrorsFail
<1> QED
  BY <1>1, <1>2, <1>3, <1>4, ErrorsFail

LEMMA GotoIsGood ==
  ASSUME ~ IsPair(pc), pc \in Nat, NEW i \in Slot,
         NEW ins, ins = makeGoto(insts, pc, i, groups)
  PROVE  Failed(ins) \/ Good(ins, 1)
<1> DEFINE target == pc + 1 + (IF i.opcode = INST_OP_JA32 THEN i.imm ELSE i.offset)
<1>1. \/ ins = Invalid
      \/ /\ ins = [kind |-> "jmp", cond |-> None, target |-> target]
         /\ "base32" \in groups /\ IsTarget(insts, target)
  BY DEF makeGoto, If
<1>2. target \in Int
  BY SlotFacts
<1> HIDE DEF target
<1>3. ASSUME ins = [kind |-> "jmp", cond |-> None, target |-> target],
             "base32" \in groups, IsTarget(insts, target)
      PROVE  Good(ins, 1)
  <2>1. ins.kind = "jmp" /\ ins.cond = None /\ ins.target = target
    BY <1>3
  <2>2. JmpOK(ins)
    BY <1>2, <1>3 DEF JmpOK
  <2> QED
    BY <1>3, <2>1, <2>2, JmpFacts, OneSlotIsGood DEF InsOK, RegistersOK
<1> QED
  BY <1>1, <1>3, ErrorsFail

LEMMA BranchIsGood ==
  ASSUME ~ IsPair(pc), pc \in Nat, NEW i \in Slot,
         NEW ins, ins = makeBranch(insts, pc, i, groups)
  PROVE  Failed(ins) \/ Good(ins, 1)
<1> DEFINE target == pc + 1 + i.offset
           is64 == Class(i) = JMP
           op == getJmpOp[OpField(i)]
           c == [op |-> op, left |-> i.dst, is64 |-> is64, right |-> Operand(i)]
<1>1. \/ ins = Invalid
      \/ /\ ins = [kind |-> "jmp", target |-> target, cond |-> c]
         /\ (IF is64 THEN "base64" ELSE "base32") \in groups
         /\ OpField(i) \in DOMAIN getJmpOp
         /\ IsTarget(insts, target)
         /\ i.dst <= R10 /\ i.src <= R10
  <2>1. i.src = 0 => i.src <= R10
    BY DEF R10
  <2> QED
    BY <2>1 DEF makeBranch, Operand
<1>2. target \in Int
  BY SlotFacts
<1> HIDE DEF target
<1>3. ASSUME ins = [kind |-> "jmp", target |-> target, cond |-> c],
             (IF is64 THEN "base64" ELSE "base32") \in groups,
             OpField(i) \in DOMAIN getJmpOp, IsTarget(insts, target),
             i.dst <= R10, i.src <= R10
      PROVE  Good(ins, 1)
  <2>1. op \in DOMAIN CondNibble
    <3> DEFINE n == OpField(i)
               ops == <<"EQ", "GT", "GE", "SET", "NE", "SGT", "SGE", "", "", "LT", "LE", "SLT", "SLE">>
    <3>1. n \in {1, 2, 3, 4, 5, 6, 7, 10, 11, 12, 13} /\ op = ops[n]
      BY <1>3 DEF getJmpOp
    <3>2. /\ ops[1] = "EQ" /\ ops[2] = "GT" /\ ops[3] = "GE" /\ ops[4] = "SET" /\ ops[5] = "NE"
          /\ ops[6] = "SGT" /\ ops[7] = "SGE" /\ ops[10] = "LT" /\ ops[11] = "LE"
          /\ ops[12] = "SLT" /\ ops[13] = "SLE"
      OBVIOUS
    <3> HIDE DEF n, op, ops
    <3>3. op \in {"EQ", "GT", "GE", "SET", "NE", "SGT", "SGE", "LT", "LE", "SLT", "SLE"}
      BY <3>1, <3>2
    <3> QED
      BY <3>3 DEF CondNibble
  <2>2. i.dst \in Register
    BY <1>3, SlotFacts DEF Register, R10
  <2>3. Operand(i) \in Value /\ SrcField(Operand(i)) \in Register
    BY <1>3, OperandFacts
  <2>4. is64 \in BOOLEAN
    OBVIOUS
  <2> HIDE DEF is64, op
  <2>5. c \in [op : DOMAIN CondNibble, left : Register, is64 : BOOLEAN, right : Value]
    BY <2>1, <2>2, <2>3, <2>4
  <2>6. c # None
    BY DEF None
  <2>7. c.left = i.dst /\ c.right = Operand(i) /\ c.is64 = is64
    OBVIOUS
  <2>8. c.is64 <=> is64
    BY <2>4, <2>7, Zenon
  <2> HIDE DEF c
  <2>9. ins.kind = "jmp" /\ ins.cond = c /\ ins.target = target
    BY <1>3
  <2>10. JmpOK(ins)
    BY <1>2, <1>3, <2>5 DEF JmpOK
  <2>11. RegistersOK(ins)
    BY <2>2, <2>3, <2>6, <2>7, <2>9, JmpFacts DEF RegistersOK, Register
  <2>12. Needs(ins) \subseteq groups
    BY <1>3, <2>6, <2>8, <2>9, JmpFacts
  <2> QED
    BY <1>3, <2>9, <2>10, <2>11, <2>12, JmpFacts, OneSlotIsGood DEF InsOK
<1> QED
  BY <1>1, <1>3, ErrorsFail

LEMMA JmpIsGood ==
  ASSUME ~ IsPair(pc), pc \in Nat, NEW i \in Slot,
         NEW ins, ins = makeJmp(insts, pc, i, groups)
  PROVE  Failed(ins) \/ Good(ins, 1)
<1>1. \/ ins = makeAnyCall(insts, pc, i, groups)
      \/ ins = makeExit(i, groups)
      \/ ins = makeGoto(insts, pc, i, groups)
      \/ ins = makeBranch(insts, pc, i, groups)
  <2> DEFINE n == OpField(i)
  <2>1. ins = CASE n = 8 -> makeAnyCall(insts, pc, i, groups)
                [] n = 9 -> makeExit(i, groups)
                [] n = 0 -> makeGoto(insts, pc, i, groups)
                [] OTHER -> makeBranch(insts, pc, i, groups)
    BY DEF makeJmp
  <2> HIDE DEF n
  <2> QED
    BY <2>1
<1> QED
  BY <1>1, AnyCallIsGood, ExitIsGood, GotoIsGood, BranchIsGood

-----------------------------------------------------------------------------
(***************************************************************************)
(* The other steps of the decoder.                                         *)
(***************************************************************************)
LEMMA DecodeLddwKeepsInv ==
  ASSUME DecodeInv, DecodeLddw
  PROVE  DecodeInv'
<1> DEFINE ins == IF HasNext THEN makeLddw(Current, insts[pc + 2], groups) ELSE Invalid
<1>1. Decoding /\ Current.opcode = INST_OP_LDDW_IMM /\ Emit(ins, 2)
  BY DEF DecodeLddw
<1>2. Failed(ins) \/ Good(ins, 2)
  BY <1>1, LddwIsGood, ErrorsFail
<1> HIDE DEF ins
<1> QED
  BY <1>1, <1>2, EmitKeepsInv

(* Only a slot of class ALU64 starts a pair. *)
LEMMA PairsAreShifts ==
  ASSUME DecodeInv, Decoding, Class(Current) # ALU64
  PROVE  ~ IsPair(pc)
BY CurrentFacts DEF Class, ALU64

LEMMA DecodeMemKeepsInv ==
  ASSUME DecodeInv, DecodeMem
  PROVE  DecodeInv'
<1> DEFINE ins == makeMemOp(Current, groups)
<1>1. Decoding /\ Class(Current) # ALU64 /\ Emit(ins, 1)
  BY DEF DecodeMem, LD, LDX, ST, STX, ALU64
<1>2. Failed(ins) \/ Good(ins, 1)
  BY <1>1, PairsAreShifts, CurrentFacts, MemOpIsGood
<1> HIDE DEF ins
<1> QED
  BY <1>1, <1>2, EmitKeepsInv

LEMMA DecodeJmpKeepsInv ==
  ASSUME DecodeInv, DecodeJmp
  PROVE  DecodeInv'
<1> DEFINE ins == makeJmp(insts, pc, Current, groups)
<1>1. Decoding /\ Class(Current) # ALU64 /\ Emit(ins, 1)
  BY DEF DecodeJmp, JMP, JMP32, ALU64
<1>2. Failed(ins) \/ Good(ins, 1)
  BY <1>1, PairsAreShifts, CurrentFacts, JmpIsGood
<1> HIDE DEF ins
<1> QED
  BY <1>1, <1>2, EmitKeepsInv

LEMMA FinishKeepsInv ==
  ASSUME DecodeInv, Finish
  PROVE  DecodeInv'
BY SameKeepsInv DEF Finish

-----------------------------------------------------------------------------
(***************************************************************************)
(* What the encoder writes is read again.                                  *)
(***************************************************************************)
LEMMA RawIsASlot ==
  ASSUME NEW opcode \in Nat, NEW dst \in Nat, NEW src \in Nat, NEW offset \in Int,
         NEW imm \in Int, opcode % 8 # 7 \/ Fits(imm, ImmBits)
  PROVE  Raw(opcode, dst, src, offset, imm) \in Slot
BY DEF Raw, Slot, Class, ALU64

(* The encoding of an instruction that takes one slot. *)
LEMMA OneSlotIsEncoded ==
  ASSUME NEW r \in Slot
  PROVE  <<r>> \in Seq(Slot)
OBVIOUS

(* Small numbers fit. *)
LEMMA SmallFits ==
  ASSUME NEW n \in 0..64
  PROVE  Fits(n, ImmBits)
<1> DEFINE h == 2^(ImmBits - 1)
<1>1. h \in Nat /\ h >= 128
  BY WidthFacts
<1>2. Fits(n, ImmBits) <=> n \in -h..(h - 1)
  BY DEF Fits
<1> HIDE DEF h
<1> QED
  BY <1>1, <1>2

(* The fields that a value becomes. *)
LEMMA ValueFields ==
  ASSUME NEW v \in Value
  PROVE  /\ SrcBit(v) \in {0, 8} /\ SrcField(v) \in Nat /\ ImmField(v) \in Int
         /\ Narrows(v) => Fits(ImmField(v), ImmBits)
<1>1. CASE v \in [reg : Register]
  <2>1. IsReg(v) /\ v.reg \in Nat
    BY <1>1 DEF IsReg, Register, R10
  <2>2. Fits(0, ImmBits)
    BY SmallFits
  <2> QED
    BY <2>1, <2>2 DEF SrcBit, SrcField, ImmField
<1>2. CASE v \in [imm : Int]
  <2>1. ~ IsReg(v) /\ v.imm \in Int
    BY <1>2 DEF IsReg
  <2> QED
    BY <2>1 DEF SrcBit, SrcField, ImmField, Narrows
<1> QED
  BY <1>1, <1>2 DEF Value

LEMMA LddwIsTwoSlots ==
  ASSUME NEW dst \in Register, NEW type \in {0, 1, 2}, NEW imm \in Int, NEW next_imm \in Int
  PROVE  Lddw(dst, type, imm, next_imm) \in Seq(Slot)
<1> DEFINE a == Raw(INST_OP_LDDW_IMM, dst, type, 0, imm)
           b == Raw(0, 0, 0, 0, next_imm)
<1>1. dst \in Nat
  BY DEF Register, R10
<1>2. INST_OP_LDDW_IMM \in Nat /\ INST_OP_LDDW_IMM % 8 # 7 /\ 0 % 8 # 7
  BY DEF INST_OP_LDDW_IMM
<1>3. 0 \in Nat /\ 0 \in Int /\ type \in Nat
  OBVIOUS
<1>4. a \in Slot
  BY <1>1, <1>2, <1>3, RawIsASlot, Zenon
<1>5. b \in Slot
  BY <1>2, <1>3, RawIsASlot, Zenon
<1>6. Lddw(dst, type, imm, next_imm) = <<a, b>>
  BY DEF Lddw
<1> HIDE DEF a, b
<1> QED
  BY <1>4, <1>5, <1>6

LEMMA BinIsEncoded ==
  ASSUME NEW b, BinOK(b), ~ b.lddw => Narrows(b.v)
  PROVE  marshalBin(b) \in Seq(Slot)
<1>1. /\ b.op \in DOMAIN BinNibble /\ b.dst \in Register /\ b.dst \in Nat /\ b.v \in Value
      /\ b.lddw => b.v \in [imm : Int]
  BY DEF BinOK, Register, R10
<1>2. CASE b.lddw
  <2> DEFINE q == 2^ImmBits
             h == 2^(ImmBits - 1)
  <2>1. b.v.imm \in Int
    BY <1>1, <1>2
  <2>2. q \in Nat /\ q > 0 /\ h \in Nat
    BY WidthFacts
  <2>3. \A n \in Int : Signed(n) = IF n >= h THEN n - q ELSE n
    BY DEF Signed
  <2> DEFINE lo == Signed(b.v.imm % q)
             hi == Signed(b.v.imm \div q)
  <2>4. marshalBin(b) = Lddw(b.dst, 0, lo, hi)
    BY <1>2 DEF marshalBin
  <2> HIDE DEF q, h
  <2>5. b.v.imm % q \in Int /\ b.v.imm \div q \in Int
    BY <2>1, <2>2
  <2>6. lo \in Int /\ hi \in Int
    BY <2>2, <2>3, <2>5
  <2> QED
    BY <1>1, <2>4, <2>6, LddwIsTwoSlots
<1>3. CASE ~ b.lddw
  <2> DEFINE opcode == (IF b.is64 THEN ALU64 ELSE ALU) + 16 * BinNibble[b.op] + SrcBit(b.v)
  <2>1. BinNibble[b.op] \in Nat
    BY <1>1 DEF BinNibble
  <2>2. SrcBit(b.v) \in Nat /\ SrcField(b.v) \in Nat /\ ImmField(b.v) \in Int /\ Fits(ImmField(b.v), ImmBits)
    BY <1>1, <1>3, ValueFields
  <2>3. opcode \in Nat
    BY <2>1, <2>2 DEF ALU64, ALU
  <2>4. BinOffset(b.op) \in Int
    BY DEF BinOffset
  <2>5. marshalBin(b) = <<Raw(opcode, b.dst, SrcField(b.v), BinOffset(b.op), ImmField(b.v))>>
    BY <1>3 DEF marshalBin
  <2>6. Raw(opcode, b.dst, SrcField(b.v), BinOffset(b.op), ImmField(b.v)) \in Slot
    <3> HIDE DEF opcode
    <3> QED
      BY <1>1, <2>2, <2>3, <2>4, RawIsASlot, Zenon
  <2> QED
    BY <2>5, <2>6, OneSlotIsEncoded, Zenon
<1> QED
  BY <1>2, <1>3

LEMMA UnIsEncoded ==
  ASSUME NEW b, UnOK(b)
  PROVE  marshalUn(b) \in Seq(Slot)
<1>1. b.dst \in Nat /\ b.width \in 0..64 /\ b.op \in {"NEG", "LE", "BE", "SWAP"}
  BY DEF UnOK, Register, R10
<1>2. Fits(b.width, ImmBits) /\ Fits(0, ImmBits)
  BY <1>1, SmallFits
<1> DEFINE neg == (IF b.is64 THEN ALU64 ELSE ALU) + 128
<1>3. neg \in Nat /\ ALU + 208 \in Nat /\ ALU + 8 + 208 \in Nat /\ ALU64 + 208 \in Nat
  BY DEF ALU, ALU64
<1>4. \/ marshalUn(b) = <<Raw(neg, b.dst, 0, 0, 0)>>
      \/ marshalUn(b) = <<Raw(ALU + 208, b.dst, 0, 0, b.width)>>
      \/ marshalUn(b) = <<Raw(ALU + 8 + 208, b.dst, 0, 0, b.width)>>
      \/ marshalUn(b) = <<Raw(ALU64 + 208, b.dst, 0, 0, b.width)>>
  <2>1. b.op = "NEG" => marshalUn(b) = <<Raw(neg, b.dst, 0, 0, 0)>>
    BY DEF marshalUn
  <2>2. b.op = "LE" => marshalUn(b) = <<Raw(ALU + 208, b.dst, 0, 0, b.width)>>
    BY DEF marshalUn
  <2>3. b.op = "BE" => marshalUn(b) = <<Raw(ALU + 8 + 208, b.dst, 0, 0, b.width)>>
    BY DEF marshalUn
  <2>4. b.op = "SWAP" => marshalUn(b) = <<Raw(ALU64 + 208, b.dst, 0, 0, b.width)>>
    BY DEF marshalUn
  <2> QED
    BY <1>1, <2>1, <2>2, <2>3, <2>4
<1>5. 0 \in Nat /\ 0 \in Int /\ b.width \in Int
  BY <1>1
<1> HIDE DEF neg
<1>6. \A opcode \in Nat : Raw(opcode, b.dst, 0, 0, 0) \in Slot
  BY <1>1, <1>2, <1>5, RawIsASlot, Zenon
<1>7. \A opcode \in Nat : Raw(opcode, b.dst, 0, 0, b.width) \in Slot
  BY <1>1, <1>2, <1>5, RawIsASlot, Zenon
<1>8. <<Raw(neg, b.dst, 0, 0, 0)>> \in Seq(Slot)
  BY <1>3, <1>6, OneSlotIsEncoded, Zenon
<1>9. \A opcode \in Nat : <<Raw(opcode, b.dst, 0, 0, b.width)>> \in Seq(Slot)
  BY <1>7, OneSlotIsEncoded, Zenon
<1> QED
  BY <1>3, <1>4, <1>8, <1>9, Zenon

(* Offsets to a label. *)
LEMMA OffsetFacts ==
  ASSUME NEW target \in Int, NEW at \in Int
  PROVE  label_to_offset16(target, at) \in Int /\ label_to_offset32(target, at) \in Int
BY DEF label_to_offset16, label_to_offset32

LEMMA JmpIsEncoded ==
  ASSUME NEW b, JmpOK(b), NEW at \in Int
  PROVE  marshalJmp(b, at) \in Seq(Slot)
<1> DEFINE o16 == label_to_offset16(b.target, at)
           o32 == label_to_offset32(b.target, at)
           c == b.cond
<1>1. o16 \in Int /\ o32 \in Int
  BY OffsetFacts DEF JmpOK
<1>2. c # None => c.op \in DOMAIN CondNibble /\ c.left \in Nat /\ c.right \in Value
  BY DEF JmpOK, Register, R10
<1> DEFINE opcode == JMP + 16 * CondNibble[c.op] + SrcBit(c.right)
<1>3. \/ c # None /\ marshalJmp(b, at) = <<Raw(opcode, c.left, SrcField(c.right), o16, ImmField(c.right))>>
      \/ marshalJmp(b, at) = <<Raw(INST_OP_JA32, 0, 0, 0, o32)>>
      \/ marshalJmp(b, at) = <<Raw(INST_OP_JA16, 0, 0, o16, 0)>>
  BY DEF marshalJmp
<1>4. c # None => opcode \in Nat /\ opcode % 8 # 7
  <2> SUFFICES ASSUME c # None PROVE opcode \in Nat /\ opcode % 8 # 7
    OBVIOUS
  <2> DEFINE n == CondNibble[c.op]
             s == SrcBit(c.right)
  <2>1. n \in Nat
    BY <1>2 DEF CondNibble
  <2>2. s \in {0, 8}
    BY <1>2, ValueFields
  <2>3. opcode = 5 + 16 * n + s
    BY DEF JMP
  <2> HIDE DEF n, s
  <2> QED
    BY <2>1, <2>2, <2>3
<1>5. /\ INST_OP_JA32 \in Nat /\ INST_OP_JA32 % 8 # 7
      /\ INST_OP_JA16 \in Nat /\ INST_OP_JA16 % 8 # 7
  BY DEF INST_OP_JA32, INST_OP_JA16
<1>6. c # None => SrcField(c.right) \in Nat /\ ImmField(c.right) \in Int
  BY <1>2, ValueFields
<1>7. 0 \in Nat /\ 0 \in Int
  OBVIOUS
<1> HIDE DEF o16, o32, c, opcode
<1>8. c # None => Raw(opcode, c.left, SrcField(c.right), o16, ImmField(c.right)) \in Slot
  BY <1>1, <1>2, <1>4, <1>6, RawIsASlot, Zenon
<1>9. Raw(INST_OP_JA32, 0, 0, 0, o32) \in Slot /\ Raw(INST_OP_JA16, 0, 0, o16, 0) \in Slot
  BY <1>1, <1>5, <1>7, RawIsASlot, Zenon
<1> QED
  BY <1>3, <1>8, <1>9, OneSlotIsEncoded, Zenon

(* The bits of a width. *)
LEMMA WidthBits ==
  ASSUME NEW width \in {1, 2, 4, 8}
  PROVE  width_to_opcode(width) \in {0, 8, 16, 24}
<1>1. width = 1 => width_to_opcode(width) = 16
  BY DEF width_to_opcode
<1>2. width = 2 => width_to_opcode(width) = 8
  BY DEF width_to_opcode
<1>3. width = 4 => width_to_opcode(width) = 0
  BY DEF width_to_opcode
<1>4. width = 8 => width_to_opcode(width) = 24
  BY DEF width_to_opcode
<1> QED
  BY <1>1, <1>2, <1>3, <1>4

LEMMA MemIsEncoded ==
  ASSUME NEW b, MemOK(b)
  PROVE  marshalMem(b) \in Seq(Slot)
<1> DEFINE w == width_to_opcode(b.access.width)
           load == 96 + w + LDX
           store == 96 + w + ST + (IF IsReg(b.value) THEN 1 ELSE 0)
<1>1. /\ b.access \in Access /\ b.value \in Value
      /\ b.is_load => b.value \in [reg : Register]
  BY DEF MemOK
<1>2. b.access.width \in {1, 2, 4, 8} /\ b.access.basereg \in Nat /\ b.access.offset \in Int
  BY <1>1 DEF Access, Register, R10
<1>3. b.is_load => b.value.reg \in Nat
  BY <1>1 DEF Register, R10
<1>4. SrcField(b.value) \in Nat /\ ImmField(b.value) \in Int
  BY <1>1, ValueFields
<1>5. w \in {0, 8, 16, 24}
  BY <1>2, WidthBits
<1>6. /\ b.is_load =>
           marshalMem(b) = <<Raw(load, b.value.reg, b.access.basereg, b.access.offset, 0)>>
      /\ ~ b.is_load =>
           marshalMem(b) = <<Raw(store, b.access.basereg, SrcField(b.value), b.access.offset,
                                 ImmField(b.value))>>
  BY DEF marshalMem
<1> HIDE DEF w
<1>7. load \in Nat /\ load % 8 # 7 /\ store \in Nat /\ store % 8 # 7
  BY <1>5 DEF LDX, ST
<1>8. 0 \in Nat /\ 0 \in Int
  OBVIOUS
<1> HIDE DEF load, store
<1>9. b.is_load => Raw(load, b.value.reg, b.access.basereg, b.access.offset, 0) \in Slot
  BY <1>2, <1>3, <1>7, <1>8, RawIsASlot, Zenon
<1>10. Raw(store, b.access.basereg, SrcField(b.value), b.access.offset, ImmField(b.value)) \in Slot
  BY <1>2, <1>4, <1>7, RawIsASlot, Zenon
<1> QED
  BY <1>6, <1>9, <1>10, OneSlotIsEncoded, Zenon

LEMMA PacketIsEncoded ==
  ASSUME NEW b, PacketOK(b)
  PROVE  marshalPacket(b) \in Seq(Slot)
<1> DEFINE w == width_to_opcode(b.width)
<1>1. b.width \in {1, 2, 4, 8} /\ b.offset \in Int /\ b.regoffset \in {None} \cup [reg : Register]
  BY DEF PacketOK
<1>2. b.regoffset # None => b.regoffset.reg \in Nat
  BY <1>1 DEF Register, R10
<1>3. w \in {0, 8, 16, 24}
  BY <1>1, WidthBits
<1>4. \/ /\ b.regoffset # None
         /\ marshalPacket(b) = <<Raw(64 + w, 0, b.regoffset.reg, 0, b.offset)>>
      \/ marshalPacket(b) = <<Raw(32 + w, 0, 0, 0, b.offset)>>
  BY DEF marshalPacket
<1> HIDE DEF w
<1>5. 64 + w \in Nat /\ (64 + w) % 8 # 7 /\ 32 + w \in Nat /\ (32 + w) % 8 # 7
  BY <1>3
<1>6. 0 \in Nat /\ 0 \in Int
  OBVIOUS
<1>7. b.regoffset # None => Raw(64 + w, 0, b.regoffset.reg, 0, b.offset) \in Slot
  BY <1>1, <1>2, <1>5, <1>6, RawIsASlot, Zenon
<1>8. Raw(32 + w, 0, 0, 0, b.offset) \in Slot
  BY <1>1, <1>5, <1>6, RawIsASlot, Zenon
<1> QED
  BY <1>4, <1>7, <1>8, OneSlotIsEncoded, Zenon

LEMMA AtomicIsEncoded ==
  ASSUME NEW b, AtomicOK(b), NEW at
  PROVE  marshal(b, at) \in Seq(Slot)
<1> DEFINE w == width_to_opcode(b.access.width)
           opcode == STX + 192 + w
           imm == AtomicImm[b.op] + (IF b.fetch THEN 1 ELSE 0)
<1>1. /\ b.access \in Access /\ b.valreg \in Nat /\ b.op \in DOMAIN AtomicImm
      /\ b.kind = "atomic"
  BY DEF AtomicOK, Register, R10
<1>2. b.access.width \in {1, 2, 4, 8} /\ b.access.basereg \in Nat /\ b.access.offset \in Int
  BY <1>1 DEF Access, Register, R10
<1>3. w \in {0, 8, 16, 24}
  BY <1>2, WidthBits
<1>4. marshal(b, at) = <<Raw(opcode, b.access.basereg, b.valreg, b.access.offset, imm)>>
  BY <1>1 DEF marshal
<1>5. AtomicImm[b.op] \in Int
  BY <1>1 DEF AtomicImm
<1>6. imm \in Int
  BY <1>5
<1> HIDE DEF w
<1>7. opcode \in Nat /\ opcode % 8 # 7
  BY <1>3 DEF STX
<1> HIDE DEF opcode, imm
<1>8. Raw(opcode, b.access.basereg, b.valreg, b.access.offset, imm) \in Slot
  BY <1>1, <1>2, <1>6, <1>7, RawIsASlot, Zenon
<1> QED
  BY <1>4, <1>8, OneSlotIsEncoded, Zenon

LEMMA MapIsEncoded ==
  ASSUME NEW b, MapOK(b), NEW at
  PROVE  marshal(b, at) \in Seq(Slot)
<1>1. b.dst \in Register /\ b.mapfd \in Int /\ b.kind \in {"map_fd", "map_address"}
  BY DEF MapOK
<1>2. b.kind = "map_address" => b.offset \in Int
  BY DEF MapOK
<1>3. b.kind = "map_fd" => marshal(b, at) = Lddw(b.dst, 1, b.mapfd, 0)
  BY DEF marshal
<1>4. b.kind = "map_address" => marshal(b, at) = Lddw(b.dst, 2, b.mapfd, b.offset)
  BY DEF marshal
<1> QED
  BY <1>1, <1>2, <1>3, <1>4, LddwIsTwoSlots

LEMMA CallIsEncoded ==
  ASSUME NEW b, CallOK(b), NEW at \in Int
  PROVE  marshal(b, at) \in Seq(Slot)
<1> DEFINE o32 == label_to_offset32(b.target, at)
<1>0. /\ INST_OP_CALL \in Nat /\ INST_OP_CALL % 8 # 7
      /\ INST_OP_CALLX \in Nat /\ INST_OP_CALLX % 8 # 7
      /\ INST_OP_EXIT \in Nat /\ INST_OP_EXIT % 8 # 7
      /\ 0 \in Nat /\ 0 \in Int /\ 1 \in Nat
  BY DEF INST_OP_CALL, INST_OP_CALLX, INST_OP_EXIT
<1>1. CASE b.kind = "call" /\ b.func \in Int
  <2>1. marshal(b, at) = <<Raw(INST_OP_CALL, 0, 0, 0, b.func)>>
    BY <1>1 DEF marshal
  <2>2. Raw(INST_OP_CALL, 0, 0, 0, b.func) \in Slot
    BY <1>0, <1>1, RawIsASlot, Zenon
  <2> QED
    BY <2>1, <2>2, OneSlotIsEncoded, Zenon
<1>2. CASE b \in [kind : {"call_local"}, target : Int]
  <2>1. b.kind = "call_local" /\ b.target \in Int
    BY <1>2
  <2>2. marshal(b, at) = <<Raw(INST_OP_CALL, 0, 1, 0, o32)>>
    BY <2>1 DEF marshal
  <2>3. o32 \in Int
    BY <2>1, OffsetFacts
  <2> HIDE DEF o32
  <2>4. Raw(INST_OP_CALL, 0, 1, 0, o32) \in Slot
    BY <1>0, <2>3, RawIsASlot, Zenon
  <2> QED
    BY <2>2, <2>4, OneSlotIsEncoded, Zenon
<1>3. CASE b \in [kind : {"callx"}, func : Register]
  <2>1. b.kind = "callx" /\ b.func \in Nat
    BY <1>3 DEF Register, R10
  <2>2. marshal(b, at) = <<Raw(INST_OP_CALLX, b.func, 0, 0, 0)>>
    BY <2>1 DEF marshal
  <2>3. Raw(INST_OP_CALLX, b.func, 0, 0, 0) \in Slot
    BY <1>0, <2>1, RawIsASlot, Zenon
  <2> QED
    BY <2>2, <2>3, OneSlotIsEncoded, Zenon
<1>4. CASE b = [kind |-> "exit"]
  <2>1. b.kind = "exit"
    BY <1>4
  <2>2. marshal(b, at) = <<Raw(INST_OP_EXIT, 0, 0, 0, 0)>>
    BY <2>1 DEF marshal
  <2>3. Raw(INST_OP_EXIT, 0, 0, 0, 0) \in Slot
    BY <1>0, RawIsASlot, Zenon
  <2> QED
    BY <2>2, <2>3, OneSlotIsEncoded, Zenon
<1> QED
  BY <1>1, <1>2, <1>3, <1>4 DEF CallOK

(* The encoding of an instruction, its jump moved. *)
LEMMA InsIsEncoded ==
  ASSUME NEW ins, InsOK(ins), NEW at \in Int,
         ins.kind = "bin" /\ ~ ins.lddw => Narrows(ins.v)
  PROVE  marshal(ins, at) \in Seq(Slot)
<1>1. CASE BinOK(ins)
  <2>1. ins.kind = "bin"
    BY <1>1 DEF BinOK
  <2>2. marshal(ins, at) = marshalBin(ins)
    BY <2>1 DEF marshal
  <2> QED
    BY <1>1, <2>1, <2>2, BinIsEncoded
<1>2. CASE UnOK(ins)
  <2>1. ins.kind = "un"
    BY <1>2 DEF UnOK
  <2>2. marshal(ins, at) = marshalUn(ins)
    BY <2>1 DEF marshal
  <2> QED
    BY <1>2, <2>2, UnIsEncoded
<1>3. CASE MemOK(ins)
  <2>1. ins.kind = "mem"
    BY <1>3 DEF MemOK
  <2>2. marshal(ins, at) = marshalMem(ins)
    BY <2>1 DEF marshal
  <2> QED
    BY <1>3, <2>2, MemIsEncoded
<1>4. CASE PacketOK(ins)
  <2>1. ins.kind = "packet"
    BY <1>4 DEF PacketOK
  <2>2. marshal(ins, at) = marshalPacket(ins)
    BY <2>1 DEF marshal
  <2> QED
    BY <1>4, <2>2, PacketIsEncoded
<1>5. CASE JmpOK(ins)
  <2>1. ins.kind = "jmp"
    BY <1>5 DEF JmpOK
  <2>2. marshal(ins, at) = marshalJmp(ins, at)
    BY <2>1 DEF marshal
  <2> QED
    BY <1>5, <2>2, JmpIsEncoded
<1> QED
  BY <1>1, <1>2, <1>3, <1>4, <1>5, MapIsEncoded, AtomicIsEncoded, CallIsEncoded DEF InsOK

(* The slots of the encoded program are numbers. *)
LEMMA SlotOfIsANumber ==
  ASSUME NEW p, NEW k \in Nat
  PROVE  SlotOf(p, k) \in Int
<1> DEFINE S == {j \in 1..(k - 1) : size(p[j].ins) = 2}
<1>1. 1 \in Int /\ k - 1 \in Int
  OBVIOUS
<1>2. IsFiniteSet(1..(k - 1))
  BY <1>1, FS_Interval
<1>3. IsFiniteSet(S)
  BY <1>2, FS_Subset
<1>4. Cardinality(S) \in Nat
  BY <1>3, FS_CardinalityType
<1>5. SlotOf(p, k) = (k - 1) + Cardinality(S)
  BY DEF SlotOf
<1> HIDE DEF S
<1> QED
  BY <1>4, <1>5

(* A moved jump is a jump. *)
LEMMA MovedIsOK ==
  ASSUME NEW p, DOMAIN p \subseteq Nat, NEW ins, InsOK(ins), Encodes(p, ins)
  PROVE  /\ InsOK(Moved(p, ins))
         /\ Moved(p, ins).kind = "bin" /\ ~ Moved(p, ins).lddw => Narrows(Moved(p, ins).v)
<1>1. CASE ins.kind # "jmp"
  BY <1>1 DEF Moved, Encodes
<1>2. CASE ins.kind = "jmp"
  <2> DEFINE k == CHOOSE k \in DOMAIN p : p[k].label = ins.target
             t == get_labels(p)[ins.target]
  <2>1. ins.target \in LabelsOf(p)
    BY <1>2 DEF Encodes
  <2>2. k \in DOMAIN p
    BY <2>1 DEF LabelsOf
  <2>3. t = SlotOf(p, k)
    BY <2>1 DEF get_labels
  <2>4. t \in Int
    <3> HIDE DEF k, t
    <3> QED
      BY <2>2, <2>3, SlotOfIsANumber
  <2>5. Moved(p, ins) = [ins EXCEPT !.target = t]
    BY <1>2 DEF Moved
  <2>6. JmpOK(ins)
    BY <1>2 DEF InsOK, BinOK, UnOK, MapOK, MemOK, PacketOK, AtomicOK, CallOK
  <2> HIDE DEF t
  <2>7. JmpOK(Moved(p, ins))
    BY <2>4, <2>5, <2>6 DEF JmpOK
  <2>8. Moved(p, ins).kind = "jmp"
    BY <2>7 DEF JmpOK
  <2> QED
    BY <2>7, <2>8 DEF InsOK
<1> QED
  BY <1>1, <1>2

(* The encoder leaves nothing behind of the program it encodes but first. *)
LEMMA MarshalKeepsInv ==
  ASSUME DecodeInv, Marshal
  PROVE  DecodeInv'
<1>1. CASE \A k \in DOMAIN prog : Encodes(prog, prog[k].ins)
  <2> DEFINE e == [k \in DOMAIN prog |-> marshal(Moved(prog, prog[k].ins), SlotOf(prog, k))]
             n == Len(prog)
  <2>1. insts' = FlattenSeq(e) /\ prog' = <<>> /\ pc' = 0 /\ status' = "decoding"
    BY <1>1 DEF Marshal, MarshalProgram
  <2>2. /\ n \in Nat /\ DOMAIN prog = 1..n
        /\ \A k \in DOMAIN prog : InsOK(prog[k].ins)
    BY LenProperties DEF DecodeInv, ProgOK
  <2>3. ASSUME NEW k \in DOMAIN prog
        PROVE  marshal(Moved(prog, prog[k].ins), SlotOf(prog, k)) \in Seq(Slot)
    <3> DEFINE ins == prog[k].ins
    <3>1. DOMAIN prog \subseteq Nat /\ k \in Nat
      BY <2>2
    <3>2. SlotOf(prog, k) \in Int
      BY <3>1, SlotOfIsANumber
    <3>3. InsOK(ins) /\ Encodes(prog, ins)
      BY <1>1, <2>2
    <3> HIDE DEF ins
    <3>4. /\ InsOK(Moved(prog, ins))
          /\ Moved(prog, ins).kind = "bin" /\ ~ Moved(prog, ins).lddw => Narrows(Moved(prog, ins).v)
      BY <3>1, <3>3, MovedIsOK
    <3> QED
      BY <3>2, <3>4, InsIsEncoded DEF ins
  <2>4. e \in Seq(Seq(Slot))
    <3>1. \A k \in 1..n : e[k] \in Seq(Slot)
      BY <2>2, <2>3
    <3>2. e = [k \in 1..n |-> e[k]]
      BY <2>2
    <3> HIDE DEF e, n
    <3> QED
      BY <2>2, <3>1, <3>2, SeqDef
  <2>5. insts' \in Seq(Slot)
    <3> HIDE DEF e
    <3> QED
      BY <2>1, <2>4, FlattenFacts
  <2>6. InstsOK'
    BY <2>5 DEF InstsOK
  <2>7. ProgOK' /\ PcOK'
    BY <2>1 DEF ProgOK, PcOK
  <2>8. SlotsAreCovered' /\ TargetsChecked' /\ InstructionsAreValid'
    BY <2>1 DEF SlotsAreCovered, TargetsChecked, InstructionsAreValid
  <2>9. SlotsAccounted'
    BY <2>1 DEF SlotsAccounted
  <2> QED
    BY <2>6, <2>7, <2>8, <2>9 DEF DecodeInv
<1>2. CASE ~ \A k \in DOMAIN prog : Encodes(prog, prog[k].ins)
  <2>1. UNCHANGED <<insts, groups, pc, prog>> /\ status' = "thrown"
    BY <1>2 DEF Marshal
  <2> QED
    BY <2>1, SameKeepsInv
<1> QED
  BY <1>1, <1>2

-----------------------------------------------------------------------------
(***************************************************************************)
(* The theorems.                                                           *)
(***************************************************************************)

(* A raw instruction is a slot. *)
LEMMA InitHasInv == Init => DecodeInv
<1> SUFFICES ASSUME Init PROVE DecodeInv
  OBVIOUS
<1>1. EbpfInst \subseteq Slot
  <2> SUFFICES ASSUME NEW i \in EbpfInst PROVE i \in Slot
    OBVIOUS
  <2> DEFINE o == 2^(OffsetBits - 1)
             h == 2^(ImmBits - 1)
  <2>1. h \in Nat
    BY WidthFacts
  <2>2. o \in Nat
    <3>1. OffsetBits - 1 \in Nat
      BY DecodeAssumption
    <3> QED
      BY <3>1, SubsetCount
  <2>3. i \in [opcode : 0..255, dst : 0..15, src : 0..15, offset : -o..(o - 1), imm : -h..(h - 1)]
    BY DEF EbpfInst
  <2>4. Fits(i.imm, ImmBits) <=> i.imm \in -h..(h - 1)
    BY DEF Fits
  <2> HIDE DEF o, h
  <2>5. i \in [opcode : Nat, dst : Nat, src : Nat, offset : Int, imm : Int]
    BY <2>1, <2>2, <2>3
  <2>6. Fits(i.imm, ImmBits)
    BY <2>3, <2>4
  <2> QED
    BY <2>5, <2>6 DEF Slot
<1>2. insts \in Seq(EbpfInst)
  BY DecodeAssumption DEF Init
<1>3. InstsOK
  <2>1. insts \in Seq(Slot)
    BY <1>1, <1>2, SeqMonotonic
  <2> QED
    BY <2>1 DEF InstsOK
<1>4. prog = <<>> /\ pc = 0 /\ status = "decoding"
  BY DEF Init
<1>5. ProgOK /\ PcOK /\ SlotsAccounted
  BY <1>4 DEF ProgOK, PcOK, SlotsAccounted
<1>6. SlotsAreCovered /\ TargetsChecked /\ InstructionsAreValid
  BY <1>4 DEF SlotsAreCovered, TargetsChecked, InstructionsAreValid
<1> QED
  BY <1>3, <1>5, <1>6 DEF DecodeInv

(* The invariant holds in every state, of the first decoding and of the    *)
(* one of the encoded program.                                             *)
THEOREM DecodeInvariance == Spec => []DecodeInv
<1>1. DecodeInv /\ [Next]_vars => DecodeInv'
  <2> SUFFICES ASSUME DecodeInv, [Next]_vars PROVE DecodeInv'
    OBVIOUS
  <2>1. CASE UNCHANGED vars
    BY <2>1, SameKeepsInv DEF vars
  <2> QED
    BY <2>1, DecodeLddwKeepsInv, DecodeMemKeepsInv, DecodeAluKeepsInv, DecodeJmpKeepsInv,
       FinishKeepsInv, MarshalKeepsInv DEF Next
<1> QED
  BY <1>1, InitHasInv, PTL DEF Spec

(* Unmarshaller::unmarshal: every slot of the program is decoded exactly   *)
(* once, those of an lddw and of a merged pair of shifts included, for     *)
(* every program and whatever is rejected on the way.                      *)
THEOREM SlotsStayCovered == Spec => []SlotsAreCovered
<1>1. DecodeInv => SlotsAreCovered
  BY DEF DecodeInv
<1> QED
  BY <1>1, DecodeInvariance, PTL

(* Every instruction that the decoder passes on names registers that       *)
(* exist, does not write r10 by arithmetic or a load, and belongs to       *)
(* groups that the platform supports.                                      *)
THEOREM InstructionsStayValid == Spec => []InstructionsAreValid
<1>1. DecodeInv => InstructionsAreValid
  BY DEF DecodeInv
<1> QED
  BY <1>1, DecodeInvariance, PTL

(* No jump or local call of an accepted program leaves it or lands on the  *)
(* second slot of an lddw: the check of getJumpTarget against the raw      *)
(* program is enough, because a slot that was decoded or skipped is a      *)
(* label, the second shift of a merged pair, or has the opcode 0 that the  *)
(* check refuses.                                                          *)
THEOREM TargetsStayCode == Spec => []TargetsAreCode
<1>1. DecodeInv => TargetsAreCode
  <2> SUFFICES ASSUME DecodeInv, status = "done", NEW t \in Targets
               PROVE  t \in LabelsOf(prog) \/ (t > 0 /\ IsPair(t - 1))
    BY DEF TargetsAreCode
  <2>1. IsTarget(insts, t)
    BY DEF DecodeInv, TargetsChecked, Targets, Decoded
  <2>2. pc \in Nat /\ pc >= Len(insts) /\ Len(insts) \in Nat
    BY LenProperties DEF DecodeInv, PcOK, InstsOK
  <2>3. t \in 0..(pc - 1) /\ insts[t + 1].opcode # 0
    BY <2>1, <2>2 DEF IsTarget
  <2>4. Accounted(t)
    BY <2>3 DEF DecodeInv, SlotsAccounted
  <2> QED
    BY <2>3, <2>4 DEF Accounted
<1> QED
  BY <1>1, DecodeInvariance, PTL


-----------------------------------------------------------------------------
(***************************************************************************)
(* The arguments of helper functions.                                      *)
(***************************************************************************)

(* The loop of makeCall. *)
TakeAll(proto, base, seq) == FoldLeft(LAMBDA acc, r : TakeArgument(acc, proto, r), base, seq)

(* The states of the loop, from the first to the last. *)
HasRun(proto, base, seq, n, G) ==
  \E h \in [0..n -> G] : /\ h[0] = base /\ h[n] = TakeAll(proto, base, seq)
                         /\ \A i \in 1..n : h[i] = TakeArgument(h[i - 1], proto, seq[i])

(* The states of the fold over the argument registers. *)
LEMMA TakeHistory ==
  ASSUME NEW proto, NEW G, NEW B, NEW base \in G, NEW n \in Nat, NEW seq,
         DOMAIN seq = 1..n, \A i \in 1..n : seq[i] \in B,
         \A a \in G : \A x \in B : TakeArgument(a, proto, x) \in G
  PROVE  HasRun(proto, base, seq, n, G)
<1> SUFFICES \E h \in [0..n -> G] :
               /\ h[0] = base /\ h[n] = TakeAll(proto, base, seq)
               /\ \A i \in 1..n : h[i] = TakeArgument(h[i - 1], proto, seq[i])
  BY DEF HasRun
<1> DEFINE F == [y \in G \X B |-> TakeArgument(y[1], proto, y[2])]
           Body(f, s) == IF s = {} THEN base ELSE TakeArgument(f[s \ {Max(s)}], proto, seq[Max(s)])
           f == CHOOSE ff : ff = [s \in SUBSET (DOMAIN seq) |-> Body(ff, s)]
           h == [i \in 0..n |-> f[1..i]]
<1>1. F \in [G \X B -> G] /\ \A a \in G : \A x \in B : F[<<a, x>>] = TakeArgument(a, proto, x)
  OBVIOUS
<1>2. PICK e \in [SUBSET (1..n) -> G] : \A s \in SUBSET (1..n) : e[s] = FoldBody(F, base, seq, e, s)
  <2> HIDE DEF F, f, h, Body
  <2>1. F \in [G \X B -> G]
    BY <1>1
  <2>2. HasFold(F, base, seq, n, G)
    BY <2>1, FoldExists
  <2> QED
    BY <2>2 DEF HasFold
<1>3. \A s \in SUBSET (1..n) : s # {} => s \ {Max(s)} \in SUBSET (1..n) /\ Max(s) \in 1..n
  BY MaxOfIndices
<1>4. \A s \in SUBSET (1..n) : e[s] = Body(e, s)
  <2> TAKE s \in SUBSET (1..n)
  <2>1. CASE s = {}
    BY <1>2, <2>1 DEF FoldBody
  <2>2. CASE s # {}
    <3> DEFINE r == s \ {Max(s)}
               m == Max(s)
    <3>1. e[r] \in G /\ seq[m] \in B
      BY <1>3, <2>2
    <3>2. e[s] = F[<<e[r], seq[m]>>]
      BY <1>2, <2>2 DEF FoldBody
    <3>3. Body(e, s) = TakeArgument(e[r], proto, seq[m])
      BY <2>2
    <3> HIDE DEF F, r, m, Body
    <3> QED
      BY <1>1, <3>1, <3>2, <3>3
  <2> QED
    BY <2>1, <2>2
<1>5. e = [s \in SUBSET (DOMAIN seq) |-> Body(e, s)]
  <2> HIDE DEF Body
  <2> QED
    BY <1>4
<1>6. f = [s \in SUBSET (DOMAIN seq) |-> Body(f, s)]
  <2> HIDE DEF Body
  <2> QED
    BY <1>5
<1>7. TakeAll(proto, base, seq) = f[1..n]
  BY DEF TakeAll, FoldLeft, MapThenFoldSet
<1> HIDE DEF f
<1>8. f[{}] = base /\ 1..0 = {}
  BY <1>6
<1>9. \A i \in 1..n : f[1..i] = TakeArgument(f[1..(i - 1)], proto, seq[i])
  <2> TAKE i \in 1..n
  <2>1. Max(1..i) = i /\ (1..i) \ {i} = 1..(i - 1) /\ 1..i # {}
    <3>1. i \in Nat /\ i # 0
      OBVIOUS
    <3> HIDE DEF h, F, Body
    <3> QED
      BY <3>1, MaxOfInterval
  <2>2. 1..i \in SUBSET (1..n)
    OBVIOUS
  <2>3. f[1..i] = Body(f, 1..i)
    BY <1>6, <2>2
  <2> QED
    BY <2>1, <2>3
<1>10. /\ \A i \in 0..n : h[i] = f[1..i]
       /\ \A i \in 1..n : i \in 0..n /\ i - 1 \in 0..n
       /\ 0 \in 0..n /\ n \in 0..n
  OBVIOUS
<1>11. h[0] = base /\ h[n] = f[1..n]
  <2> HIDE DEF h
  <2> QED
    BY <1>8, <1>10
<1>12. \A i \in 1..n : h[i] = TakeArgument(h[i - 1], proto, seq[i])
  <2> HIDE DEF h
  <2> QED
    BY <1>9, <1>10
<1>13. \A i \in 1..n : h[i - 1] \in G => h[i] \in G
  <2> HIDE DEF h
  <2> QED
    BY <1>12
<1>14. \A i \in 0..n : h[i] \in G
  <2> HIDE DEF h
  <2> QED
    BY <1>11, <1>13, HistoryInduction
<1>15. h \in [0..n -> G]
  BY <1>14
<1> HIDE DEF h
<1> QED
  BY <1>7, <1>11, <1>12, <1>15

Single == [kind : {SingleKinds[t] : t \in DOMAIN SingleKinds}, or_null : BOOLEAN, reg : 1..5]

Pair ==
  [kind : {PairKinds[t] : t \in DOMAIN PairKinds}, or_null : BOOLEAN, mem : 1..5, size : 1..6,
   can_be_zero : BOOLEAN]

Split == [ok : BOOLEAN, end : BOOLEAN, skip : BOOLEAN, singles : Seq(Single), pairs : Seq(Pair)]

(* No register is that of two arguments. *)
Apart(singles, pairs) ==
  \A j \in DOMAIN singles : \A k \in DOMAIN pairs : singles[j].reg # pairs[k].mem /\ singles[j].reg # pairs[k].size

PairsApart(pairs) ==
  \A j, k \in DOMAIN pairs : pairs[j].mem # pairs[k].size /\ (pairs[j].mem = pairs[k].mem => j = k)

Covers(singles, pairs, n) ==
  \A r \in 1..n : \/ \E k \in DOMAIN singles : singles[k].reg = r
                  \/ \E k \in DOMAIN pairs : r \in {pairs[k].mem, pairs[k].size}

(* The registers up to n each belong to one single argument or to one pair. *)
Takes(singles, pairs, n) ==
  /\ \A k \in DOMAIN singles : singles[k].reg \in 1..n
  /\ \A k \in DOMAIN pairs : pairs[k].size \in 1..n /\ pairs[k].size = pairs[k].mem + 1
  /\ \A j, k \in DOMAIN singles : singles[j].reg = singles[k].reg => j = k
  /\ PairsApart(pairs)
  /\ Apart(singles, pairs)
  /\ Covers(singles, pairs, n)

(* What the loop knows after r rounds. *)
Rounds(acc, proto, r) ==
  acc.ok => \E n \in 0..5 :
              /\ Takes(acc.singles, acc.pairs, n)
              /\ \A q \in 1..n : proto.args[q] # "DONTCARE"
              /\ IF acc.end THEN n < 5 /\ proto.args[n + 1] = "DONTCARE"
                 ELSE n = IF acc.skip THEN r + 1 ELSE r

LEMMA AppendTo ==
  ASSUME NEW S, NEW s \in Seq(S), NEW e \in S
  PROVE  LET t == Append(s, e)
         IN  /\ t \in Seq(S)
             /\ Len(s) \in Nat /\ DOMAIN s = 1..Len(s) /\ DOMAIN t = 1..(Len(s) + 1)
             /\ \A k \in 1..Len(s) : t[k] = s[k]
             /\ t[Len(s) + 1] = e
OBVIOUS

LEMMA TakeSingleStep ==
  ASSUME NEW pairs, NEW r \in 1..5, NEW m \in Nat, NEW s, NEW t, DOMAIN s = 1..m, DOMAIN t = 1..(m + 1),
         \A k \in 1..m : t[k] = s[k], t[m + 1].reg = r,
         \A k \in DOMAIN pairs : pairs[k].mem \in 1..5,
         Takes(s, pairs, r - 1)
  PROVE  Takes(t, pairs, r)
<1>4. \A k \in 1..(m + 1) : k \in 1..m \/ k = m + 1
  OBVIOUS
<1>5. \A k \in 1..m : k \in 1..(m + 1) /\ s[k].reg \in 1..(r - 1)
  BY DEF Takes
<1>6. \A k \in 1..(m + 1) : t[k].reg \in 1..r
  BY <1>4, <1>5
<1>7. \A j, k \in 1..(m + 1) : t[j].reg = t[k].reg => j = k
  <2> SUFFICES ASSUME NEW j \in 1..(m + 1), NEW k \in 1..(m + 1), t[j].reg = t[k].reg PROVE j = k
    OBVIOUS
  <2>1. CASE j \in 1..m /\ k \in 1..m
    BY <2>1 DEF Takes
  <2>2. CASE j = m + 1 \/ k = m + 1
    BY <1>4, <1>5, <2>2
  <2> QED
    BY <1>4, <2>1, <2>2
<1>10. \A k \in DOMAIN pairs : pairs[k].size \in 1..(r - 1) /\ pairs[k].size = pairs[k].mem + 1
  BY DEF Takes
<1>8. Apart(t, pairs)
  <2> SUFFICES ASSUME NEW j \in 1..(m + 1), NEW k \in DOMAIN pairs
               PROVE  t[j].reg # pairs[k].mem /\ t[j].reg # pairs[k].size
    BY DEF Apart
  <2>1. CASE j \in 1..m
    <3>1. s[j].reg # pairs[k].mem /\ s[j].reg # pairs[k].size
      BY <2>1 DEF Takes, Apart
    <3> QED
      BY <2>1, <3>1
  <2>2. CASE j = m + 1
    BY <1>10, <2>2
  <2> QED
    BY <1>4, <2>1, <2>2
<1>9. Covers(t, pairs, r)
  <2> SUFFICES ASSUME NEW q \in 1..r
               PROVE  \/ \E k \in 1..(m + 1) : t[k].reg = q
                      \/ \E k \in DOMAIN pairs : q \in {pairs[k].mem, pairs[k].size}
    BY DEF Covers
  <2>1. CASE q \in 1..(r - 1)
    <3>1. \/ \E k \in 1..m : s[k].reg = q
          \/ \E k \in DOMAIN pairs : q \in {pairs[k].mem, pairs[k].size}
      BY <2>1 DEF Takes, Covers
    <3> QED
      BY <1>5, <3>1
  <2>2. CASE q = r
    BY <2>2
  <2> QED
    BY <2>1, <2>2
<1>11. PairsApart(pairs)
  BY DEF Takes
<1>12. \A k \in DOMAIN pairs : pairs[k].size \in 1..r /\ pairs[k].size = pairs[k].mem + 1
  BY <1>10
<1> QED
  BY <1>6, <1>7, <1>8, <1>9, <1>11, <1>12 DEF Takes

LEMMA TakePairStep ==
  ASSUME NEW singles, NEW r \in 1..4, NEW m \in Nat, NEW s, NEW t, DOMAIN s = 1..m, DOMAIN t = 1..(m + 1),
         \A k \in 1..m : t[k] = s[k] /\ s[k].mem \in 1..5, t[m + 1].mem = r, t[m + 1].size = r + 1,
         Takes(singles, s, r - 1)
  PROVE  Takes(singles, t, r + 1)
<1>4. \A k \in 1..(m + 1) : k \in 1..m \/ k = m + 1
  OBVIOUS
<1>5. \A k \in 1..m : k \in 1..(m + 1) /\ s[k].size \in 1..(r - 1) /\ s[k].size = s[k].mem + 1
  BY DEF Takes
<1>6. \A k \in 1..(m + 1) : t[k].size \in 1..(r + 1) /\ t[k].size = t[k].mem + 1
  BY <1>4, <1>5
<1>7. PairsApart(t)
  <2> SUFFICES ASSUME NEW j \in 1..(m + 1), NEW k \in 1..(m + 1)
               PROVE  t[j].mem # t[k].size /\ (t[j].mem = t[k].mem => j = k)
    BY DEF PairsApart
  <2>1. CASE j \in 1..m /\ k \in 1..m
    <3>1. s[j].mem # s[k].size /\ (s[j].mem = s[k].mem => j = k)
      BY <2>1 DEF Takes, PairsApart
    <3> QED
      BY <2>1, <3>1
  <2>2. CASE j = m + 1 \/ k = m + 1
    BY <1>4, <1>5, <2>2
  <2> QED
    BY <1>4, <2>1, <2>2
<1>10. \A k \in DOMAIN singles : singles[k].reg \in 1..(r - 1)
  BY DEF Takes
<1>8. Apart(singles, t)
  <2> SUFFICES ASSUME NEW j \in DOMAIN singles, NEW k \in 1..(m + 1)
               PROVE  singles[j].reg # t[k].mem /\ singles[j].reg # t[k].size
    BY DEF Apart
  <2>1. CASE k \in 1..m
    <3>1. singles[j].reg # s[k].mem /\ singles[j].reg # s[k].size
      BY <2>1 DEF Takes, Apart
    <3> QED
      BY <2>1, <3>1
  <2>2. CASE k = m + 1
    BY <1>10, <2>2
  <2> QED
    BY <1>4, <2>1, <2>2
<1>9. Covers(singles, t, r + 1)
  <2> SUFFICES ASSUME NEW q \in 1..(r + 1)
               PROVE  \/ \E k \in DOMAIN singles : singles[k].reg = q
                      \/ \E k \in 1..(m + 1) : q \in {t[k].mem, t[k].size}
    BY DEF Covers
  <2>1. CASE q \in 1..(r - 1)
    <3>1. \/ \E k \in DOMAIN singles : singles[k].reg = q
          \/ \E k \in 1..m : q \in {s[k].mem, s[k].size}
      BY <2>1 DEF Takes, Covers
    <3> QED
      BY <1>5, <3>1
  <2>2. CASE q = r \/ q = r + 1
    BY <2>2
  <2> QED
    BY <2>1, <2>2
<1>11. \A j, k \in DOMAIN singles : singles[j].reg = singles[k].reg => j = k
  BY DEF Takes
<1>12. \A k \in DOMAIN singles : singles[k].reg \in 1..(r + 1)
  BY <1>10
<1> QED
  BY <1>6, <1>7, <1>8, <1>9, <1>11, <1>12 DEF Takes

LEMMA TakeSingle ==
  ASSUME NEW singles \in Seq(Single), NEW pairs \in Seq(Pair), NEW r \in 1..5,
         Takes(singles, pairs, r - 1), NEW e \in Single, e.reg = r
  PROVE  Takes(Append(singles, e), pairs, r)
<1> DEFINE t == Append(singles, e)
           m == Len(singles)
<1>1. /\ m \in Nat /\ DOMAIN singles = 1..m /\ DOMAIN t = 1..(m + 1)
      /\ \A k \in 1..m : t[k] = singles[k]
      /\ t[m + 1] = e
  BY AppendTo
<1>2. \A k \in DOMAIN pairs : pairs[k] \in Pair
  OBVIOUS
<1>3. \A k \in DOMAIN pairs : pairs[k].mem \in 1..5
  BY <1>2 DEF Pair
<1> HIDE DEF t, m
<1>4. t[m + 1].reg = r
  BY <1>1
<1>5. Takes(t, pairs, r)
  BY <1>1, <1>3, <1>4, TakeSingleStep
<1> QED
  BY <1>5 DEF t

LEMMA TakePair ==
  ASSUME NEW singles \in Seq(Single), NEW pairs \in Seq(Pair), NEW r \in 1..4,
         Takes(singles, pairs, r - 1), NEW e \in Pair, e.mem = r, e.size = r + 1
  PROVE  Takes(singles, Append(pairs, e), r + 1)
<1> DEFINE t == Append(pairs, e)
           m == Len(pairs)
<1>1. /\ m \in Nat /\ DOMAIN pairs = 1..m /\ DOMAIN t = 1..(m + 1)
      /\ \A k \in 1..m : t[k] = pairs[k]
      /\ t[m + 1] = e
  BY AppendTo
<1>2. \A k \in DOMAIN pairs : pairs[k] \in Pair
  OBVIOUS
<1> HIDE DEF t, m
<1>3. \A k \in 1..m : t[k] = pairs[k] /\ pairs[k].mem \in 1..5
  BY <1>1, <1>2 DEF Pair
<1>4. t[m + 1].mem = r /\ t[m + 1].size = r + 1
  BY <1>1
<1>5. Takes(singles, t, r + 1)
  BY <1>1, <1>3, <1>4, TakePairStep
<1> QED
  BY <1>5 DEF t

LEMMA TakeArgumentFacts ==
  ASSUME NEW proto, NEW acc \in Split, NEW r \in 1..5
  PROVE  /\ TakeArgument(acc, proto, r) \in Split
         /\ Rounds(acc, proto, r - 1) => Rounds(TakeArgument(acc, proto, r), proto, r)
<1> DEFINE t == Arg(proto, r)
           b == TakeArgument(acc, proto, r)
<1> SUFFICES b \in Split /\ (Rounds(acc, proto, r - 1) => Rounds(b, proto, r))
  OBVIOUS
<1>0. t = proto.args[r]
  BY DEF Arg
<1>1. CASE acc.end \/ ~ acc.ok
  <2>1. b = acc
    BY <1>1 DEF TakeArgument
  <2> HIDE DEF b
  <2> QED
    BY <1>1, <2>1 DEF Rounds
<1>2. CASE ~ acc.end /\ acc.ok /\ acc.skip
  <2>1. b = [acc EXCEPT !.skip = FALSE]
    BY <1>2 DEF TakeArgument
  <2>2. /\ b \in Split /\ b.singles = acc.singles /\ b.pairs = acc.pairs
        /\ b.ok /\ ~ b.end /\ ~ b.skip
    BY <1>2, <2>1 DEF Split
  <2> HIDE DEF b
  <2>3. \A n : Takes(acc.singles, acc.pairs, n) => Takes(b.singles, b.pairs, n)
    BY <2>2
  <2>4. ASSUME Rounds(acc, proto, r - 1) PROVE Rounds(b, proto, r)
    <3>1. PICK n \in 0..5 : Takes(acc.singles, acc.pairs, n) /\ (\A q \in 1..n : proto.args[q] # "DONTCARE") /\ n = (r - 1) + 1
      BY <1>2, <2>4 DEF Rounds
    <3> QED
      BY <2>2, <2>3, <3>1 DEF Rounds
  <2> QED
    BY <2>2, <2>4
<1>3. ASSUME ~ acc.end, acc.ok, ~ acc.skip
      PROVE  b \in Split /\ (Rounds(acc, proto, r - 1) => Rounds(b, proto, r))
  <2>0. acc.singles \in Seq(Single) /\ acc.pairs \in Seq(Pair)
    BY DEF Split
  <2>1. ASSUME Rounds(acc, proto, r - 1)
        PROVE  Takes(acc.singles, acc.pairs, r - 1) /\ r - 1 \in 0..5 /\ \A q \in 1..(r - 1) : proto.args[q] # "DONTCARE"
    BY <1>3, <2>1 DEF Rounds
  <2>2. CASE t = "DONTCARE"
    <3>1. b = [acc EXCEPT !.end = TRUE]
      BY <1>3, <2>2 DEF TakeArgument
    <3>2. b \in Split /\ b.singles = acc.singles /\ b.pairs = acc.pairs /\ b.ok /\ b.end
      BY <1>3, <3>1 DEF Split
    <3> HIDE DEF b
    <3>3. \A n : Takes(acc.singles, acc.pairs, n) => Takes(b.singles, b.pairs, n)
      BY <3>2
    <3>4. (r - 1) + 1 = r /\ r - 1 < 5
      OBVIOUS
    <3> QED
      BY <1>0, <2>1, <2>2, <3>2, <3>3, <3>4 DEF Rounds
  <2>3. CASE t \in DOMAIN SingleKinds
    <3> DEFINE e == [kind |-> SingleKinds[t], or_null |-> t \in OrNull, reg |-> r]
    <3>0. t # "DONTCARE"
      BY <2>3 DEF SingleKinds
    <3>1. b = [acc EXCEPT !.singles = Append(@, e)]
      BY <1>3, <2>3, <3>0 DEF TakeArgument
    <3>2. e \in Single /\ e.reg = r
      BY <2>3 DEF Single
    <3>3. b \in Split
      <4> HIDE DEF e
      <4> QED
        BY <3>1, <3>2, AppendTo DEF Split
    <3>4. /\ b.ok = acc.ok /\ b.end = acc.end /\ b.skip = acc.skip
          /\ b.singles = Append(acc.singles, e) /\ b.pairs = acc.pairs
      <4> HIDE DEF e
      <4> QED
        BY <3>1 DEF Split
    <3> HIDE DEF b, e, t
    <3>5. ASSUME Rounds(acc, proto, r - 1) PROVE Rounds(b, proto, r)
      <4>1. Takes(b.singles, b.pairs, r)
        BY <2>0, <2>1, <3>2, <3>4, <3>5, TakeSingle
      <4>2. \A q \in 1..r : proto.args[q] # "DONTCARE"
        BY <1>0, <2>1, <3>0, <3>5
      <4> QED
        BY <1>3, <3>4, <4>1, <4>2 DEF Rounds
    <3> QED
      BY <3>3, <3>5
  <2>4. CASE t \notin DOMAIN SingleKinds /\ t \in DOMAIN PairKinds /\ Arg(proto, r + 1) \in Sizes
    <3> DEFINE u == Arg(proto, r + 1)
               e == [kind |-> PairKinds[t], or_null |-> t \in OrNull, mem |-> r, size |-> r + 1,
                     can_be_zero |-> u = "CONST_SIZE_OR_ZERO"]
    <3>0. t # "DONTCARE" /\ u # "DONTCARE"
      BY <2>4 DEF PairKinds, Sizes
    <3>01. r + 1 <= 5 /\ u = proto.args[r + 1]
      BY <3>0 DEF Arg
    <3>1. b = [acc EXCEPT !.skip = TRUE, !.pairs = Append(@, e)]
      BY <1>3, <2>4, <3>0 DEF TakeArgument
    <3>2. e \in Pair /\ e.mem = r /\ e.size = r + 1
      BY <2>4 DEF Pair
    <3>3. b \in Split
      <4> HIDE DEF e
      <4>1. Append(acc.pairs, e) \in Seq(Pair)
        BY <3>2, AppendTo DEF Split
      <4> QED
        BY <3>1, <4>1 DEF Split
    <3>4. /\ b.ok = acc.ok /\ b.end = acc.end /\ b.skip
          /\ b.singles = acc.singles /\ b.pairs = Append(acc.pairs, e)
      <4> HIDE DEF e
      <4> QED
        BY <3>1 DEF Split
    <3> HIDE DEF b, e, t, u
    <3>5. ASSUME Rounds(acc, proto, r - 1) PROVE Rounds(b, proto, r)
      <4>0. r \in 1..4 /\ r + 1 \in 0..5
        BY <3>01
      <4>1. Takes(b.singles, b.pairs, r + 1)
        BY <2>0, <2>1, <3>2, <3>4, <3>5, <4>0, TakePair
      <4>2. \A q \in 1..(r + 1) : proto.args[q] # "DONTCARE"
        <5>1. \A q \in 1..(r + 1) : q \in 1..(r - 1) \/ q = r \/ q = r + 1
          OBVIOUS
        <5> QED
          BY <1>0, <2>1, <3>0, <3>01, <3>5, <5>1
      <4> QED
        BY <1>3, <3>4, <4>0, <4>1, <4>2 DEF Rounds
    <3> QED
      BY <3>3, <3>5
  <2>5. CASE t # "DONTCARE" /\ t \notin DOMAIN SingleKinds /\ ~ (t \in DOMAIN PairKinds /\ Arg(proto, r + 1) \in Sizes)
    <3>1. b = [acc EXCEPT !.ok = FALSE]
      BY <1>3, <2>5 DEF TakeArgument
    <3>2. b \in Split /\ ~ b.ok
      BY <3>1 DEF Split
    <3> QED
      BY <3>2 DEF Rounds
  <2> QED
    BY <2>2, <2>3, <2>4, <2>5
<1>4. acc.end \in BOOLEAN /\ acc.ok \in BOOLEAN /\ acc.skip \in BOOLEAN
  BY DEF Split
<1> HIDE DEF b
<1> QED
  BY <1>1, <1>2, <1>3, <1>4

LEMMA InjectiveLength ==
  ASSUME NEW S, NEW s \in Seq(S), IsInjective(s)
  PROVE  Len(s) = Cardinality({s[k] : k \in DOMAIN s})
<1> DEFINE n == Len(s)
           T == {s[k] : k \in DOMAIN s}
<1>1. n \in Nat /\ DOMAIN s = 1..n /\ s \in [1..n -> T]
  OBVIOUS
<1>2. \A x \in T : \E k \in 1..n : s[k] = x
  BY <1>1
<1> HIDE DEF n, T
<1>3. s \in Bijection(1..n, T)
  BY <1>1, <1>2 DEF Bijection, Injection, Surjection
<1>4. Cardinality(T) = n
  BY <1>1, <1>3, FS_CountingElements DEF ExistsBijection
<1> QED
  BY <1>4 DEF n, T

(* The registers of the arguments. *)
ListRegs(singles, pairs) ==
  [k \in DOMAIN singles |-> singles[k].reg] \o FlattenSeq([k \in DOMAIN pairs |-> <<pairs[k].mem, pairs[k].size>>])

ListsAll(regs, n) == Len(regs) = Cardinality(1..n) /\ {regs[k] : k \in DOMAIN regs} = 1..n

LEMMA TakesListsAll ==
  ASSUME NEW singles, NEW pairs, NEW a \in Nat, NEW b \in Nat, DOMAIN singles = 1..a, DOMAIN pairs = 1..b,
         \A k \in 1..a : singles[k] \in Single, \A k \in 1..b : pairs[k] \in Pair,
         NEW n \in 0..5, Takes(singles, pairs, n),
         NEW regs, regs = ListRegs(singles, pairs)
  PROVE  ListsAll(regs, n)
<1> DEFINE s == [k \in DOMAIN singles |-> singles[k].reg]
           ts == [k \in DOMAIN pairs |-> <<pairs[k].mem, pairs[k].size>>]
           t == FlattenSeq(ts)
<1>2. /\ \A k \in 1..a : singles[k].reg \in 1..5
      /\ \A k \in 1..b : pairs[k].mem \in 1..6 /\ pairs[k].size \in 1..6
  BY DEF Single, Pair
<1>3. s \in Seq(1..6) /\ DOMAIN s = 1..a /\ Len(s) = a /\ \A k \in 1..a : s[k] = singles[k].reg
  BY <1>2
<1>4. \A k \in 1..b : /\ <<pairs[k].mem, pairs[k].size>> \in Seq(1..6)
                      /\ DOMAIN <<pairs[k].mem, pairs[k].size>> = 1..2
                      /\ <<pairs[k].mem, pairs[k].size>>[1] = pairs[k].mem
                      /\ <<pairs[k].mem, pairs[k].size>>[2] = pairs[k].size
  BY <1>2
<1>5. ts \in Seq(Seq(1..6)) /\ DOMAIN ts = 1..b /\ Len(ts) = b
  BY <1>4
<1>6. \A k \in 1..b : /\ ts[k] \in Seq(1..6) /\ DOMAIN ts[k] = 1..2
                      /\ ts[k][1] = pairs[k].mem /\ ts[k][2] = pairs[k].size
  BY <1>4
<1>7. regs = s \o t
  BY DEF ListRegs
<1> HIDE DEF s, t, ts
<1>8. \A k \in 1..b : \A x : x \in ToSet(ts[k]) <=> x = pairs[k].mem \/ x = pairs[k].size
  <2>1. \A i : i \in 1..2 <=> i = 1 \/ i = 2
    OBVIOUS
  <2> QED
    BY <1>6, <2>1 DEF ToSet
<1>9. /\ t \in Seq(1..6)
      /\ \A x : x \in ToSet(t) <=> \E k \in 1..b : x \in ToSet(ts[k])
      /\ (/\ \A i \in 1..b : IsInjective(ts[i])
          /\ \A i, j \in 1..b : i # j => ToSet(ts[i]) \cap ToSet(ts[j]) = {})
         => IsInjective(t)
  BY <1>5, FlattenFacts DEF t
<1>10. \A k \in 1..b : pairs[k].size = pairs[k].mem + 1 /\ pairs[k].size \in 1..n
  BY DEF Takes
<1>11. \A j, k \in 1..b : pairs[j].mem # pairs[k].size /\ (pairs[j].mem = pairs[k].mem => j = k)
  BY DEF Takes, PairsApart
<1>12. \A j, k \in 1..b : pairs[j].size = pairs[k].size => j = k
  <2> SUFFICES ASSUME NEW j \in 1..b, NEW k \in 1..b, pairs[j].size = pairs[k].size
               PROVE  j = k
    OBVIOUS
  <2> DEFINE mj == pairs[j].mem
             mk == pairs[k].mem
  <2>1. mj \in 1..6 /\ mk \in 1..6
    BY <1>2
  <2>2. pairs[j].size = mj + 1 /\ pairs[k].size = mk + 1
    BY <1>10
  <2>3. mj + 1 = mk + 1
    BY <2>2
  <2>4. mj = mk
    <3> HIDE DEF mj, mk
    <3> QED
      BY <2>1, <2>3
  <2> QED
    BY <1>11, <2>4
<1>13. \A k \in 1..b : IsInjective(ts[k])
  <2> TAKE k \in 1..b
  <2>1. \A i : i \in 1..2 <=> i = 1 \/ i = 2
    OBVIOUS
  <2> QED
    BY <1>6, <1>11, <2>1 DEF IsInjective
<1>14. \A i, j \in 1..b : i # j => ToSet(ts[i]) \cap ToSet(ts[j]) = {}
  <2> SUFFICES ASSUME NEW i \in 1..b, NEW j \in 1..b, i # j, NEW x, x \in ToSet(ts[i]), x \in ToSet(ts[j])
               PROVE  FALSE
    OBVIOUS
  <2>1. x = pairs[i].mem \/ x = pairs[i].size
    BY <1>8
  <2>2. x = pairs[j].mem \/ x = pairs[j].size
    BY <1>8
  <2>3. /\ pairs[i].mem # pairs[j].mem /\ pairs[i].mem # pairs[j].size
        /\ pairs[i].size # pairs[j].mem /\ pairs[i].size # pairs[j].size
    BY <1>11, <1>12
  <2> QED
    BY <2>1, <2>2, <2>3
<1>15. t \in Seq(1..6) /\ IsInjective(t) /\ \A x : x \in ToSet(t) <=> \E k \in 1..b : x \in {pairs[k].mem, pairs[k].size}
  <2>1. \A x : x \in ToSet(t) <=> \E k \in 1..b : x = pairs[k].mem \/ x = pairs[k].size
    BY <1>8, <1>9
  <2> QED
    BY <1>9, <1>13, <1>14, <2>1
<1>16. \A x : x \in ToSet(s) <=> \E k \in 1..a : x = singles[k].reg
  BY <1>3 DEF ToSet
<1>17. IsInjective(s)
  <2>1. \A j, k \in 1..a : singles[j].reg = singles[k].reg => j = k
    BY DEF Takes
  <2> QED
    BY <1>3, <2>1 DEF IsInjective
<1>18. ToSet(s) \cap ToSet(t) = {}
  <2>1. \A j \in 1..a : \A k \in 1..b : singles[j].reg # pairs[k].mem /\ singles[j].reg # pairs[k].size
    BY DEF Takes, Apart
  <2> QED
    BY <1>15, <1>16, <2>1
<1>19. /\ regs \in Seq(1..6) /\ IsInjective(regs)
       /\ \A x : x \in ToSet(regs) <=> x \in ToSet(s) \/ x \in ToSet(t)
  BY <1>3, <1>7, <1>15, <1>17, <1>18, ConcatMembers
<1>20. \A x : x \in ToSet(regs) <=> x \in 1..n
  <2> TAKE x
  <2>1. x \in 1..n => (\E k \in 1..a : x = singles[k].reg) \/ (\E k \in 1..b : x \in {pairs[k].mem, pairs[k].size})
    BY DEF Takes, Covers
  <2>2. \A k \in 1..a : singles[k].reg \in 1..n
    BY DEF Takes
  <2>3. \A k \in 1..b : pairs[k].mem \in 1..n /\ pairs[k].size \in 1..n
    BY <1>2, <1>10
  <2> QED
    BY <1>15, <1>16, <1>19, <2>1, <2>2, <2>3
<1>21. ToSet(regs) = {regs[k] : k \in DOMAIN regs}
  BY DEF ToSet
<1>22. {regs[k] : k \in DOMAIN regs} = 1..n
  BY <1>20, <1>21
<1>23. Len(regs) = Cardinality({regs[k] : k \in DOMAIN regs})
  BY <1>19, InjectiveLength
<1> QED
  BY <1>22, <1>23 DEF ListsAll

(* A call comes from makeCall, with the prototype of its function. *)
CallCovers(ins) ==
  LET proto == Prototypes[ins.func]
      used == {r \in 1..5 : \A q \in 1..r : proto.args[q] # "DONTCARE"}
      regs == ListRegs(ins.singles, ins.pairs)
  IN  Len(regs) = Cardinality(used) /\ {regs[k] : k \in DOMAIN regs} = used

(* The rounds of the loop. *)
LEMMA TakeRounds ==
  ASSUME NEW proto, NEW start \in Split, NEW rs, DOMAIN rs = 1..5, \A i \in 1..5 : rs[i] = i
  PROVE  HasRun(proto, start, rs, 5, Split)
<1> DEFINE n == 5
<1>1. n \in Nat /\ n = 5
  OBVIOUS
<1>2. \A acc \in Split : \A x \in 1..n : TakeArgument(acc, proto, x) \in Split
  BY TakeArgumentFacts
<1>3. DOMAIN rs = 1..n /\ \A i \in 1..n : rs[i] = i
  OBVIOUS
<1> HIDE DEF n
<1>4. \A i \in 1..n : rs[i] \in 1..n
  BY <1>3
<1>5. HasRun(proto, start, rs, n, Split)
  BY <1>1, <1>2, <1>3, <1>4, TakeHistory
<1> QED
  BY <1>1, <1>5

LEMMA CallIsCovered ==
  ASSUME NEW func, NEW ins, ins = makeCall(func), ins.kind = "call"
  PROVE  CallCovers(ins) /\ ins.func = func
<1> DEFINE proto == Prototypes[func]
           start == [ok |-> proto.returns # "UNSUPPORTED", end |-> FALSE, skip |-> FALSE, singles |-> <<>>, pairs |-> <<>>]
           rs == <<1, 2, 3, 4, 5>>
           args == TakeAll(proto, start, rs)
<1>1. start \in Split /\ start.singles = <<>> /\ start.pairs = <<>> /\ ~ start.end /\ ~ start.skip
  BY DEF Split
<1>2. DOMAIN rs = 1..5 /\ \A i \in 1..5 : rs[i] = i
  <2>1. \A i \in 1..5 : i = 1 \/ i = 2 \/ i = 3 \/ i = 4 \/ i = 5
    OBVIOUS
  <2> QED
    BY <2>1
<1>3. ins = IF ~ args.ok THEN Thrown
            ELSE [kind |-> "call", func |-> func, singles |-> args.singles, pairs |-> args.pairs,
                  reallocate_packet |-> proto.reallocate_packet,
                  is_map_lookup |-> proto.returns = "PTR_TO_MAP_VALUE_OR_NULL"]
  BY DEF makeCall, TakeAll
<1> HIDE DEF start, rs, args, proto
<1>4. args.ok /\ ins.func = func /\ ins.singles = args.singles /\ ins.pairs = args.pairs
  BY <1>3 DEF Thrown
<1>6. PICK h \in [0..5 -> Split] : /\ h[0] = start /\ h[5] = args
                                   /\ \A i \in 1..5 : h[i] = TakeArgument(h[i - 1], proto, i)
  <2>1. HasRun(proto, start, rs, 5, Split)
    BY <1>1, <1>2, TakeRounds
  <2> QED
    BY <1>2, <2>1 DEF HasRun, args
<1>7. Rounds(h[0], proto, 0)
  <2>1. DOMAIN start.singles = {} /\ DOMAIN start.pairs = {} /\ 1..0 = {} /\ 0 \in 0..5
    BY <1>1
  <2>2. Takes(start.singles, start.pairs, 0)
    BY <2>1 DEF Takes, Apart, PairsApart, Covers
  <2> QED
    BY <1>1, <1>6, <2>1, <2>2 DEF Rounds
<1>8. \A i \in 1..5 : Rounds(h[i - 1], proto, i - 1) => Rounds(h[i], proto, i)
  <2> TAKE i \in 1..5
  <2>1. h[i - 1] \in Split /\ h[i] = TakeArgument(h[i - 1], proto, i)
    BY <1>6
  <2> QED
    BY <2>1, TakeArgumentFacts
<1>9. Rounds(h[5], proto, 5)
  <2>1. Rounds(h[1], proto, 1)
    BY <1>7, <1>8
  <2>2. Rounds(h[2], proto, 2)
    BY <1>8, <2>1
  <2>3. Rounds(h[3], proto, 3)
    BY <1>8, <2>2
  <2>4. Rounds(h[4], proto, 4)
    BY <1>8, <2>3
  <2> QED
    BY <1>8, <2>4
<1>10. PICK n \in 0..5 : /\ Takes(args.singles, args.pairs, n)
                         /\ \A q \in 1..n : proto.args[q] # "DONTCARE"
                         /\ n = 5 \/ (n < 5 /\ proto.args[n + 1] = "DONTCARE")
  BY <1>4, <1>6, <1>9 DEF Rounds
<1> DEFINE used == {r \in 1..5 : \A q \in 1..r : proto.args[q] # "DONTCARE"}
<1>11. used = 1..n
  <2>1. \A r \in 1..n : r \in 1..5 /\ \A q \in 1..r : q \in 1..n
    OBVIOUS
  <2>2. \A r \in 1..5 : r \notin 1..n => n < 5 /\ n + 1 \in 1..r
    OBVIOUS
  <2> QED
    BY <1>10, <2>1, <2>2
<1>12. args \in Split
  BY <1>6
<1>13. args.singles \in Seq(Single) /\ args.pairs \in Seq(Pair)
  BY <1>12 DEF Split
<1> DEFINE regs == ListRegs(ins.singles, ins.pairs)
           sing == args.singles
           prs == args.pairs
           a == Len(sing)
           b == Len(prs)
<1>14. ListsAll(regs, n)
  <2>1. regs = ListRegs(sing, prs)
    BY <1>4
  <2>2. /\ a \in Nat /\ DOMAIN sing = 1..a /\ \A k \in 1..a : sing[k] \in Single
        /\ b \in Nat /\ DOMAIN prs = 1..b /\ \A k \in 1..b : prs[k] \in Pair
    BY <1>13
  <2>3. Takes(sing, prs, n)
    BY <1>10
  <2> HIDE DEF regs, a, b, sing, prs
  <2> QED
    BY <2>1, <2>2, <2>3, TakesListsAll
<1>15. Len(regs) = Cardinality(used) /\ {regs[k] : k \in DOMAIN regs} = used
  <2> HIDE DEF regs, used
  <2> QED
    BY <1>11, <1>14 DEF ListsAll
<1>16. Prototypes[ins.func] = proto
  BY <1>4 DEF proto
<1> QED
  BY <1>4, <1>15, <1>16 DEF CallCovers


-----------------------------------------------------------------------------
(* A call that was decoded has its arguments. *)
CallsCover == \A k \in DOMAIN prog : prog[k].ins.kind = "call" => CallCovers(prog[k].ins)

LEMMA EmitCoversCalls ==
  ASSUME DecodeInv, CallsCover, NEW ins, NEW slots, Emit(ins, slots),
         ins.kind = "call" => CallCovers(ins)
  PROVE  CallsCover'
<1>1. CASE Failed(ins)
  <2>1. prog' = prog
    BY <1>1 DEF Emit
  <2> QED
    BY <2>1 DEF CallsCover
<1>2. CASE ~ Failed(ins)
  <2> DEFINE e == [label |-> pc, ins |-> ins]
             n == Len(prog)
  <2>1. prog' = Append(prog, e) /\ e.ins = ins
    BY <1>2 DEF Emit
  <2>2. prog \in Seq({prog[k] : k \in DOMAIN prog})
    BY DEF DecodeInv, ProgOK
  <2> HIDE DEF e
  <2>3. /\ n \in Nat /\ DOMAIN prog = 1..n /\ DOMAIN prog' = 1..(n + 1)
        /\ \A k \in 1..n : prog'[k] = prog[k]
        /\ prog'[n + 1] = e
    BY <2>1, <2>2, AppendFacts
  <2> HIDE DEF n
  <2>4. \A k \in 1..(n + 1) : k \in 1..n \/ k = n + 1
    BY <2>3
  <2>5. \A k \in 1..(n + 1) : prog'[k].ins.kind = "call" => CallCovers(prog'[k].ins)
    BY <2>1, <2>3, <2>4 DEF CallsCover
  <2> QED
    BY <2>3, <2>5 DEF CallsCover
<1> QED
  BY <1>1, <1>2

(* Only makeCall makes a call. *)
LEMMA OthersAreNoCalls ==
  ASSUME NEW i, NEW j
  PROVE  /\ makeLddw(i, j, groups).kind # "call"
         /\ makeMemOp(i, groups).kind # "call"
         /\ makeAluOp(i, groups).kind # "call"
<1>1. Invalid.kind # "call"
  BY DEF Invalid
<1>2. makeLddw(i, j, groups).kind # "call"
  BY <1>1 DEF makeLddw, BinIns, If
<1>3. \A r : makePacket(i, groups, r).kind # "call"
  BY <1>1 DEF makePacket, If
<1>4. makeMem(i).kind # "call"
  BY <1>1 DEF makeMem, If
<1>5. makeAtomic(i, groups).kind # "call"
  BY <1>1 DEF makeAtomic, If
<1>6. makeMemOp(i, groups).kind # "call"
  BY <1>1, <1>3, <1>4, <1>5 DEF makeMemOp, If
<1>7. makeBin(i, groups).kind # "call"
  BY <1>1 DEF makeBin, BinIns
<1>8. makeUn(i, groups).kind # "call"
  BY <1>1 DEF makeUn, If
<1>9. makeAluOp(i, groups).kind # "call"
  BY <1>1, <1>7, <1>8 DEF makeAluOp
<1> QED
  BY <1>2, <1>6, <1>9

LEMMA JmpCovers ==
  ASSUME NEW raw, NEW at, NEW i, NEW ins, ins = makeJmp(raw, at, i, groups), ins.kind = "call"
  PROVE  CallCovers(ins)
<1>1. Invalid.kind # "call"
  BY DEF Invalid
<1>2. makeCallx(i).kind # "call"
  BY <1>1 DEF makeCallx, If
<1>3. makeExit(i, groups).kind # "call"
  BY <1>1 DEF makeExit, If
<1>4. makeGoto(raw, at, i, groups).kind # "call"
  BY <1>1 DEF makeGoto, If
<1>5. makeBranch(raw, at, i, groups).kind # "call"
  BY <1>1 DEF makeBranch
<1>6. ins = makeAnyCall(raw, at, i, groups)
  BY <1>3, <1>4, <1>5 DEF makeJmp
<1>7. ins = makeCall(i.imm)
  BY <1>1, <1>2, <1>6 DEF makeAnyCall, If
<1> QED
  BY <1>7, CallIsCovered

(* makeCall: the arguments of every helper call that was decoded, those of *)
(* the encoded program too, cover the registers up to the first that the   *)
(* prototype leaves unused, each of them once, whatever the prototypes.    *)
THEOREM ArgumentsStayCovered == Spec => []ArgumentsAreCovered
<1>1. Init => CallsCover
  BY DEF Init, CallsCover
<1>2. DecodeInv /\ CallsCover /\ [Next]_vars => CallsCover'
  <2> SUFFICES ASSUME DecodeInv, CallsCover, [Next]_vars PROVE CallsCover'
    OBVIOUS
  <2>1. CASE UNCHANGED prog
    BY <2>1 DEF CallsCover
  <2>2. CASE DecodeLddw
    <3>1. PICK ins, slots : Emit(ins, slots) /\ ins.kind # "call"
      <4>1. Invalid.kind # "call"
        BY DEF Invalid
      <4> QED
        BY <2>2, <4>1, OthersAreNoCalls DEF DecodeLddw
    <3> QED
      BY <3>1, EmitCoversCalls
  <2>3. CASE DecodeMem
    <3>1. PICK ins, slots : Emit(ins, slots) /\ ins.kind # "call"
      BY <2>3, OthersAreNoCalls DEF DecodeMem
    <3> QED
      BY <3>1, EmitCoversCalls
  <2>4. CASE DecodeAlu
    <3> DEFINE ins == makeAluOp(Current, groups)
               next == makeAluOp(insts[pc + 2], groups)
    <3>1. ins.kind # "call" /\ next.kind # "call"
      BY OthersAreNoCalls
    <3>2. Merged(ins, next) # None => Merged(ins, next).kind # "call"
      BY DEF Merged, BinIns
    <3>3. PICK em, slots : Emit(em, slots) /\ em.kind # "call"
      <4>1. \/ Emit(ins, 1) \/ Emit(next, 1)
            \/ Merged(ins, next) # None /\ Emit(Merged(ins, next), 2)
        BY <2>4 DEF DecodeAlu
      <4> HIDE DEF ins, next
      <4> QED
        BY <3>1, <3>2, <4>1
    <3> QED
      BY <3>3, EmitCoversCalls
  <2>5. CASE DecodeJmp
    <3> DEFINE ins == makeJmp(insts, pc, Current, groups)
    <3>1. Emit(ins, 1)
      BY <2>5 DEF DecodeJmp
    <3>2. ins.kind = "call" => CallCovers(ins)
      BY JmpCovers
    <3> HIDE DEF ins
    <3> QED
      BY <3>1, <3>2, EmitCoversCalls
  <2>6. CASE Finish
    BY <2>1, <2>6 DEF Finish
  <2>7. CASE Marshal
    <3>1. prog' = <<>> \/ prog' = prog
      BY <2>7 DEF Marshal
    <3>2. CASE prog' = <<>>
      BY <3>2 DEF CallsCover
    <3> QED
      BY <2>1, <3>1, <3>2
  <2> QED
    BY <2>1, <2>2, <2>3, <2>4, <2>5, <2>6, <2>7 DEF Next, vars
<1>3. CallsCover => ArgumentsAreCovered
  <2>1. ASSUME CallsCover
        PROVE  \A ins \in {x \in Decoded : x.kind = "call"} : CallCovers(ins)
    BY <2>1 DEF CallsCover, Decoded
  <2>2. ASSUME \A ins \in {x \in Decoded : x.kind = "call"} : CallCovers(ins)
        PROVE  ArgumentsAreCovered
    BY <2>2, Zenon DEF CallCovers, ListRegs, ArgumentsAreCovered
  <2> QED
    BY <2>1, <2>2
<1> QED
  BY <1>1, <1>2, <1>3, DecodeInvariance, PTL DEF Spec

-----------------------------------------------------------------------------
(***************************************************************************)
(* The layout of an encoded program.                                       *)
(***************************************************************************)
(* Where FlattenSeq puts the sequences: the k-th one after off[k] others. *)
Starts(seqs, n, off) ==
  /\ off[1] = 0
  /\ \A k \in 1..n : off[k] \in Nat /\ off[k + 1] \in Nat /\ off[k + 1] = off[k] + Len(seqs[k])

PlacedAt(u, off, s, k) == \A j \in 1..Len(s) : off[k] + j \in DOMAIN u /\ u[off[k] + j] = s[j]

(* The elements of a concatenation, by position. *)
LEMMA ConcatPlaces ==
  ASSUME NEW S, NEW s \in Seq(S), NEW t \in Seq(S), NEW u, u = s \o t
  PROVE  /\ u \in Seq(S) /\ Len(u) = Len(s) + Len(t) /\ DOMAIN u = 1..(Len(s) + Len(t))
         /\ \A j \in 1..Len(s) : u[j] = s[j]
         /\ \A j \in 1..Len(t) : u[Len(s) + j] = t[j]
         /\ DOMAIN s = 1..Len(s) /\ Len(s) \in Nat /\ Len(t) \in Nat
<1>1. u \in Seq(S) /\ Len(u) = Len(s) + Len(t)
  BY ConcatProperties
<1>2. \A i \in 1..(Len(s) + Len(t)) : u[i] = IF i <= Len(s) THEN s[i] ELSE t[i - Len(s)]
  BY ConcatProperties
<1>3. Len(s) \in Nat /\ Len(t) \in Nat /\ DOMAIN s = 1..Len(s)
  BY LenProperties
<1>4. DOMAIN u = 1..(Len(s) + Len(t))
  BY <1>1, LenProperties
<1> DEFINE a == Len(s)
           b == Len(t)
<1>5. /\ \A j \in 1..a : j \in 1..(a + b) /\ j <= a
      /\ \A j \in 1..b : a + j \in 1..(a + b) /\ ~ (a + j <= a) /\ (a + j) - a = j
  <2> HIDE DEF a, b
  <2>1. a \in Nat /\ b \in Nat
    BY <1>3 DEF a, b
  <2> QED
    BY <2>1
<1> QED
  BY <1>1, <1>2, <1>3, <1>4, <1>5

(* Every sequence is found in the flattened one, at its offset. *)
LEMMA FlattenLayout ==
  ASSUME NEW S, NEW seqs \in Seq(Seq(S)), NEW n \in Nat, n = Len(seqs), n # 0,
         NEW off, Starts(seqs, n, off), NEW u, u = FlattenSeq(seqs)
  PROVE  /\ Len(u) = off[n + 1]
         /\ \A k \in 1..n : PlacedAt(u, off, seqs[k], k)
<1> DEFINE F == CHOOSE f : IsFlatten(seqs, n, f)
<1>1. \A i \in 1..n : seqs[i] \in Seq(S)
  BY ElementOfSeq
<1>2. u = F[n]
  BY DEF FlattenSeq, IsFlatten
<1>3. IsFlatten(seqs, n, F)
  BY FlattenExists
<1> HIDE DEF F
<1>4. \A i \in 1..n : F[i] = IF i = 1 THEN seqs[i] ELSE F[i - 1] \o seqs[i]
  BY <1>3 DEF IsFlatten
<1> DEFINE Good2(m) == F[m] \in Seq(S) /\ Len(F[m]) = off[m + 1] /\ \A k \in 1..m : PlacedAt(F[m], off, seqs[k], k)
           T == {m \in Nat : m \in 1..n => Good2(m)}
<1>5. 0 \in T
  OBVIOUS
<1>6. ASSUME NEW m \in T
      PROVE  m + 1 \in T
  <2>1. m \in Nat /\ m + 1 \in Nat
    OBVIOUS
  <2> SUFFICES ASSUME m + 1 \in 1..n PROVE Good2(m + 1)
    BY <2>1
  <2>2. seqs[m + 1] \in Seq(S) /\ off[m + 2] = off[m + 1] + Len(seqs[m + 1]) /\ off[m + 1] \in Nat
    BY <1>1, <2>1 DEF Starts
  <2>3. CASE m = 0
    <3>1. F[1] = seqs[1] /\ 1 \in 1..n
      BY <1>4, <2>3
    <3>2. off[1] = 0 /\ off[2] = 0 + Len(seqs[1])
      BY <2>2, <2>3 DEF Starts
    <3>3. Len(seqs[1]) \in Nat /\ DOMAIN seqs[1] = 1..Len(seqs[1])
      BY <2>2, <2>3, LenProperties
    <3>4. PlacedAt(F[1], off, seqs[1], 1)
      <4> DEFINE s == seqs[1]
                 l == Len(s)
      <4>1. \A j \in 1..l : 0 + j = j
        OBVIOUS
      <4> HIDE DEF l
      <4>2. DOMAIN s = 1..l
        BY <3>3 DEF l
      <4>3. \A j \in 1..l : 0 + j \in DOMAIN s /\ s[0 + j] = s[j]
        BY <4>1, <4>2
      <4> QED
        BY <3>1, <3>2, <4>3 DEF PlacedAt, l
    <3>5. F[1] \in Seq(S) /\ Len(F[1]) = off[2]
      BY <2>2, <2>3, <3>1, <3>2, <3>3
    <3>6. \A k \in 1..1 : k = 1
      OBVIOUS
    <3>7. m + 1 = 1 /\ (m + 1) + 1 = 2
      BY <2>3
    <3> QED
      BY <3>4, <3>5, <3>6, <3>7
  <2>4. CASE m # 0
    <3>1. m \in 1..n
      BY <2>1, <2>4
    <3>2. F[m] \in Seq(S) /\ Len(F[m]) = off[m + 1] /\ \A k \in 1..m : PlacedAt(F[m], off, seqs[k], k)
      BY <3>1
    <3>3. F[m + 1] = F[m] \o seqs[m + 1]
      <4>1. m + 1 # 1 /\ (m + 1) - 1 = m
        BY <2>1, <2>4
      <4> QED
        BY <1>4, <4>1
    <3> DEFINE s == F[m]
               t == seqs[m + 1]
               v == F[m + 1]
               a == Len(s)
               b == Len(t)
    <3>4. /\ v \in Seq(S) /\ Len(v) = a + b /\ DOMAIN v = 1..(a + b)
          /\ \A j \in 1..a : v[j] = s[j]
          /\ \A j \in 1..b : v[a + j] = t[j]
          /\ DOMAIN s = 1..a /\ a \in Nat /\ b \in Nat
      <4>1. s \in Seq(S) /\ t \in Seq(S) /\ v = s \o t
        BY <2>2, <3>2, <3>3
      <4> HIDE DEF s, t, v
      <4> QED
        BY <4>1, ConcatPlaces
    <3>5. (m + 1) + 1 = m + 2
      BY <2>1
    <3>6. Len(v) = off[(m + 1) + 1]
      BY <2>2, <3>2, <3>4, <3>5
    <3>7. ASSUME NEW k \in 1..m
          PROVE  PlacedAt(v, off, seqs[k], k)
      <4>1. PlacedAt(s, off, seqs[k], k)
        BY <3>2
      <4> HIDE DEF s, v, a, b
      <4>2. \A i \in DOMAIN s : i \in DOMAIN v /\ v[i] = s[i]
        BY <3>4
      <4> QED
        BY <4>1, <4>2 DEF PlacedAt
    <3>8. PlacedAt(v, off, t, m + 1)
      <4>1. a = off[m + 1]
        BY <3>2
      <4> HIDE DEF s, v, a, t
      <4>2. b \in Nat
        BY <3>4
      <4> HIDE DEF b
      <4>3. \A j \in 1..b : a + j \in 1..(a + b)
        BY <3>4, <4>2
      <4> QED
        BY <3>4, <4>1, <4>3 DEF PlacedAt, b
    <3>9. \A k \in 1..(m + 1) : k \in 1..m \/ k = m + 1
      BY <2>1
    <3> HIDE DEF s, v, a, b, t
    <3>10. \A k \in 1..(m + 1) : PlacedAt(v, off, seqs[k], k)
      BY <3>7, <3>8, <3>9 DEF t
    <3> QED
      BY <3>4, <3>6, <3>10 DEF v
  <2> QED
    BY <2>3, <2>4
<1>7. T = Nat
  <2>1. T \subseteq Nat
    OBVIOUS
  <2> HIDE DEF T
  <2> QED
    BY <1>5, <1>6, <2>1, SetInduction
<1>8. n \in 1..n
  OBVIOUS
<1>9. Good2(n)
  BY <1>7, <1>8
<1> QED
  BY <1>2, <1>9

-----------------------------------------------------------------------------
(***************************************************************************)
(* What the decoder keeps of an instruction for the encoder.               *)
(***************************************************************************)
Q == 2^ImmBits

BinKept(ins) ==
  IF ins.lddw
    THEN /\ ins.op = "MOV" /\ ins.is64
         /\ \E hi, lo \in 0..(Q - 1) : ins.v.imm = hi * Q + lo
    ELSE /\ ins.op \in {"MOVSX8", "MOVSX16", "MOVSX32"} => IsReg(ins.v)
         /\ ~ IsReg(ins.v) => ins.v.imm >= 0

UnKept(ins) ==
  IF ins.op = "NEG" THEN ins.width = 0
  ELSE ins.width \in {16, 32, 64} /\ (ins.is64 <=> ins.op = "SWAP")

MemKept(ins) == ~ ins.is_load /\ ~ IsReg(ins.value) => ins.value.imm >= 0

AtomicKept(ins) == ins.access.width \in {4, 8} /\ (ins.op \in {"XCHG", "CMPXCHG"} => ins.fetch)

CallKept(ins) == ins.func \in Usable /\ ins = makeCall(ins.func)

JmpKept(ins) == ins.cond # None /\ ~ IsReg(ins.cond.right) => ins.cond.right.imm >= 0

Kept(ins) ==
  /\ ins.kind = "bin" => BinKept(ins)
  /\ ins.kind = "un" => UnKept(ins)
  /\ ins.kind = "mem" => MemKept(ins)
  /\ ins.kind = "atomic" => AtomicKept(ins)
  /\ ins.kind = "call" => CallKept(ins)
  /\ ins.kind = "jmp" => JmpKept(ins)

(* A number is made of its quotient and its remainder. *)
LEMMA DivMod ==
  ASSUME NEW q \in Nat, q > 0, NEW hi \in Int, NEW lo \in 0..(q - 1), NEW n, n = hi * q + lo
  PROVE  n % q = lo /\ n \div q = hi
<1> DEFINE d == n \div q
           r == n % q
<1>1. n \in Int
  OBVIOUS
<1>2. d \in Int /\ r \in 0..(q - 1) /\ n = q * d + r
  BY <1>1
<1> HIDE DEF d, r
<1>3. \A x \in Int : x >= 1 => q * x >= q
  OBVIOUS
<1>4. \A x \in Int : x <= -1 => q * x <= -q
  OBVIOUS
<1>5. q * (d - hi) = lo - r
  BY <1>2
<1>6. d - hi \in Int /\ lo - r \in Int /\ lo - r < q /\ lo - r > -q
  BY <1>2
<1> DEFINE x == d - hi
<1>7. x \in Int /\ q * x < q /\ q * x > -q
  BY <1>5, <1>6
<1> HIDE DEF x
<1>8. ~ (x >= 1) /\ ~ (x <= -1)
  BY <1>3, <1>4, <1>7
<1>9. x = 0
  BY <1>7, <1>8
<1>10. d = hi
  BY <1>2, <1>9 DEF x
<1>11. r = lo
  BY <1>2, <1>10
<1> QED
  BY <1>10, <1>11 DEF d, r

(* The bound of a half of a register. *)
LEMMA QFacts == Q \in Nat /\ Q > 0
BY WidthFacts DEF Q

(* The operands: immediates are not negative. *)
LEMMA OperandKept ==
  ASSUME NEW i \in Slot
  PROVE  /\ ~ IsReg(Operand(i)) => Operand(i).imm >= 0
         /\ IsReg(Operand(i)) <=> SrcReg(i)
<1> DEFINE w == 2^(2 * ImmBits)
<1>1. i.imm \in Int /\ w \in Nat /\ w > 0
  BY SlotFacts, WidthFacts
<1>2. i.imm % w >= 0
  <2> HIDE DEF w
  <2> QED
    BY <1>1
<1>3. sign_extend(i.imm).imm = i.imm % w /\ ~ IsReg(sign_extend(i.imm))
  BY DEF sign_extend, Imm, Unsigned, IsReg
<1>4. IsReg(Reg(i.src))
  BY DEF Reg, IsReg
<1> HIDE DEF w
<1> QED
  BY <1>2, <1>3, <1>4 DEF Operand

(* The decoded instructions, kind by kind. *)
LEMMA LddwIsKept ==
  ASSUME NEW i \in Slot, NEW j \in Slot, NEW ins, ins = makeLddw(i, j, groups)
  PROVE  Failed(ins) \/ Kept(ins)
<1> DEFINE hi == j.imm % Q
           lo == i.imm % Q
           b == BinIns("MOV", i.dst, Imm(hi * Q + lo), TRUE, TRUE)
<1>1. hi \in 0..(Q - 1) /\ lo \in 0..(Q - 1)
  <2>1. i.imm \in Int /\ j.imm \in Int
    BY SlotFacts
  <2> QED
    BY <2>1, QFacts
<1>2. \/ ins = Invalid
      \/ ins = b
      \/ ins.kind \in {"map_fd", "map_address"}
  <2>1. b = BinIns("MOV", i.dst, Imm(Unsigned(j.imm, ImmBits) * 2^ImmBits + Unsigned(i.imm, ImmBits)), TRUE, TRUE)
    BY Zenon DEF Unsigned, Q
  <2> DEFINE ok == /\ "base64" \in groups
                   /\ j.opcode = 0 /\ j.dst = 0 /\ j.src = 0 /\ j.offset = 0
                   /\ i.offset = 0 /\ i.dst <= R10
  <2> HIDE DEF b
  <2>2. ~ ok => ins = Invalid
    BY DEF makeLddw
  <2>3. ok /\ i.src = 0 => ins = b
    BY <2>1 DEF makeLddw
  <2>4. ok /\ i.src = 1 =>
          ins = If(j.imm = 0, [kind |-> "map_fd", dst |-> i.dst, mapfd |-> i.imm])
    BY DEF makeLddw
  <2>5. ok /\ i.src = 2 =>
          ins = [kind |-> "map_address", dst |-> i.dst, mapfd |-> i.imm, offset |-> j.imm]
    BY DEF makeLddw
  <2>6. ok /\ i.src \notin {0, 1, 2} => ins = Invalid
    BY DEF makeLddw
  <2> HIDE DEF ok
  <2>7. ok /\ i.src = 1 => ins = Invalid \/ ins.kind = "map_fd"
    BY <2>4 DEF If
  <2>8. ok /\ i.src = 2 => ins.kind = "map_address"
    BY <2>5
  <2> QED
    BY <2>2, <2>3, <2>6, <2>7, <2>8
<1>3. ASSUME ins = b PROVE Kept(ins)
  <2> HIDE DEF hi, lo
  <2>1. /\ ins.kind = "bin" /\ ins.lddw = TRUE /\ ins.op = "MOV" /\ ins.is64 = TRUE
        /\ ins.v = Imm(hi * Q + lo)
    BY <1>3 DEF BinIns
  <2>2. ins.v.imm = hi * Q + lo
    BY <2>1 DEF Imm
  <2>3. \E x, y \in 0..(Q - 1) : ins.v.imm = x * Q + y
    BY <1>1, <2>2
  <2>4. BinKept(ins)
    BY <2>1, <2>3 DEF BinKept
  <2> QED
    BY <2>1, <2>4 DEF Kept
<1>4. ins.kind \in {"map_fd", "map_address"} => Kept(ins)
  BY DEF Kept
<1> HIDE DEF b
<1> QED
  BY <1>2, <1>3, <1>4, ErrorsFail

LEMMA MemOpIsKept ==
  ASSUME NEW i \in Slot, NEW ins, ins = makeMemOp(i, groups)
  PROVE  Failed(ins) \/ Kept(ins)
<1>1. ASSUME NEW r, ins = makePacket(i, groups, r)
      PROVE  Failed(ins) \/ Kept(ins)
  <2>1. ins = Invalid \/ ins.kind = "packet"
    BY <1>1 DEF makePacket, If
  <2> QED
    BY <2>1, ErrorsFail DEF Kept
<1>2. ASSUME ins = makeMem(i)
      PROVE  Failed(ins) \/ Kept(ins)
  <2> DEFINE isLoad == Class(i) = LDX
             value == IF isLoad THEN Reg(i.dst) ELSE IF Class(i) = ST THEN zero_extend(i.imm) ELSE Reg(i.src)
             acc == Deref(opcode_to_width(i), IF isLoad THEN i.src ELSE i.dst, i.offset)
  <2>1. ins = Invalid \/ ins = [kind |-> "mem", is_load |-> isLoad, access |-> acc, value |-> value]
    BY <1>2 DEF makeMem, If
  <2>2. ~ IsReg(value) => value.imm >= 0
    <3>1. i.imm \in Int
      BY SlotFacts
    <3>2. i.imm % Q >= 0
      BY <3>1, QFacts
    <3>3. zero_extend(i.imm).imm = i.imm % Q
      BY DEF zero_extend, Imm, Unsigned, Q
    <3>4. IsReg(Reg(i.dst)) /\ IsReg(Reg(i.src))
      BY DEF IsReg, Reg
    <3> QED
      BY <3>2, <3>3, <3>4
  <2> HIDE DEF value, acc, isLoad
  <2> QED
    BY <2>1, <2>2, ErrorsFail DEF Kept, MemKept
<1>3. ASSUME ins = makeAtomic(i, groups)
      PROVE  Failed(ins) \/ Kept(ins)
  <2> DEFINE op == getAtomicOp[i.imm - (i.imm % 2)]
             fetch == i.imm % 2 = 1
             width == opcode_to_width(i)
  <2>1. \/ ins = Invalid
        \/ /\ width \in {4, 8} /\ (op \in {"XCHG", "CMPXCHG"} => fetch)
           /\ ins = [kind |-> "atomic", op |-> op, fetch |-> fetch, access |-> Deref(width, i.dst, i.offset), valreg |-> i.src]
    BY <1>3 DEF makeAtomic, If
  <2>2. fetch \in BOOLEAN
    OBVIOUS
  <2> HIDE DEF op, fetch, width
  <2>3. ASSUME width \in {4, 8}, op \in {"XCHG", "CMPXCHG"} => fetch,
               ins = [kind |-> "atomic", op |-> op, fetch |-> fetch, access |-> Deref(width, i.dst, i.offset), valreg |-> i.src]
        PROVE  Kept(ins)
    <3>1. ins.kind = "atomic" /\ ins.op = op /\ ins.fetch = fetch /\ ins.access.width = width
      BY <2>3 DEF Deref
    <3>2. ins.fetch <=> fetch
      BY <2>2, <3>1, Zenon
    <3>3. AtomicKept(ins)
      BY <2>3, <3>1, <3>2 DEF AtomicKept
    <3> QED
      BY <3>1, <3>3 DEF Kept
  <2> QED
    BY <2>1, <2>3, ErrorsFail
<1>4. \/ ins = Invalid
      \/ \E r : ins = makePacket(i, groups, r)
      \/ ins = makeMem(i)
      \/ ins = makeAtomic(i, groups)
  BY DEF makeMemOp, If
<1> QED
  BY <1>1, <1>2, <1>3, <1>4, ErrorsFail

LEMMA AluOpIsKept ==
  ASSUME NEW i \in Slot, NEW ins, ins = makeAluOp(i, groups)
  PROVE  Failed(ins) \/ Kept(ins)
<1> DEFINE is64 == Class(i) = ALU64
<1>1. ASSUME ins = makeUn(i, groups)
      PROVE  Failed(ins) \/ Kept(ins)
  <2> DEFINE neg == OpField(i) = 8
             op == IF neg THEN "NEG" ELSE IF is64 THEN "SWAP" ELSE IF SrcReg(i) THEN "BE" ELSE "LE"
             width == IF neg THEN 0 ELSE i.imm
             u == [kind |-> "un", op |-> op, width |-> width, dst |-> i.dst, is64 |-> is64]
  <2>1. ins = Invalid \/ (ins = u /\ (neg \/ i.imm \in {16, 32, 64}))
    BY <1>1 DEF makeUn, If
  <2>2. ASSUME neg \/ i.imm \in {16, 32, 64}
        PROVE  /\ op = "NEG" => width = 0
               /\ op # "NEG" => width \in {16, 32, 64} /\ (is64 <=> op = "SWAP")
               /\ is64 \in BOOLEAN
    BY <2>2
  <2> HIDE DEF op, width, is64
  <2>3. ASSUME ins = u, neg \/ i.imm \in {16, 32, 64} PROVE Kept(ins)
    <3>1. ins.kind = "un" /\ ins.op = op /\ ins.width = width /\ ins.is64 = is64
      BY <2>3
    <3>2. ins.is64 <=> is64
      BY <2>2, <2>3, <3>1, Zenon
    <3>3. UnKept(ins)
      BY <2>2, <2>3, <3>1, <3>2 DEF UnKept
    <3> QED
      BY <3>1, <3>3 DEF Kept
  <2> QED
    BY <2>1, <2>3, ErrorsFail
<1>2. ASSUME ins = makeBin(i, groups)
      PROVE  Failed(ins) \/ Kept(ins)
  <2>1. ins = Invalid \/ (i.offset > 0 /\ OpField(i) = 11 => SrcReg(i))
    BY <1>2 DEF makeBin
  <2>2. ASSUME NEW op, i.offset > 0 /\ OpField(i) = 11 => SrcReg(i),
               ins = BinIns(op, i.dst, Operand(i), is64, FALSE),
               <<OpField(i), i.offset, op>> \in BinaryOps
        PROVE  Kept(ins)
    <3>1. op \in {"MOVSX8", "MOVSX16", "MOVSX32"} => OpField(i) = 11 /\ i.offset > 0
      <4>1. \A u \in BinaryOps : u[3] \in {"MOVSX8", "MOVSX16", "MOVSX32"} => u[1] = 11 /\ u[2] \in {8, 16, 32}
        BY DEF BinaryOps
      <4> DEFINE u == <<OpField(i), i.offset, op>>
      <4>2. u[1] = OpField(i) /\ u[2] = i.offset /\ u[3] = op
        OBVIOUS
      <4> HIDE DEF u
      <4>3. u \in BinaryOps
        BY <2>2 DEF u
      <4> QED
        BY <4>1, <4>2, <4>3
    <3>2. ins.kind = "bin" /\ ins.op = op /\ ins.v = Operand(i) /\ ins.lddw = FALSE
      <4> HIDE DEF is64
      <4> QED
        BY <2>2 DEF BinIns
    <3>3. BinKept(ins)
      BY <2>2, <3>1, <3>2, OperandKept DEF BinKept
    <3> QED
      BY <3>2, <3>3 DEF Kept
  <2> QED
    BY <1>2, <2>1, <2>2, BinShape, ErrorsFail
<1>3. ins = Invalid \/ ins = makeUn(i, groups) \/ ins = makeBin(i, groups)
  BY DEF makeAluOp
<1> QED
  BY <1>1, <1>2, <1>3, ErrorsFail

(* The distance of a conditional jump fits into the offset it came from. *)
Near(at, ins) ==
  ins.kind = "jmp" /\ ins.cond # None => Fits(ins.target - at - 1, OffsetBits)

(* Jumps and calls; a conditional jump is as near as its offset. *)
LEMMA JmpIsKept ==
  ASSUME NEW raw, NEW at \in Nat, NEW i \in Slot, NEW ins, ins = makeJmp(raw, at, i, groups)
  PROVE  Failed(ins) \/ (Kept(ins) /\ (Fits(i.offset, OffsetBits) => Near(at, ins)))
<1>1. ASSUME ins = makeAnyCall(raw, at, i, groups)
      PROVE  Failed(ins) \/ (Kept(ins) /\ Near(at, ins))
  <2>1. ASSUME i.imm \in Usable, ins = makeCall(i.imm)
        PROVE  Failed(ins) \/ (Kept(ins) /\ Near(at, ins))
    <3>1. ins = Thrown \/ (ins.kind = "call" /\ ins.func = i.imm)
      BY <2>1, CallShape
    <3>2. ASSUME ins.kind = "call", ins.func = i.imm
          PROVE  Kept(ins) /\ Near(at, ins)
      <4>1. CallKept(ins)
        BY <2>1, <3>2 DEF CallKept
      <4> QED
        BY <3>2, <4>1 DEF Kept, Near
    <3> QED
      BY <3>1, <3>2, ErrorsFail
  <2>2. makeCallx(i) = Invalid \/ makeCallx(i).kind = "callx"
    BY DEF makeCallx, If
  <2>3. \/ ins = Invalid
        \/ ins.kind \in {"call_local", "callx"}
        \/ i.imm \in Usable /\ ins = makeCall(i.imm)
    BY <1>1, <2>2 DEF makeAnyCall, If
  <2>4. ins.kind \in {"call_local", "callx"} => Kept(ins) /\ Near(at, ins)
    BY DEF Kept, Near
  <2> QED
    BY <2>1, <2>3, <2>4, ErrorsFail
<1>2. ASSUME ins = makeExit(i, groups)
      PROVE  Failed(ins) \/ (Kept(ins) /\ Near(at, ins))
  <2>1. ins = Invalid \/ ins.kind = "exit"
    BY <1>2 DEF makeExit, If
  <2> QED
    BY <2>1, ErrorsFail DEF Kept, Near
<1>3. ASSUME ins = makeGoto(raw, at, i, groups)
      PROVE  Failed(ins) \/ (Kept(ins) /\ Near(at, ins))
  <2>1. ins = Invalid \/ (ins.kind = "jmp" /\ ins.cond = None)
    BY <1>3 DEF makeGoto, If
  <2> QED
    BY <2>1, ErrorsFail DEF Kept, JmpKept, Near
<1>4. ASSUME ins = makeBranch(raw, at, i, groups)
      PROVE  Failed(ins) \/ (Kept(ins) /\ (Fits(i.offset, OffsetBits) => Near(at, ins)))
  <2>1. ins = Invalid \/ (ins.kind = "jmp" /\ ins.cond.right = Operand(i) /\ ins.target = at + 1 + i.offset)
    BY <1>4 DEF makeBranch, Operand
  <2>2. ASSUME ins.kind = "jmp", ins.cond.right = Operand(i), ins.target = at + 1 + i.offset
        PROVE  Kept(ins) /\ (Fits(i.offset, OffsetBits) => Near(at, ins))
    <3>1. JmpKept(ins)
      BY <2>2, OperandKept DEF JmpKept
    <3>2. (at + 1 + i.offset) - at - 1 = i.offset
      BY SlotFacts
    <3> QED
      BY <2>2, <3>1, <3>2 DEF Kept, Near
  <2> QED
    BY <2>1, <2>2, ErrorsFail
<1>5. \/ ins = makeAnyCall(raw, at, i, groups)
      \/ ins = makeExit(i, groups)
      \/ ins = makeGoto(raw, at, i, groups)
      \/ ins = makeBranch(raw, at, i, groups)
  <2> DEFINE n == OpField(i)
  <2>1. ins = CASE n = 8 -> makeAnyCall(raw, at, i, groups)
                [] n = 9 -> makeExit(i, groups)
                [] n = 0 -> makeGoto(raw, at, i, groups)
                [] OTHER -> makeBranch(raw, at, i, groups)
    BY DEF makeJmp
  <2> HIDE DEF n
  <2> QED
    BY <2>1
<1> QED
  BY <1>1, <1>2, <1>3, <1>4, <1>5

-----------------------------------------------------------------------------
(***************************************************************************)
(* KeptInv: what the first decoding establishes of its program.            *)
(***************************************************************************)
(* A shift by 32 comes from a slot that says so, and is not merged. *)
ShiftAt(at, ins) ==
  \A d : \A op \in {"LSH", "RSH", "ARSH"} :
    ins = shift32(d, op) =>
      /\ at + 1 <= Len(insts) /\ ~ IsPair(at)
      /\ insts[at + 1].opcode = ShiftCode[op] /\ insts[at + 1].imm = 32 /\ insts[at + 1].dst = d

(* A merged pair is a move. *)
PairAt(at, ins) == IsPair(at) => ins.kind = "bin" /\ ins.op \in {"MOV", "MOVSX32"}

OffsetsFit == \A s \in DOMAIN insts : Fits(insts[s].offset, OffsetBits)

KeptInv ==
  /\ \A k \in DOMAIN prog : Kept(prog[k].ins) /\ ShiftAt(prog[k].label, prog[k].ins) /\ PairAt(prog[k].label, prog[k].ins)
  /\ first = None => OffsetsFit /\ \A k \in DOMAIN prog : Near(prog[k].label, prog[k].ins)

(* Steps that leave the program alone. *)
LEMMA SameIsKept ==
  ASSUME KeptInv, UNCHANGED <<insts, prog, first>>
  PROVE  KeptInv'
<1>1. \A at, ins : (ShiftAt(at, ins)' <=> ShiftAt(at, ins)) /\ (PairAt(at, ins)' <=> PairAt(at, ins))
  BY DEF ShiftAt, PairAt, IsPair
<1> QED
  BY <1>1 DEF KeptInv, OffsetsFit

(* An instruction is added. *)
LEMMA EmitIsKept ==
  ASSUME DecodeInv, KeptInv, NEW ins, NEW slots, Emit(ins, slots),
         Failed(ins) \/ (Kept(ins) /\ ShiftAt(pc, ins) /\ PairAt(pc, ins) /\ (first = None => Near(pc, ins)))
  PROVE  KeptInv'
<1>0. UNCHANGED <<insts, first>>
  BY DEF Emit
<1>1. CASE Failed(ins)
  <2>1. prog' = prog
    BY <1>1 DEF Emit
  <2> QED
    BY <1>0, <2>1, SameIsKept
<1>2. CASE ~ Failed(ins)
  <2> DEFINE e == [label |-> pc, ins |-> ins]
             n == Len(prog)
  <2>1. prog' = Append(prog, e) /\ e.ins = ins /\ e.label = pc
    BY <1>2 DEF Emit
  <2>2. prog \in Seq({prog[k] : k \in DOMAIN prog})
    BY DEF DecodeInv, ProgOK
  <2> HIDE DEF e
  <2>3. /\ n \in Nat /\ DOMAIN prog = 1..n /\ DOMAIN prog' = 1..(n + 1)
        /\ \A k \in 1..n : prog'[k] = prog[k]
        /\ prog'[n + 1] = e
    BY <2>1, <2>2, AppendFacts
  <2> HIDE DEF n
  <2>4. \A k \in DOMAIN prog' : k \in 1..n \/ k = n + 1
    BY <2>3
  <2>5. \A at, x : (ShiftAt(at, x)' <=> ShiftAt(at, x)) /\ (PairAt(at, x)' <=> PairAt(at, x))
    BY <1>0 DEF ShiftAt, PairAt, IsPair
  <2>6. \A k \in DOMAIN prog' : prog'[k] = e \/ (k \in DOMAIN prog /\ prog'[k] = prog[k])
    BY <2>3, <2>4
  <2>7. \A k \in DOMAIN prog' : /\ Kept(prog'[k].ins) /\ ShiftAt(prog'[k].label, prog'[k].ins)
                               /\ PairAt(prog'[k].label, prog'[k].ins)
    BY <1>2, <2>1, <2>6 DEF KeptInv
  <2>8. first = None => \A k \in DOMAIN prog' : Near(prog'[k].label, prog'[k].ins)
    BY <1>2, <2>1, <2>6 DEF KeptInv
  <2>9. first = None => OffsetsFit'
    BY <1>0 DEF KeptInv, OffsetsFit
  <2> QED
    BY <1>0, <2>5, <2>7, <2>8, <2>9 DEF KeptInv
<1> QED
  BY <1>1, <1>2

(* Only arithmetic makes shifts. *)
LEMMA NoShift ==
  ASSUME NEW ins, ins.kind # "bin" \/ ins.lddw = TRUE \/ ins.op \in {"MOV", "MOVSX32"}, NEW at
  PROVE  ShiftAt(at, ins)
<1>1. \A d : \A op \in {"LSH", "RSH", "ARSH"} :
        shift32(d, op).kind = "bin" /\ shift32(d, op).lddw = FALSE /\ shift32(d, op).op = op
  BY DEF shift32, BinIns
<1> QED
  BY <1>1 DEF ShiftAt

(* Only jumps have distances. *)
LEMMA NotNear ==
  ASSUME NEW ins, ins.kind # "jmp", NEW at
  PROVE  Near(at, ins)
BY DEF Near

(* The four kinds of steps keep KeptInv. *)
LEMMA DecodeLddwIsKept ==
  ASSUME DecodeInv, KeptInv, DecodeLddw
  PROVE  KeptInv'
<1> DEFINE ins == IF HasNext THEN makeLddw(Current, insts[pc + 2], groups) ELSE Invalid
<1>1. Decoding /\ Current.opcode = INST_OP_LDDW_IMM /\ Emit(ins, 2)
  BY DEF DecodeLddw
<1>2. Failed(ins) \/ Kept(ins)
  BY <1>1, CurrentFacts, LddwIsKept, ErrorsFail
<1>3. Failed(ins) \/ Good(ins, 2)
  BY <1>1, LddwIsGood, ErrorsFail
<1>4. PairAt(pc, ins)
  <2>1. Class(Current) # ALU64
    BY <1>1 DEF Class, ALU64, INST_OP_LDDW_IMM
  <2> QED
    BY <1>1, <2>1, PairsAreShifts DEF PairAt
<1>5. ~ Failed(ins) => ins.kind \in {"map_fd", "map_address"} \/ (ins.kind = "bin" /\ ins.lddw = TRUE)
  <2>1. makeLddw(Current, insts[pc + 2], groups) = Invalid
        \/ makeLddw(Current, insts[pc + 2], groups).kind \in {"map_fd", "map_address"}
        \/ (/\ makeLddw(Current, insts[pc + 2], groups).kind = "bin"
            /\ makeLddw(Current, insts[pc + 2], groups).lddw = TRUE)
    BY DEF makeLddw, If, BinIns
  <2> QED
    BY <2>1, ErrorsFail
<1> HIDE DEF ins
<1> QED
  BY <1>1, <1>2, <1>4, <1>5, NoShift, NotNear, EmitIsKept

LEMMA DecodeMemIsKept ==
  ASSUME DecodeInv, KeptInv, DecodeMem
  PROVE  KeptInv'
<1> DEFINE ins == makeMemOp(Current, groups)
<1>1. Decoding /\ Emit(ins, 1)
  BY DEF DecodeMem
<1>2. Failed(ins) \/ Kept(ins)
  BY <1>1, CurrentFacts, MemOpIsKept
<1>3. PairAt(pc, ins)
  <2>1. Class(Current) # ALU64
    BY DEF DecodeMem, LD, LDX, ST, STX, ALU64
  <2> QED
    BY <1>1, <2>1, PairsAreShifts DEF PairAt
<1>4. ins = Invalid \/ ins.kind \in {"packet", "mem", "atomic"}
  <2> DEFINE i == Current
  <2>1. \A r : makePacket(i, groups, r) = Invalid \/ makePacket(i, groups, r).kind = "packet"
    BY DEF makePacket, If
  <2>2. makeMem(i) = Invalid \/ makeMem(i).kind = "mem"
    BY DEF makeMem, If
  <2>3. makeAtomic(i, groups) = Invalid \/ makeAtomic(i, groups).kind = "atomic"
    BY DEF makeAtomic, If
  <2> HIDE DEF i
  <2>4. ins = makeMemOp(i, groups)
    BY DEF i
  <2> HIDE DEF ins
  <2> QED
    BY <2>1, <2>2, <2>3, <2>4 DEF makeMemOp, If
<1> HIDE DEF ins
<1> QED
  BY <1>1, <1>2, <1>3, <1>4, NoShift, NotNear, EmitIsKept, ErrorsFail

LEMMA DecodeJmpIsKept ==
  ASSUME DecodeInv, KeptInv, DecodeJmp
  PROVE  KeptInv'
<1> DEFINE ins == makeJmp(insts, pc, Current, groups)
<1>1. Decoding /\ Emit(ins, 1)
  BY DEF DecodeJmp
<1>2. pc \in Nat /\ Current \in Slot
  BY <1>1, CurrentFacts
<1>3. Failed(ins) \/ (Kept(ins) /\ (Fits(Current.offset, OffsetBits) => Near(pc, ins)))
  BY <1>2, JmpIsKept
<1>4. first = None => Fits(Current.offset, OffsetBits)
  <2>1. pc + 1 \in DOMAIN insts
    <3>1. insts \in Seq(Slot) /\ pc < Len(insts)
      BY <1>1 DEF DecodeInv, InstsOK, Decoding
    <3>2. DOMAIN insts = 1..Len(insts) /\ Len(insts) \in Nat
      BY <3>1, LenProperties
    <3> QED
      BY <1>2, <3>1, <3>2
  <2> QED
    BY <2>1 DEF KeptInv, OffsetsFit, Current
<1>5. PairAt(pc, ins)
  <2>1. Class(Current) # ALU64
    BY DEF DecodeJmp, JMP, JMP32, ALU64
  <2> QED
    BY <1>1, <2>1, PairsAreShifts DEF PairAt
<1>6. Failed(ins) \/ ins.kind # "bin"
  <2> DEFINE i == Current
  <2>1. \A f : makeCall(f) = Thrown \/ makeCall(f).kind = "call"
    BY CallShape
  <2>2. makeCallx(i) = Invalid \/ makeCallx(i).kind = "callx"
    BY DEF makeCallx, If
  <2> HIDE DEF i
  <2>3. Failed(makeAnyCall(insts, pc, i, groups)) \/ makeAnyCall(insts, pc, i, groups).kind # "bin"
    BY <2>1, <2>2, ErrorsFail DEF makeAnyCall, If
  <2>4. Failed(makeExit(i, groups)) \/ makeExit(i, groups).kind # "bin"
    BY ErrorsFail DEF makeExit, If
  <2>5. Failed(makeGoto(insts, pc, i, groups)) \/ makeGoto(insts, pc, i, groups).kind # "bin"
    BY ErrorsFail DEF makeGoto, If
  <2>6. Failed(makeBranch(insts, pc, i, groups)) \/ makeBranch(insts, pc, i, groups).kind # "bin"
    BY ErrorsFail DEF makeBranch
  <2>7. ins = makeJmp(insts, pc, i, groups)
    BY DEF i
  <2> HIDE DEF ins
  <2> QED
    BY <2>3, <2>4, <2>5, <2>6, <2>7 DEF makeJmp
<1> HIDE DEF ins
<1> QED
  BY <1>1, <1>3, <1>4, <1>5, <1>6, NoShift, EmitIsKept

LEMMA DecodeAluIsKept ==
  ASSUME DecodeInv, KeptInv, DecodeAlu
  PROVE  KeptInv'
<1> DEFINE i == Current
           ins == makeAluOp(i, groups)
<1>1. Decoding
  BY DEF DecodeAlu
<1>2. i \in Slot /\ pc \in Nat
  BY <1>1, CurrentFacts
<1>3. Failed(ins) \/ (Kept(ins) /\ AluGood(ins))
  BY <1>2, AluOpIsKept, AluOpIsGood
<1>4. ~ Failed(ins) => ins.kind \in {"bin", "un"}
  BY <1>3 DEF AluGood, BinOK, UnOK
<1>5. ASSUME ~ IsPair(pc), Emit(ins, 1)
      PROVE  KeptInv'
  <2>1. pc + 1 <= Len(insts)
    <3>1. insts \in Seq(Slot) /\ pc < Len(insts)
      BY <1>1 DEF DecodeInv, InstsOK, Decoding
    <3>2. Len(insts) \in Nat
      BY <3>1, LenProperties
    <3> QED
      BY <1>2, <3>1, <3>2
  <2>2. ~ Failed(ins) => ShiftAt(pc, ins)
    <3> SUFFICES ASSUME ~ Failed(ins), NEW d, NEW op \in {"LSH", "RSH", "ARSH"}, ins = shift32(d, op)
                 PROVE  i.opcode = ShiftCode[op] /\ i.imm = 32 /\ i.dst = d
      BY <1>5, <2>1 DEF ShiftAt, Current
    <3> QED
      BY <1>2, ShiftFacts
  <2>3. PairAt(pc, ins)
    BY <1>5 DEF PairAt
  <2> HIDE DEF ins
  <2> QED
    BY <1>3, <1>4, <1>5, <2>2, <2>3, NotNear, EmitIsKept
<1>6. ASSUME NEW m \in MergedMoves(i.dst), Emit(m, 2)
      PROVE  KeptInv'
  <2>1. m.kind = "bin" /\ m.op \in {"MOV", "MOVSX32"} /\ m.v = Reg(i.dst) /\ m.lddw = FALSE
    <3> HIDE DEF i
    <3>1. \A op, is64 : LET b == BinIns(op, i.dst, Reg(i.dst), is64, FALSE)
                        IN  b.kind = "bin" /\ b.op = op /\ b.v = Reg(i.dst) /\ b.lddw = FALSE
      BY DEF BinIns
    <3> QED
      BY <1>6, <3>1 DEF MergedMoves
  <2>2. IsReg(m.v)
    BY <2>1 DEF IsReg, Reg
  <2>3. Kept(m)
    BY <2>1, <2>2 DEF Kept, BinKept
  <2>4. PairAt(pc, m)
    BY <2>1 DEF PairAt
  <2> QED
    BY <1>6, <2>1, <2>3, <2>4, NoShift, NotNear, EmitIsKept
<1>7. ASSUME NEW e, Failed(e), Emit(e, 1)
      PROVE  KeptInv'
  BY <1>7, EmitIsKept
<1> QED
  BY <1>5, <1>6, <1>7, AluSteps

-----------------------------------------------------------------------------
(***************************************************************************)
(* What the encoder writes is read as the instruction it was written for.  *)
(***************************************************************************)
BothBases == {"base32", "base64"} \subseteq groups

(* The fields of an opcode. *)
LEMMA OpcodeFields ==
  ASSUME NEW c \in 0..7, NEW n \in 0..15, NEW s \in {0, 8}, NEW i, i.opcode = c + 16 * n + s
  PROVE  Class(i) = c /\ OpField(i) = n /\ (SrcReg(i) <=> s = 8)
BY DEF Class, OpField, SrcReg

(* The fields of a raw instruction. *)
LEMMA RawFields ==
  ASSUME NEW opcode, NEW dst, NEW src, NEW offset, NEW imm, NEW i, i = Raw(opcode, dst, src, offset, imm)
  PROVE  i.opcode = opcode /\ i.dst = dst /\ i.src = src /\ i.offset = offset /\ i.imm = imm
BY DEF Raw

(* A value that narrows is written to the fields and read from them. *)
LEMMA ValueIsReread ==
  ASSUME NEW v \in Value, Narrows(v), ~ IsReg(v) => v.imm >= 0
  PROVE  /\ IsReg(v) => v = Reg(SrcField(v)) /\ SrcBit(v) = 8 /\ SrcField(v) \in Register /\ ImmField(v) = 0
         /\ ~ IsReg(v) => /\ v = sign_extend(ImmField(v)) /\ v = zero_extend(ImmField(v))
                          /\ SrcBit(v) = 0 /\ SrcField(v) = 0
<1>1. CASE v \in [reg : Register]
  BY <1>1 DEF IsReg, Reg, SrcField, SrcBit, ImmField
<1>2. CASE v \in [imm : Int]
  <2> DEFINE h == 2^(ImmBits - 1)
             w == 2^(2 * ImmBits)
             q == 2^ImmBits
             n == v.imm
  <2>1. ~ IsReg(v) /\ n \in Int /\ v = Imm(n)
    BY <1>2 DEF IsReg, Imm
  <2>2. n \in 0..(h - 1)
    BY <2>1 DEF Narrows, Fits
  <2>3. h \in Nat /\ w \in Nat /\ q \in Nat /\ w >= 2 * h /\ q >= 2 * h
    <3>1. ImmBits - 1 \in Nat /\ (ImmBits - 1) + 1 = ImmBits
      BY DecodeAssumption
    <3>2. 2 * 2^(ImmBits - 1) <= 2^((ImmBits - 1) + 1)
      BY <3>1, PowersDouble
    <3>3. h \in Nat /\ w \in Nat /\ q \in Nat /\ w >= 2 * h
      BY WidthFacts
    <3>4. 2 * h <= q
      BY <3>1, <3>2
    <3> HIDE DEF h, w, q
    <3> QED
      BY <3>3, <3>4
  <2>4. Unsigned(n, 2 * ImmBits) = n % w /\ Unsigned(n, ImmBits) = n % q
    BY DEF Unsigned
  <2> HIDE DEF h, w, q, n
  <2>5. n % w = n /\ n % q = n
    BY <2>2, <2>3
  <2>6. ImmField(v) = n /\ SrcBit(v) = 0 /\ SrcField(v) = 0
    BY <2>1 DEF ImmField, SrcBit, SrcField, n
  <2> QED
    BY <2>1, <2>4, <2>5, <2>6 DEF sign_extend, zero_extend
<1> QED
  BY <1>1, <1>2 DEF Value

(* Signed halves are read as the unsigned ones. *)
LEMMA HalfIsReread ==
  ASSUME NEW n \in 0..(Q - 1)
  PROVE  Unsigned(Signed(n), ImmBits) = n
<1> DEFINE s == Signed(n)
<1>1. s = n - Q \/ s = n
  BY DEF Signed, Q
<1>2. Unsigned(s, ImmBits) = s % Q
  BY DEF Unsigned, Q
<1>3. Q \in Nat /\ Q > 0
  BY QFacts
<1>4. ASSUME s = n - Q PROVE s % Q = n
  <2>1. s = (-1) * Q + n
    BY <1>3, <1>4
  <2>2. -1 \in Int
    OBVIOUS
  <2> HIDE DEF s
  <2> QED
    BY <1>3, <2>1, <2>2, DivMod
<1>5. ASSUME s = n PROVE s % Q = n
  <2>1. s = 0 * Q + n /\ 0 \in Int
    BY <1>3, <1>5
  <2> HIDE DEF s
  <2> QED
    BY <1>3, <2>1, DivMod
<1> QED
  BY <1>1, <1>2, <1>4, <1>5

(* The two slots of an lddw. *)
ReadsAsLddw(m, ins) ==
  Len(m) = 2 /\ m[1].opcode = INST_OP_LDDW_IMM /\ makeLddw(m[1], m[2], groups) = ins

(* The pseudo sources of an lddw: a number, a map, an address. *)
LEMMA LddwSlots ==
  ASSUME BothBases, NEW dst \in Register, NEW type \in {0, 1, 2}, NEW imm, NEW next_imm,
         NEW m, m = Lddw(dst, type, imm, next_imm)
  PROVE  /\ type = 0 => ReadsAsLddw(m, BinIns("MOV", dst, Imm(Unsigned(next_imm, ImmBits) * 2^ImmBits + Unsigned(imm, ImmBits)), TRUE, TRUE))
         /\ type = 1 /\ next_imm = 0 => ReadsAsLddw(m, [kind |-> "map_fd", dst |-> dst, mapfd |-> imm])
         /\ type = 2 => ReadsAsLddw(m, [kind |-> "map_address", dst |-> dst, mapfd |-> imm, offset |-> next_imm])
<1> DEFINE a == m[1]
           b == m[2]
<1>1. a = Raw(INST_OP_LDDW_IMM, dst, type, 0, imm) /\ b = Raw(0, 0, 0, 0, next_imm) /\ Len(m) = 2
  BY DEF Lddw
<1>2. /\ a.opcode = INST_OP_LDDW_IMM /\ a.dst = dst /\ a.src = type /\ a.offset = 0 /\ a.imm = imm
      /\ b.opcode = 0 /\ b.dst = 0 /\ b.src = 0 /\ b.offset = 0 /\ b.imm = next_imm
  BY <1>1, RawFields
<1>3. "base64" \in groups /\ dst <= R10
  BY DEF BothBases, Register, R10
<1> HIDE DEF a, b
<1>4. type = 0 => makeLddw(a, b, groups)
                    = BinIns("MOV", a.dst, Imm(Unsigned(b.imm, ImmBits) * 2^ImmBits + Unsigned(a.imm, ImmBits)), TRUE, TRUE)
  BY <1>2, <1>3 DEF makeLddw
<1>5. type = 1 /\ next_imm = 0 => makeLddw(a, b, groups) = [kind |-> "map_fd", dst |-> a.dst, mapfd |-> a.imm]
  BY <1>2, <1>3 DEF makeLddw, If
<1>6. type = 2 => makeLddw(a, b, groups) = [kind |-> "map_address", dst |-> a.dst, mapfd |-> a.imm, offset |-> b.imm]
  BY <1>2, <1>3 DEF makeLddw
<1> QED
  BY <1>1, <1>2, <1>4, <1>5, <1>6 DEF a, b, ReadsAsLddw

(* Instructions of two slots are read again. *)
LEMMA LddwIsReread ==
  ASSUME NEW ins, InsOK(ins), Kept(ins), size(ins) = 2, BothBases, NEW at
  PROVE  ReadsAsLddw(marshal(ins, at), ins)
<1> DEFINE m == marshal(ins, at)
<1> SUFFICES ReadsAsLddw(m, ins)
  OBVIOUS
<1>2. CASE ins.kind = "bin"
  <2>1. BinOK(ins)
    BY <1>2 DEF InsOK, UnOK, MapOK, MemOK, PacketOK, AtomicOK, CallOK, JmpOK
  <2>2. ins.lddw /\ ins.lddw = TRUE
    BY <1>2, <2>1, BinFacts DEF BinOK
  <2>3. ins.op = "MOV" /\ ins.is64 = TRUE
    BY <1>2, <2>1, <2>2 DEF Kept, BinKept, BinOK
  <2>4. PICK hi \in 0..(Q - 1), lo \in 0..(Q - 1) : ins.v.imm = hi * Q + lo
    BY <1>2, <2>2 DEF Kept, BinKept
  <2> DEFINE n == hi * Q + lo
  <2>5. ins.dst \in Register /\ ins.v = Imm(n)
    <3>1. ins.dst \in Register /\ ins.v \in [imm : Int]
      BY <2>1, <2>2 DEF BinOK
    <3> QED
      BY <2>4, <3>1 DEF Imm
  <2>6. ins = BinIns("MOV", ins.dst, Imm(n), TRUE, TRUE)
    <3> HIDE DEF n
    <3>1. ins \in [kind : {"bin"}, op : DOMAIN BinNibble, dst : Register, v : Value, is64 : BOOLEAN, lddw : BOOLEAN]
      BY <2>1 DEF BinOK
    <3>2. ins = [kind |-> ins.kind, op |-> ins.op, dst |-> ins.dst, v |-> ins.v, is64 |-> ins.is64, lddw |-> ins.lddw]
      BY <3>1
    <3> QED
      BY <1>2, <2>2, <2>3, <2>5, <3>2 DEF BinIns
  <2>7. n % Q = lo /\ n \div Q = hi
    <3>1. hi \in Int
      OBVIOUS
    <3> HIDE DEF n
    <3>2. n = hi * Q + lo
      BY DEF n
    <3> QED
      BY <3>1, <3>2, QFacts, DivMod
  <2>8. marshal(ins, at) = Lddw(ins.dst, 0, Signed(lo), Signed(hi))
    <3>1. marshal(ins, at) = marshalBin(ins)
      BY <1>2 DEF marshal
    <3>2. marshalBin(ins) = Lddw(ins.dst, 0, Signed(ins.v.imm % Q), Signed(ins.v.imm \div Q))
      BY <2>2, Zenon DEF marshalBin, Q
    <3> QED
      BY <2>4, <2>7, <3>1, <3>2
  <2>9. Unsigned(Signed(hi), ImmBits) = hi /\ Unsigned(Signed(lo), ImmBits) = lo
    BY HalfIsReread
  <2>10. BinIns("MOV", ins.dst, Imm(Unsigned(Signed(hi), ImmBits) * 2^ImmBits + Unsigned(Signed(lo), ImmBits)), TRUE, TRUE) = ins
    BY <2>6, <2>9, Zenon DEF Q
  <2> HIDE DEF m
  <2>11. m = Lddw(ins.dst, 0, Signed(lo), Signed(hi))
    BY <2>8 DEF m
  <2>12. ReadsAsLddw(m, BinIns("MOV", ins.dst, Imm(Unsigned(Signed(hi), ImmBits) * 2^ImmBits + Unsigned(Signed(lo), ImmBits)), TRUE, TRUE))
    <3>1. 0 \in {0, 1, 2}
      OBVIOUS
    <3> QED
      BY <2>5, <2>11, <3>1, LddwSlots, Zenon
  <2> QED
    BY <2>10, <2>12, Zenon
<1>3. CASE ins.kind = "map_fd"
  <2>1. ins \in [kind : {"map_fd"}, dst : Register, mapfd : Int]
    BY <1>3 DEF InsOK, BinOK, UnOK, MapOK, MemOK, PacketOK, AtomicOK, CallOK, JmpOK
  <2>2. marshal(ins, at) = Lddw(ins.dst, 1, ins.mapfd, 0)
    BY <1>3 DEF marshal
  <2>3. ins.dst \in Register /\ ins = [kind |-> "map_fd", dst |-> ins.dst, mapfd |-> ins.mapfd]
    BY <2>1
  <2> HIDE DEF m
  <2>4. 1 \in {0, 1, 2} /\ 2 \in {0, 1, 2}
    OBVIOUS
  <2> QED
    BY <2>2, <2>3, <2>4, LddwSlots, Zenon DEF m
<1>4. CASE ins.kind = "map_address"
  <2>1. ins \in [kind : {"map_address"}, dst : Register, mapfd : Int, offset : Int]
    BY <1>4 DEF InsOK, BinOK, UnOK, MapOK, MemOK, PacketOK, AtomicOK, CallOK, JmpOK
  <2>2. marshal(ins, at) = Lddw(ins.dst, 2, ins.mapfd, ins.offset)
    BY <1>4 DEF marshal
  <2>3. ins.dst \in Register /\ ins = [kind |-> "map_address", dst |-> ins.dst, mapfd |-> ins.mapfd, offset |-> ins.offset]
    BY <2>1
  <2> HIDE DEF m
  <2>4. 1 \in {0, 1, 2} /\ 2 \in {0, 1, 2}
    OBVIOUS
  <2> QED
    BY <2>2, <2>3, <2>4, LddwSlots, Zenon DEF m
<1> QED
  BY <1>2, <1>3, <1>4 DEF size

(* The one slot of an access to memory. *)
ReadsAsMem(m, ins) ==
  /\ Len(m) = 1 /\ Class(m[1]) \in {LD, LDX, ST, STX} /\ m[1].opcode \notin {0, INST_OP_LDDW_IMM}
  /\ makeMemOp(m[1], groups) = ins

(* The opcode of a memory access. *)
LEMMA MemOpcode ==
  ASSUME NEW c \in 0..3, NEW width \in {1, 2, 4, 8}, NEW mode \in 1..6,
         NEW i, i.opcode = 32 * mode + width_to_opcode(width) + c
  PROVE  Class(i) = c /\ Mode(i) = mode /\ opcode_to_width(i) = width /\ i.opcode \notin {0, INST_OP_LDDW_IMM}
<1> DEFINE w == width_to_opcode(width)
<1>1. (width = 1 /\ w = 16) \/ (width = 2 /\ w = 8) \/ (width = 4 /\ w = 0) \/ (width = 8 /\ w = 24)
  BY DEF width_to_opcode
<1>2. i.opcode = 32 * mode + w + c
  OBVIOUS
<1> HIDE DEF w
<1>3. Class(i) = c /\ Mode(i) = mode /\ i.opcode \notin {0, INST_OP_LDDW_IMM}
  BY <1>1, <1>2 DEF Class, Mode, INST_OP_LDDW_IMM
<1> DEFINE x == ((i.opcode \div 8) % 4) + 1
<1>4. (width = 1 /\ x = 3) \/ (width = 2 /\ x = 2) \/ (width = 4 /\ x = 1) \/ (width = 8 /\ x = 4)
  BY <1>1, <1>2
<1>5. opcode_to_width(i) = <<4, 2, 1, 8>>[x]
  BY DEF opcode_to_width
<1> HIDE DEF x
<1>6. opcode_to_width(i) = width
  BY <1>4, <1>5
<1> QED
  BY <1>3, <1>6

(* makeMemOp, by the mode. *)
LEMMA MemOpModes ==
  ASSUME BothBases, NEW i, i.dst \in Register, i.src \in Register
  PROVE  /\ Mode(i) = 1 /\ i.src = 0 => makeMemOp(i, groups) = makePacket(i, groups, None)
         /\ Mode(i) = 2 => makeMemOp(i, groups) = makePacket(i, groups, Reg(i.src))
         /\ Mode(i) = 3 => makeMemOp(i, groups) = makeMem(i)
         /\ Mode(i) = 6 => makeMemOp(i, groups) = makeAtomic(i, groups)
<1> DEFINE bad == i.dst > R10 \/ i.src > R10 \/ (IF opcode_to_width(i) = 8 THEN "base64" ELSE "base32") \notin groups
           x == Mode(i)
<1>1. ~ bad
  BY DEF BothBases, Register, R10
<1>2. makeMemOp(i, groups) =
        IF bad THEN Invalid
        ELSE CASE x = 1 -> If(i.src = 0, makePacket(i, groups, None))
               [] x = 2 -> makePacket(i, groups, Reg(i.src))
               [] x = 3 -> makeMem(i)
               [] x = 6 -> makeAtomic(i, groups)
               [] OTHER -> Invalid
  BY DEF makeMemOp
<1> HIDE DEF bad, x
<1>3. x = 1 => makeMemOp(i, groups) = If(i.src = 0, makePacket(i, groups, None))
  BY <1>1, <1>2
<1>4. x = 2 => makeMemOp(i, groups) = makePacket(i, groups, Reg(i.src))
  BY <1>1, <1>2
<1>5. x = 3 => makeMemOp(i, groups) = makeMem(i)
  BY <1>1, <1>2
<1>6. x = 6 => makeMemOp(i, groups) = makeAtomic(i, groups)
  BY <1>1, <1>2
<1> QED
  BY <1>3, <1>4, <1>5, <1>6 DEF x, If

(* makeMem, by the class. *)
LEMMA MemClasses ==
  ASSUME NEW i
  PROVE  /\ Class(i) = 1 /\ i.dst # R10 /\ i.imm = 0 =>
              makeMem(i) = [kind |-> "mem", is_load |-> TRUE, access |-> Deref(opcode_to_width(i), i.src, i.offset), value |-> Reg(i.dst)]
         /\ Class(i) = 2 /\ i.src = 0 =>
              makeMem(i) = [kind |-> "mem", is_load |-> FALSE, access |-> Deref(opcode_to_width(i), i.dst, i.offset), value |-> zero_extend(i.imm)]
         /\ Class(i) = 3 /\ i.imm = 0 =>
              makeMem(i) = [kind |-> "mem", is_load |-> FALSE, access |-> Deref(opcode_to_width(i), i.dst, i.offset), value |-> Reg(i.src)]
<1> DEFINE isLoad == Class(i) = LDX
           isImm == Class(i) = ST
           isLd == Class(i) = LD
<1>1. /\ Class(i) = 1 => isLoad = TRUE /\ isImm = FALSE /\ isLd = FALSE
      /\ Class(i) = 2 => isLoad = FALSE /\ isImm = TRUE /\ isLd = FALSE
      /\ Class(i) = 3 => isLoad = FALSE /\ isImm = FALSE /\ isLd = FALSE
  BY DEF LDX, ST, LD
<1>2. makeMem(i) =
        If(~ isLd /\ (isLoad => i.dst # R10) /\ (IF isImm THEN i.src = 0 ELSE i.imm = 0),
           [kind |-> "mem", is_load |-> isLoad,
            access |-> Deref(opcode_to_width(i), IF isLoad THEN i.src ELSE i.dst, i.offset),
            value |-> IF isLoad THEN Reg(i.dst) ELSE IF isImm THEN zero_extend(i.imm) ELSE Reg(i.src)])
  BY Zenon DEF makeMem
<1> HIDE DEF isLoad, isImm, isLd
<1> QED
  BY <1>1, <1>2 DEF If

(* Loads, stores, packet accesses and atomic operations are read again. *)
LEMMA MemIsReread ==
  ASSUME NEW ins, MemOK(ins), MemKept(ins), RegistersOK(ins), Narrows(ins.value), BothBases
  PROVE  ReadsAsMem(marshalMem(ins), ins)
<1> DEFINE m == marshalMem(ins)
           i == m[1]
           w == ins.access.width
           b == ins.access.basereg
           o == ins.access.offset
           v == ins.value
<1>1. /\ ins.kind = "mem" /\ w \in {1, 2, 4, 8} /\ b \in Register /\ o \in Int /\ v \in Value
      /\ ins.is_load \in BOOLEAN /\ (ins.is_load => v \in [reg : Register])
  BY DEF MemOK, Access
<1>2. ins = [kind |-> "mem", is_load |-> ins.is_load, access |-> Deref(w, b, o), value |-> v]
  <2>1. ins = [kind |-> ins.kind, is_load |-> ins.is_load, access |-> ins.access, value |-> ins.value]
    BY DEF MemOK
  <2>2. ins.access = Deref(w, b, o)
    BY DEF MemOK, Access, Deref
  <2> HIDE DEF w, b, o
  <2> QED
    BY <1>1, <2>1, <2>2
<1>3. CASE ins.is_load
  <2>1. v = Reg(v.reg) /\ v.reg \in Register /\ v.reg # R10
    <3>1. v.reg \in Register /\ v = Reg(v.reg)
      BY <1>1, <1>3 DEF Reg
    <3>2. Writes(ins) = {v.reg}
      BY <1>1, <1>3, MemFacts
    <3> QED
      BY <1>1, <3>1, <3>2 DEF RegistersOK
  <2>2. m = <<Raw(96 + width_to_opcode(w) + LDX, v.reg, b, o, 0)>>
    BY <1>3 DEF marshalMem
  <2>3. Len(m) = 1 /\ i = Raw(96 + width_to_opcode(w) + LDX, v.reg, b, o, 0)
    <3> HIDE DEF m
    <3> QED
      BY <2>2
  <2> HIDE DEF i, w, b, o, v
  <2>4. i.opcode = 32 * 3 + width_to_opcode(w) + 1 /\ i.dst = v.reg /\ i.src = b /\ i.offset = o /\ i.imm = 0
    <3>1. i.opcode = 96 + width_to_opcode(w) + LDX /\ i.dst = v.reg /\ i.src = b /\ i.offset = o /\ i.imm = 0
      BY <2>3, RawFields
    <3> QED
      BY <3>1 DEF LDX
  <2>5. Class(i) = 1 /\ Mode(i) = 3 /\ opcode_to_width(i) = w /\ i.opcode \notin {0, INST_OP_LDDW_IMM}
    <3>1. 1 \in 0..3 /\ 3 \in 1..6
      OBVIOUS
    <3> QED
      BY <1>1, <2>4, <3>1, MemOpcode
  <2>6. makeMemOp(i, groups) = makeMem(i)
    BY <1>1, <2>1, <2>4, <2>5, MemOpModes
  <2>7. makeMem(i) = [kind |-> "mem", is_load |-> TRUE, access |-> Deref(w, b, o), value |-> Reg(v.reg)]
    BY <2>1, <2>4, <2>5, MemClasses
  <2>8. ins.is_load = TRUE
    BY <1>1, <1>3
  <2>9. makeMemOp(i, groups) = ins
    BY <1>2, <2>1, <2>6, <2>7, <2>8
  <2> QED
    BY <2>3, <2>5, <2>9 DEF ReadsAsMem, i, LD, LDX, ST, STX
<1>4. CASE ~ ins.is_load
  <2> DEFINE c == IF IsReg(v) THEN 3 ELSE 2
  <2>1. m = <<Raw(96 + width_to_opcode(w) + ST + (IF IsReg(v) THEN 1 ELSE 0), b, SrcField(v), o, ImmField(v))>>
    BY <1>4 DEF marshalMem
  <2>2. Len(m) = 1 /\ i = Raw(96 + width_to_opcode(w) + ST + (IF IsReg(v) THEN 1 ELSE 0), b, SrcField(v), o, ImmField(v))
    <3> HIDE DEF m
    <3> QED
      BY <2>1
  <2>3. /\ IsReg(v) => v = Reg(SrcField(v)) /\ SrcField(v) \in Register /\ ImmField(v) = 0
        /\ ~ IsReg(v) => v = zero_extend(ImmField(v)) /\ SrcField(v) = 0
    BY <1>1, <1>4, ValueIsReread DEF MemKept
  <2> HIDE DEF i, w, b, o, v
  <2>4. i.opcode = 32 * 3 + width_to_opcode(w) + c /\ i.dst = b /\ i.src = SrcField(v) /\ i.offset = o /\ i.imm = ImmField(v)
    <3>1. /\ i.opcode = 96 + width_to_opcode(w) + ST + (IF IsReg(v) THEN 1 ELSE 0)
          /\ i.dst = b /\ i.src = SrcField(v) /\ i.offset = o /\ i.imm = ImmField(v)
      BY <2>2, RawFields
    <3>2. width_to_opcode(w) \in Nat
      BY <1>1, WidthBits
    <3> QED
      BY <3>1, <3>2 DEF ST
  <2>5. Class(i) = c /\ Mode(i) = 3 /\ opcode_to_width(i) = w /\ i.opcode \notin {0, INST_OP_LDDW_IMM}
    <3>1. c \in 0..3 /\ 3 \in 1..6
      OBVIOUS
    <3> HIDE DEF c
    <3> QED
      BY <1>1, <2>4, <3>1, MemOpcode
  <2>6. i.dst \in Register /\ i.src \in Register
    BY <1>1, <2>3, <2>4 DEF Register, R10
  <2>7. makeMemOp(i, groups) = makeMem(i)
    BY <2>5, <2>6, MemOpModes
  <2>8. makeMem(i) = [kind |-> "mem", is_load |-> FALSE, access |-> Deref(w, b, o),
                      value |-> IF IsReg(v) THEN Reg(SrcField(v)) ELSE zero_extend(ImmField(v))]
    <3>1. CASE IsReg(v)
      BY <2>3, <2>4, <2>5, <3>1, MemClasses
    <3>2. CASE ~ IsReg(v)
      BY <2>3, <2>4, <2>5, <3>2, MemClasses
    <3> QED
      BY <3>1, <3>2
  <2>9. ins.is_load = FALSE
    BY <1>1, <1>4
  <2>10. makeMemOp(i, groups) = ins
    BY <1>2, <2>3, <2>7, <2>8, <2>9
  <2> QED
    BY <2>2, <2>5, <2>10 DEF ReadsAsMem, i, LD, LDX, ST, STX
<1> QED
  BY <1>3, <1>4

LEMMA PacketIsReread ==
  ASSUME NEW ins, PacketOK(ins), Needs(ins) \subseteq groups, BothBases
  PROVE  ReadsAsMem(marshalPacket(ins), ins)
<1> DEFINE m == marshalPacket(ins)
           i == m[1]
           w == ins.width
           r == ins.regoffset
<1>1. /\ ins.kind = "packet" /\ w \in {1, 2, 4} /\ ins.offset \in Int
      /\ r = None \/ r \in [reg : Register]
      /\ ins = [kind |-> "packet", width |-> w, offset |-> ins.offset, regoffset |-> r]
  BY DEF PacketOK
<1>2. "packet" \in groups
  BY <1>1, PacketFacts
<1>3. CASE r = None
  <2>1. m = <<Raw(32 + width_to_opcode(w), 0, 0, 0, ins.offset)>>
    BY <1>3 DEF marshalPacket
  <2>2. Len(m) = 1 /\ i = Raw(32 + width_to_opcode(w), 0, 0, 0, ins.offset)
    <3> HIDE DEF m
    <3> QED
      BY <2>1
  <2> HIDE DEF i, w, r
  <2>3. i.opcode = 32 * 1 + width_to_opcode(w) + 0 /\ i.dst = 0 /\ i.src = 0 /\ i.offset = 0 /\ i.imm = ins.offset
    <3>1. i.opcode = 32 + width_to_opcode(w) /\ i.dst = 0 /\ i.src = 0 /\ i.offset = 0 /\ i.imm = ins.offset
      BY <2>2, RawFields
    <3>2. width_to_opcode(w) \in Nat
      BY <1>1, WidthBits
    <3> QED
      BY <3>1, <3>2
  <2>4. Class(i) = 0 /\ Mode(i) = 1 /\ opcode_to_width(i) = w /\ i.opcode \notin {0, INST_OP_LDDW_IMM}
    <3>1. 0 \in 0..3 /\ 1 \in 1..6
      OBVIOUS
    <3> QED
      BY <1>1, <2>3, <3>1, MemOpcode
  <2>5. 0 \in Register
    BY DEF Register, R10
  <2>6. makeMemOp(i, groups) = makePacket(i, groups, None)
    BY <2>3, <2>4, <2>5, MemOpModes
  <2>7. makePacket(i, groups, None) = [kind |-> "packet", width |-> w, offset |-> ins.offset, regoffset |-> None]
    BY <1>1, <1>2, <2>3, <2>4 DEF makePacket, If, LD
  <2>8. makeMemOp(i, groups) = ins
    BY <1>1, <1>3, <2>6, <2>7
  <2> QED
    BY <2>2, <2>4, <2>8 DEF ReadsAsMem, i, LD, LDX, ST, STX
<1>4. CASE r # None
  <2>0. r \in [reg : Register]
    BY <1>1, <1>4
  <2>1. m = <<Raw(64 + width_to_opcode(w), 0, r.reg, 0, ins.offset)>>
    BY <1>4 DEF marshalPacket
  <2>2. Len(m) = 1 /\ i = Raw(64 + width_to_opcode(w), 0, r.reg, 0, ins.offset)
    <3> HIDE DEF m
    <3> QED
      BY <2>1
  <2> HIDE DEF i, w, r
  <2>3. i.opcode = 32 * 2 + width_to_opcode(w) + 0 /\ i.dst = 0 /\ i.src = r.reg /\ i.offset = 0 /\ i.imm = ins.offset
    <3>1. i.opcode = 64 + width_to_opcode(w) /\ i.dst = 0 /\ i.src = r.reg /\ i.offset = 0 /\ i.imm = ins.offset
      BY <2>2, RawFields
    <3>2. width_to_opcode(w) \in Nat
      BY <1>1, WidthBits
    <3> QED
      BY <3>1, <3>2
  <2>4. Class(i) = 0 /\ Mode(i) = 2 /\ opcode_to_width(i) = w /\ i.opcode \notin {0, INST_OP_LDDW_IMM}
    <3>1. 0 \in 0..3 /\ 2 \in 1..6
      OBVIOUS
    <3> QED
      BY <1>1, <2>3, <3>1, MemOpcode
  <2>5. 0 \in Register /\ r.reg \in Register /\ r = Reg(r.reg)
    BY <2>0 DEF Register, R10, Reg
  <2>6. makeMemOp(i, groups) = makePacket(i, groups, r)
    BY <2>3, <2>4, <2>5, MemOpModes
  <2>7. makePacket(i, groups, r) = [kind |-> "packet", width |-> w, offset |-> ins.offset, regoffset |-> r]
    BY <1>1, <1>2, <2>3, <2>4 DEF makePacket, If, LD
  <2>8. makeMemOp(i, groups) = ins
    BY <1>1, <2>6, <2>7
  <2> QED
    BY <2>2, <2>4, <2>8 DEF ReadsAsMem, i, LD, LDX, ST, STX
<1> QED
  BY <1>3, <1>4

LEMMA AtomicIsReread ==
  ASSUME NEW ins, AtomicOK(ins), AtomicKept(ins), Needs(ins) \subseteq groups, BothBases, NEW at
  PROVE  ReadsAsMem(marshal(ins, at), ins)
<1> DEFINE m == marshal(ins, at)
           i == m[1]
           w == ins.access.width
           b == ins.access.basereg
           o == ins.access.offset
           f == IF ins.fetch THEN 1 ELSE 0
           x == AtomicImm[ins.op]
<1>1. /\ ins.kind = "atomic" /\ w \in {4, 8} /\ b \in Register /\ o \in Int /\ ins.valreg \in Register
      /\ ins.fetch \in BOOLEAN /\ ins.op \in DOMAIN AtomicImm
  BY DEF AtomicOK, AtomicKept, Access
<1>2. ins = [kind |-> "atomic", op |-> ins.op, fetch |-> ins.fetch, access |-> Deref(w, b, o), valreg |-> ins.valreg]
  <2>1. ins = [kind |-> ins.kind, op |-> ins.op, fetch |-> ins.fetch, access |-> ins.access, valreg |-> ins.valreg]
    BY DEF AtomicOK
  <2>2. ins.access = Deref(w, b, o)
    BY DEF AtomicOK, Access, Deref
  <2> HIDE DEF w, b, o
  <2> QED
    BY <1>1, <2>1, <2>2
<1>3. (IF w = 8 THEN "atomic64" ELSE "atomic32") \in groups
  BY <1>1, AtomicFacts
<1>4. x \in {0, 64, 80, 160, 224, 240} /\ getAtomicOp[x] = ins.op /\ x \in DOMAIN getAtomicOp
  <2>1. /\ ins.op \in {"ADD", "OR", "AND", "XOR", "XCHG", "CMPXCHG"}
        /\ ins.op = "ADD" => x = 0
        /\ ins.op = "OR" => x = 64
        /\ ins.op = "AND" => x = 80
        /\ ins.op = "XOR" => x = 160
        /\ ins.op = "XCHG" => x = 224
        /\ ins.op = "CMPXCHG" => x = 240
    BY <1>1 DEF AtomicImm
  <2>2. /\ getAtomicOp[0] = "ADD" /\ getAtomicOp[64] = "OR" /\ getAtomicOp[80] = "AND"
        /\ getAtomicOp[160] = "XOR" /\ getAtomicOp[224] = "XCHG" /\ getAtomicOp[240] = "CMPXCHG"
    BY DEF getAtomicOp
  <2>3. DOMAIN getAtomicOp = {0, 64, 80, 160, 224, 240}
    BY DEF getAtomicOp
  <2> HIDE DEF x
  <2> QED
    BY <2>1, <2>2, <2>3
<1>5. m = <<Raw(STX + 192 + width_to_opcode(w), b, ins.valreg, o, x + f)>>
  BY <1>1 DEF marshal
<1>6. Len(m) = 1 /\ i = Raw(STX + 192 + width_to_opcode(w), b, ins.valreg, o, x + f)
  <2> HIDE DEF m, x, f
  <2> QED
    BY <1>5
<1>7. f \in {0, 1} /\ (f = 1 <=> ins.fetch)
  OBVIOUS
<1> HIDE DEF i, w, b, o, x, f
<1>8. i.opcode = 32 * 6 + width_to_opcode(w) + 3 /\ i.dst = b /\ i.src = ins.valreg /\ i.offset = o /\ i.imm = x + f
  <2>1. i.opcode = STX + 192 + width_to_opcode(w) /\ i.dst = b /\ i.src = ins.valreg /\ i.offset = o /\ i.imm = x + f
    BY <1>6, RawFields
  <2>2. width_to_opcode(w) \in Nat
    BY <1>1, WidthBits
  <2> QED
    BY <2>1, <2>2 DEF STX
<1>9. Class(i) = 3 /\ Mode(i) = 6 /\ opcode_to_width(i) = w /\ i.opcode \notin {0, INST_OP_LDDW_IMM}
  <2>1. 3 \in 0..3 /\ 6 \in 1..6 /\ w \in {1, 2, 4, 8}
    BY <1>1
  <2> QED
    BY <1>8, <2>1, MemOpcode
<1>10. makeMemOp(i, groups) = makeAtomic(i, groups)
  BY <1>1, <1>8, <1>9, MemOpModes
<1>11. i.imm % 2 = f /\ i.imm - (i.imm % 2) = x
  BY <1>4, <1>7, <1>8
<1>12. makeAtomic(i, groups) = [kind |-> "atomic", op |-> ins.op, fetch |-> (i.imm % 2 = 1), access |-> Deref(w, b, o), valreg |-> ins.valreg]
  <2>1. ins.op \in {"XCHG", "CMPXCHG"} => i.imm % 2 = 1
    BY <1>7, <1>11 DEF AtomicKept
  <2> QED
    BY <1>1, <1>3, <1>4, <1>8, <1>9, <1>11, <2>1 DEF makeAtomic, If, STX
<1>13. (i.imm % 2 = 1) = ins.fetch
  BY <1>1, <1>7, <1>11
<1>14. makeMemOp(i, groups) = ins
  BY <1>2, <1>10, <1>12, <1>13
<1> QED
  BY <1>6, <1>9, <1>14 DEF ReadsAsMem, i, LD, LDX, ST, STX

(* The one slot of arithmetic. *)
ReadsAsAlu(m, ins) ==
  /\ Len(m) = 1 /\ Class(m[1]) \in {ALU, ALU64} /\ m[1].opcode # 0
  /\ makeAluOp(m[1], groups) = ins

(* The table of operations, from the encoder's side. *)
LEMMA BinCodes ==
  ASSUME NEW op \in DOMAIN BinNibble
  PROVE  /\ <<BinNibble[op], BinOffset(op), op>> \in BinaryOps
         /\ BinNibble[op] \in 0..12 /\ BinNibble[op] \notin {8, 13}
         /\ BinNibble[op] \in {2, 3, 9} => op \in {"MUL", "UDIV", "SDIV", "UMOD", "SMOD"}
         /\ BinNibble[op] = 11 /\ BinOffset(op) > 0 => op \in {"MOVSX8", "MOVSX16", "MOVSX32"}
         /\ \A o : <<BinNibble[op], BinOffset(op), o>> \in BinaryOps => o = op
<1> DEFINE n == BinNibble[op]
           f == BinOffset(op)
<1>1. op \in {"ADD", "SUB", "MUL", "SDIV", "UDIV", "OR", "AND", "LSH", "RSH", "SMOD", "UMOD", "XOR", "MOV",
              "MOVSX8", "MOVSX16", "MOVSX32", "ARSH"}
  BY DEF BinNibble
<1>3. /\ (op = "ADD" => n = 0) /\ (op = "SUB" => n = 1) /\ (op = "MUL" => n = 2) /\ (op = "SDIV" => n = 3)
      /\ (op = "UDIV" => n = 3) /\ (op = "OR" => n = 4) /\ (op = "AND" => n = 5) /\ (op = "LSH" => n = 6)
      /\ (op = "RSH" => n = 7) /\ (op = "SMOD" => n = 9) /\ (op = "UMOD" => n = 9) /\ (op = "XOR" => n = 10)
      /\ (op = "MOV" => n = 11) /\ (op = "MOVSX8" => n = 11) /\ (op = "MOVSX16" => n = 11)
      /\ (op = "MOVSX32" => n = 11) /\ (op = "ARSH" => n = 12)
  BY DEF BinNibble
<1>4. /\ op \in {"SDIV", "SMOD"} => f = 1
      /\ op = "MOVSX8" => f = 8
      /\ op = "MOVSX16" => f = 16
      /\ op = "MOVSX32" => f = 32
      /\ op \notin {"SDIV", "SMOD", "MOVSX8", "MOVSX16", "MOVSX32"} => f = 0
  BY DEF BinOffset
<1> HIDE DEF n, f
<1>5. <<n, f, op>> \in BinaryOps
  BY <1>1, <1>3, <1>4 DEF BinaryOps
<1>6. /\ n \in 0..12 /\ n \notin {8, 13}
      /\ n \in {2, 3, 9} => op \in {"MUL", "UDIV", "SDIV", "UMOD", "SMOD"}
      /\ n = 11 /\ f > 0 => op \in {"MOVSX8", "MOVSX16", "MOVSX32"}
  BY <1>1, <1>3, <1>4
<1>7. ASSUME NEW o, <<n, f, o>> \in BinaryOps
      PROVE  o = op
  <2> DEFINE u == <<n, f, o>>
  <2>1. u[1] = n /\ u[2] = f /\ u[3] = o
    OBVIOUS
  <2>2. u \in BinaryOps
    BY <1>7
  <2> HIDE DEF u
  <2>3. \A x \in BinaryOps :
          \/ x[1] = 0 /\ x[2] = 0 /\ x[3] = "ADD"
          \/ x[1] = 1 /\ x[2] = 0 /\ x[3] = "SUB"
          \/ x[1] = 2 /\ x[2] = 0 /\ x[3] = "MUL"
          \/ x[1] = 3 /\ x[2] = 0 /\ x[3] = "UDIV"
          \/ x[1] = 3 /\ x[2] = 1 /\ x[3] = "SDIV"
          \/ x[1] = 4 /\ x[2] = 0 /\ x[3] = "OR"
          \/ x[1] = 5 /\ x[2] = 0 /\ x[3] = "AND"
          \/ x[1] = 6 /\ x[2] = 0 /\ x[3] = "LSH"
          \/ x[1] = 7 /\ x[2] = 0 /\ x[3] = "RSH"
          \/ x[1] = 9 /\ x[2] = 0 /\ x[3] = "UMOD"
          \/ x[1] = 9 /\ x[2] = 1 /\ x[3] = "SMOD"
          \/ x[1] = 10 /\ x[2] = 0 /\ x[3] = "XOR"
          \/ x[1] = 11 /\ x[2] = 0 /\ x[3] = "MOV"
          \/ x[1] = 11 /\ x[2] = 8 /\ x[3] = "MOVSX8"
          \/ x[1] = 11 /\ x[2] = 16 /\ x[3] = "MOVSX16"
          \/ x[1] = 11 /\ x[2] = 32 /\ x[3] = "MOVSX32"
          \/ x[1] = 12 /\ x[2] = 0 /\ x[3] = "ARSH"
    BY DEF BinaryOps
  <2> QED
    BY <1>1, <1>3, <1>4, <2>1, <2>2, <2>3
<1> QED
  BY <1>5, <1>6, <1>7 DEF n, f

(* Arithmetic is read again. *)
LEMMA BinIsReread ==
  ASSUME NEW ins, BinOK(ins), BinKept(ins), ~ ins.lddw, RegistersOK(ins), Narrows(ins.v),
         Needs(ins) \subseteq groups, BothBases
  PROVE  ReadsAsAlu(marshalBin(ins), ins)
<1> DEFINE m == marshalBin(ins)
           i == m[1]
           n == BinNibble[ins.op]
           c == IF ins.is64 THEN ALU64 ELSE ALU
           v == ins.v
<1>1. /\ ins.kind = "bin" /\ ins.op \in DOMAIN BinNibble /\ ins.dst \in Register /\ v \in Value
      /\ ins.is64 \in BOOLEAN /\ ins.lddw = FALSE
  BY DEF BinOK
<1>2. ins = BinIns(ins.op, ins.dst, v, ins.is64, FALSE)
  <2>1. ins = [kind |-> ins.kind, op |-> ins.op, dst |-> ins.dst, v |-> ins.v, is64 |-> ins.is64, lddw |-> ins.lddw]
    BY DEF BinOK
  <2> QED
    BY <1>1, <2>1 DEF BinIns
<1>3. m = <<Raw(c + 16 * n + SrcBit(v), ins.dst, SrcField(v), BinOffset(ins.op), ImmField(v))>>
  BY DEF marshalBin
<1>4. Len(m) = 1 /\ i = Raw(c + 16 * n + SrcBit(v), ins.dst, SrcField(v), BinOffset(ins.op), ImmField(v))
  <2> HIDE DEF m, n, c, v
  <2> QED
    BY <1>3
<1>5. i \in Slot
  <2>1. m \in Seq(Slot)
    BY BinIsEncoded
  <2>2. 1 \in 1..Len(m)
    BY <1>4
  <2> HIDE DEF m
  <2> QED
    BY <2>1, <2>2, ElementOfSeq
<1>6. /\ IsReg(v) => v = Reg(SrcField(v)) /\ SrcBit(v) = 8 /\ SrcField(v) \in Register /\ ImmField(v) = 0
      /\ ~ IsReg(v) => v = sign_extend(ImmField(v)) /\ SrcBit(v) = 0 /\ SrcField(v) = 0
  BY <1>1, ValueIsReread DEF BinKept
<1> HIDE DEF i, v
<1>7. i.opcode = c + 16 * n + SrcBit(v) /\ i.dst = ins.dst /\ i.src = SrcField(v) /\ i.offset = BinOffset(ins.op) /\ i.imm = ImmField(v)
  BY <1>4, RawFields
<1>8. c \in {4, 7} /\ (c = 7 <=> ins.is64) /\ n \in 0..12
  <2>1. n \in 0..12
    BY <1>1, BinCodes
  <2>2. CASE ins.is64
    <3>1. c = 7
      BY <2>2 DEF ALU64
    <3> HIDE DEF c
    <3> QED
      BY <2>1, <2>2, <3>1
  <2>3. CASE ~ ins.is64
    <3>1. c = 4
      BY <2>3 DEF ALU
    <3> HIDE DEF c
    <3> QED
      BY <2>1, <2>3, <3>1
  <2> QED
    BY <2>2, <2>3
<1> HIDE DEF c, n
<1>9. Class(i) = c /\ OpField(i) = n /\ (SrcReg(i) <=> IsReg(v)) /\ i.opcode # 0
  <2>1. SrcBit(v) \in {0, 8} /\ (SrcBit(v) = 8 <=> IsReg(v)) /\ c \in 0..7 /\ n \in 0..15
    BY <1>6, <1>8
  <2>2. i.opcode # 0
    BY <1>7, <1>8, <2>1
  <2> QED
    BY <1>7, <2>1, <2>2, OpcodeFields
<1>10. i.dst < R10 /\ i.src <= R10
  <2>1. Writes(ins) = {ins.dst}
    BY <1>1, BinFacts
  <2>2. ins.dst # R10
    BY <1>1, <2>1 DEF RegistersOK
  <2> QED
    BY <1>1, <1>6, <1>7, <2>2 DEF Register, R10
<1>11. makeAluOp(i, groups) = makeBin(i, groups)
  <2>1. OpField(i) \notin {8, 13}
    BY <1>1, <1>9, BinCodes DEF n
  <2> QED
    BY <1>10, <2>1 DEF makeAluOp, BothBases
<1>12. Operand(i) = v
  BY <1>6, <1>7, <1>9 DEF Operand
<1>13. (Class(i) = ALU64) = ins.is64
  BY <1>1, <1>8, <1>9 DEF ALU64
<1>14. makeBin(i, groups) # Invalid
  <2> DEFINE found == {t \in BinaryOps : t[1] = OpField(i) /\ t[2] = i.offset}
             op == (CHOOSE t \in found : TRUE)[3]
             is64 == Class(i) = ALU64
  <2>1. found # {}
    <3> DEFINE t == <<n, BinOffset(ins.op), ins.op>>
    <3>1. t \in BinaryOps
      BY <1>1, BinCodes DEF n
    <3>2. t[1] = OpField(i) /\ t[2] = i.offset
      BY <1>7, <1>9
    <3> HIDE DEF t
    <3> QED
      BY <3>1, <3>2
  <2>2. OpField(i) \in {2, 3, 9} => (IF is64 THEN "divmul64" ELSE "divmul32") \in groups
    <3>1. OpField(i) \in {2, 3, 9} => ins.op \in {"MUL", "UDIV", "SDIV", "UMOD", "SMOD"}
      BY <1>1, <1>9, BinCodes DEF n
    <3>2. ins.op \in {"MUL", "UDIV", "SDIV", "UMOD", "SMOD"} => (IF ins.is64 THEN "divmul64" ELSE "divmul32") \in groups
      BY <1>1, BinFacts
    <3>3. is64 <=> ins.is64
      BY <1>8, <1>9 DEF ALU64
    <3> QED
      BY <3>1, <3>2, <3>3
  <2>3. i.offset > 0 /\ OpField(i) = 11 => SrcReg(i)
    <3>1. n = 11 /\ BinOffset(ins.op) > 0 => ins.op \in {"MOVSX8", "MOVSX16", "MOVSX32"}
      BY <1>1, BinCodes DEF n
    <3> QED
      BY <1>7, <1>9, <3>1 DEF BinKept, v
  <2>4. IF SrcReg(i) THEN i.imm = 0 ELSE i.src = 0
    BY <1>6, <1>7, <1>9
  <2>5. makeBin(i, groups) = BinIns(op, i.dst, Operand(i), is64, FALSE)
    <3> HIDE DEF found, op
    <3>1. makeBin(i, groups) =
            IF /\ found # {}
               /\ OpField(i) \in {2, 3, 9} => (IF is64 THEN "divmul64" ELSE "divmul32") \in groups
               /\ i.offset > 0 /\ OpField(i) = 11 => SrcReg(i)
               /\ IF SrcReg(i) THEN i.imm = 0 ELSE i.src = 0
              THEN BinIns(op, i.dst, Operand(i), is64, FALSE)
              ELSE Invalid
      BY Zenon DEF makeBin, found, op, Operand
    <3> QED
      BY <2>1, <2>2, <2>3, <2>4, <3>1, Zenon
  <2> HIDE DEF op, is64
  <2>6. BinIns(op, i.dst, Operand(i), is64, FALSE).kind = "bin" /\ Invalid.kind = "invalid"
    BY DEF BinIns, Invalid
  <2> QED
    BY <2>5, <2>6
<1>15. PICK op : /\ makeBin(i, groups) = BinIns(op, i.dst, Operand(i), Class(i) = ALU64, FALSE)
                 /\ <<OpField(i), i.offset, op>> \in BinaryOps
  BY <1>5, <1>14, BinShape
<1>16. op = ins.op
  BY <1>1, <1>7, <1>9, <1>15, BinCodes DEF n
<1>17. makeAluOp(i, groups) = ins
  BY <1>2, <1>7, <1>11, <1>12, <1>13, <1>15, <1>16, Zenon
<1> QED
  BY <1>4, <1>8, <1>9, <1>17 DEF ReadsAsAlu, i, ALU, ALU64

LEMMA UnIsReread ==
  ASSUME NEW ins, UnOK(ins), UnKept(ins), RegistersOK(ins), BothBases
  PROVE  ReadsAsAlu(marshalUn(ins), ins)
<1> DEFINE m == marshalUn(ins)
           i == m[1]
           n == IF ins.op = "NEG" THEN 8 ELSE 13
           c == IF ins.is64 THEN 7 ELSE 4
           s == IF ins.op = "BE" THEN 8 ELSE 0
<1>1. /\ ins.kind = "un" /\ ins.op \in {"NEG", "LE", "BE", "SWAP"} /\ ins.dst \in Register
      /\ ins.is64 \in BOOLEAN
      /\ ins = [kind |-> "un", op |-> ins.op, width |-> ins.width, dst |-> ins.dst, is64 |-> ins.is64]
  BY DEF UnOK
<1>2. m = <<Raw(c + 16 * n + s, ins.dst, 0, 0, ins.width)>>
  <2>1. /\ ins.op = "NEG" => m = <<Raw((IF ins.is64 THEN ALU64 ELSE ALU) + 128, ins.dst, 0, 0, 0)>>
        /\ ins.op = "LE" => m = <<Raw(ALU + 208, ins.dst, 0, 0, ins.width)>>
        /\ ins.op = "BE" => m = <<Raw(ALU + 8 + 208, ins.dst, 0, 0, ins.width)>>
        /\ ins.op = "SWAP" => m = <<Raw(ALU64 + 208, ins.dst, 0, 0, ins.width)>>
    BY DEF marshalUn
  <2> HIDE DEF m
  <2>2. CASE ins.op = "NEG"
    <3>1. (IF ins.is64 THEN ALU64 ELSE ALU) + 128 = c + 16 * n + s /\ ins.width = 0
      BY <2>2 DEF UnKept, ALU, ALU64
    <3> QED
      BY <2>1, <2>2, <3>1
  <2>3. CASE ins.op = "LE"
    <3>1. ALU + 208 = c + 16 * n + s
      BY <2>3 DEF UnKept, ALU, ALU64
    <3> QED
      BY <2>1, <2>3, <3>1
  <2>4. CASE ins.op = "BE"
    <3>1. ALU + 8 + 208 = c + 16 * n + s
      BY <2>4 DEF UnKept, ALU, ALU64
    <3> QED
      BY <2>1, <2>4, <3>1
  <2>5. CASE ins.op = "SWAP"
    <3>1. ALU64 + 208 = c + 16 * n + s
      BY <2>5 DEF UnKept, ALU, ALU64
    <3> QED
      BY <2>1, <2>5, <3>1
  <2> QED
    BY <1>1, <2>2, <2>3, <2>4, <2>5
<1>3. Len(m) = 1 /\ i = Raw(c + 16 * n + s, ins.dst, 0, 0, ins.width)
  <2> HIDE DEF m, c, n, s
  <2> QED
    BY <1>2
<1> HIDE DEF i
<1>4. i.opcode = c + 16 * n + s /\ i.dst = ins.dst /\ i.src = 0 /\ i.offset = 0 /\ i.imm = ins.width
  BY <1>3, RawFields
<1>5. /\ c \in {4, 7} /\ (c = 7 <=> ins.is64) /\ s \in {0, 8} /\ (s = 8 <=> ins.op = "BE")
      /\ n \in {8, 13} /\ (n = 8 <=> ins.op = "NEG")
  OBVIOUS
<1> HIDE DEF c, n, s
<1>6. Class(i) = c /\ OpField(i) = n /\ (SrcReg(i) <=> s = 8) /\ i.opcode # 0
  <2>1. c \in 0..7 /\ n \in 0..15
    BY <1>5
  <2>2. i.opcode # 0
    BY <1>4, <1>5
  <2> QED
    BY <1>4, <1>5, <2>1, <2>2, OpcodeFields
<1>7. i.dst < R10 /\ i.src <= R10
  <2>1. Writes(ins) = {ins.dst}
    BY <1>1, UnFacts
  <2>2. ins.dst # R10
    BY <1>1, <2>1 DEF RegistersOK
  <2> QED
    BY <1>1, <1>4, <2>2 DEF Register, R10
<1>8. makeAluOp(i, groups) = makeUn(i, groups)
  BY <1>5, <1>6, <1>7 DEF makeAluOp, BothBases
<1> DEFINE is64 == Class(i) = ALU64
           neg == OpField(i) = 8
           op == IF neg THEN "NEG" ELSE IF is64 THEN "SWAP" ELSE IF SrcReg(i) THEN "BE" ELSE "LE"
           width == IF neg THEN 0 ELSE i.imm
           valid == /\ i.offset = 0 /\ i.src = 0
                    /\ IF neg THEN ~ SrcReg(i) /\ i.imm = 0
                       ELSE /\ i.imm \in {16, 32, 64}
                            /\ ~ (is64 /\ SrcReg(i))
                            /\ (IF i.imm = 64 THEN "base64" ELSE "base32") \in groups
<1>9. makeUn(i, groups) = If(valid, [kind |-> "un", op |-> op, width |-> width, dst |-> i.dst, is64 |-> is64])
  BY DEF makeUn
<1>10. op = ins.op /\ width = ins.width /\ is64 = ins.is64 /\ valid
  BY <1>1, <1>4, <1>5, <1>6 DEF UnKept, ALU64, BothBases
<1> HIDE DEF op, width, is64, valid, neg
<1>11. makeAluOp(i, groups) = ins
  BY <1>1, <1>4, <1>8, <1>9, <1>10 DEF If
<1> QED
  BY <1>3, <1>5, <1>6, <1>11 DEF ReadsAsAlu, i, ALU, ALU64

(* The one slot of a call or a jump, in the program raw. *)
ReadsAsJmp(m, raw, at, ins) ==
  /\ Len(m) = 1 /\ Class(m[1]) \in {JMP, JMP32} /\ m[1].opcode # 0
  /\ makeJmp(raw, at, m[1], groups) = ins

(* The range of offset holds 0. *)
LEMMA PowerOfOffset == 2^(OffsetBits - 1) \in Nat /\ 2^(OffsetBits - 1) >= 1
<1>1. OffsetBits - 1 \in Nat
  BY DecodeAssumption
<1> DEFINE A == SUBSET (1..(OffsetBits - 1))
<1>2. IsFiniteSet(A) /\ Cardinality(A) = 2^(OffsetBits - 1) /\ 2^(OffsetBits - 1) \in Nat
  BY <1>1, SubsetCount
<1>3. A # {}
  OBVIOUS
<1>4. Cardinality(A) # 0
  BY <1>2, <1>3, FS_EmptySet
<1> HIDE DEF A
<1> QED
  BY <1>2, <1>4

LEMMA ZeroFits == Fits(0, OffsetBits)
<1> DEFINE h == 2^(OffsetBits - 1)
<1>1. h \in Nat /\ h >= 1
  BY PowerOfOffset
<1>2. Fits(0, OffsetBits) <=> 0 \in -h..(h - 1)
  BY DEF Fits
<1> HIDE DEF h
<1> QED
  BY <1>1, <1>2

(* Calls, exits and jumps are read again. *)
LEMMA CallIsReread ==
  ASSUME NEW ins, CallOK(ins), ins.kind = "call", CallKept(ins), BothBases, NEW raw, NEW at
  PROVE  ReadsAsJmp(marshal(ins, at), raw, at, ins)
<1> DEFINE m == marshal(ins, at)
           i == m[1]
<1>1. m = <<Raw(INST_OP_CALL, 0, 0, 0, ins.func)>>
  BY DEF marshal
<1>2. Len(m) = 1 /\ i = Raw(INST_OP_CALL, 0, 0, 0, ins.func)
  BY <1>1
<1> HIDE DEF m, i
<1>3. i.opcode = 133 /\ i.dst = 0 /\ i.src = 0 /\ i.offset = 0 /\ i.imm = ins.func
  BY <1>2, RawFields DEF INST_OP_CALL
<1>4. Class(i) = 5 /\ OpField(i) = 8 /\ ~ SrcReg(i)
  BY <1>3 DEF Class, OpField, SrcReg
<1>5. makeJmp(raw, at, i, groups) = makeAnyCall(raw, at, i, groups)
  BY <1>4 DEF makeJmp
<1>6. makeAnyCall(raw, at, i, groups) = makeCall(ins.func)
  BY <1>3, <1>4 DEF makeAnyCall, BothBases, CallKept, JMP
<1> QED
  BY <1>2, <1>3, <1>4, <1>5, <1>6 DEF ReadsAsJmp, CallKept, m, i, JMP

LEMMA CallxIsReread ==
  ASSUME NEW ins, CallOK(ins), ins.kind = "callx", Needs(ins) \subseteq groups, BothBases, NEW raw, NEW at
  PROVE  ReadsAsJmp(marshal(ins, at), raw, at, ins)
<1> DEFINE m == marshal(ins, at)
           i == m[1]
<1>1. m = <<Raw(INST_OP_CALLX, ins.func, 0, 0, 0)>>
  BY DEF marshal
<1>2. Len(m) = 1 /\ i = Raw(INST_OP_CALLX, ins.func, 0, 0, 0)
  BY <1>1
<1> HIDE DEF m, i
<1>3. i.opcode = 141 /\ i.dst = ins.func /\ i.src = 0 /\ i.offset = 0 /\ i.imm = 0
  BY <1>2, RawFields DEF INST_OP_CALLX
<1>4. Class(i) = 5 /\ OpField(i) = 8 /\ SrcReg(i)
  BY <1>3 DEF Class, OpField, SrcReg
<1>5. makeJmp(raw, at, i, groups) = makeAnyCall(raw, at, i, groups)
  BY <1>4 DEF makeJmp
<1>6. "callx" \in groups
  BY CallFacts
<1>7. makeAnyCall(raw, at, i, groups) = makeCallx(i)
  BY <1>3, <1>4, <1>6 DEF makeAnyCall, BothBases, JMP
<1>8. ins.func \in Register /\ ins = [kind |-> "callx", func |-> ins.func]
  BY DEF CallOK
<1>9. makeCallx(i) = ins
  BY <1>3, <1>8 DEF makeCallx, If, Register, R10
<1> QED
  BY <1>2, <1>3, <1>4, <1>5, <1>7, <1>9 DEF ReadsAsJmp, m, i, JMP

LEMMA ExitIsReread ==
  ASSUME NEW ins, CallOK(ins), ins.kind = "exit", BothBases, NEW raw, NEW at
  PROVE  ReadsAsJmp(marshal(ins, at), raw, at, ins)
<1> DEFINE m == marshal(ins, at)
           i == m[1]
<1>1. m = <<Raw(INST_OP_EXIT, 0, 0, 0, 0)>>
  BY DEF marshal
<1>2. Len(m) = 1 /\ i = Raw(INST_OP_EXIT, 0, 0, 0, 0)
  BY <1>1
<1> HIDE DEF m, i
<1>3. i.opcode = 149 /\ i.dst = 0 /\ i.src = 0 /\ i.offset = 0 /\ i.imm = 0
  BY <1>2, RawFields DEF INST_OP_EXIT
<1>4. Class(i) = 5 /\ OpField(i) = 9 /\ ~ SrcReg(i)
  BY <1>3 DEF Class, OpField, SrcReg
<1>5. makeJmp(raw, at, i, groups) = makeExit(i, groups)
  BY <1>4 DEF makeJmp
<1>6. ins = [kind |-> "exit"]
  BY DEF CallOK
<1>7. makeExit(i, groups) = [kind |-> "exit"]
  BY <1>3, <1>4 DEF makeExit, If, BothBases, JMP
<1> QED
  BY <1>2, <1>3, <1>4, <1>5, <1>6, <1>7 DEF ReadsAsJmp, m, i, JMP

LEMMA GotoIsReread ==
  ASSUME NEW ins, JmpOK(ins), ins.cond = None, BothBases, NEW at \in Int, NEW raw, IsTarget(raw, ins.target)
  PROVE  ReadsAsJmp(marshalJmp(ins, at), raw, at, ins)
<1> DEFINE m == marshalJmp(ins, at)
           i == m[1]
           d == ins.target - at - 1
           far == label_to_offset32(ins.target, at)
<1>1. ins.target \in Int /\ ins = [kind |-> "jmp", target |-> ins.target, cond |-> None]
  BY DEF JmpOK
<1>2. d \in Int /\ at + 1 + d = ins.target
  BY <1>1
<1>3. /\ far # 0 => far = d
      /\ far = 0 => label_to_offset16(ins.target, at) = d
  BY ZeroFits DEF label_to_offset32, label_to_offset16
<1>4. /\ far # 0 => m = <<Raw(6, 0, 0, 0, d)>>
      /\ far = 0 => m = <<Raw(5, 0, 0, d, 0)>>
  <2> HIDE DEF d
  <2> QED
    BY <1>3 DEF marshalJmp, INST_OP_JA32, INST_OP_JA16
<1> HIDE DEF d
<1>5. CASE far # 0
  <2>1. Len(m) = 1 /\ i = Raw(6, 0, 0, 0, d)
    BY <1>4, <1>5
  <2> HIDE DEF m, i, far
  <2>2. i.opcode = 6 /\ i.dst = 0 /\ i.src = 0 /\ i.offset = 0 /\ i.imm = d
    BY <2>1, RawFields
  <2>3. Class(i) = 6 /\ OpField(i) = 0 /\ ~ SrcReg(i)
    BY <2>2 DEF Class, OpField, SrcReg
  <2>4. makeJmp(raw, at, i, groups) = makeGoto(raw, at, i, groups)
    BY <2>3 DEF makeJmp
  <2>5. makeGoto(raw, at, i, groups) = [kind |-> "jmp", cond |-> None, target |-> ins.target]
    BY <1>2, <2>2, <2>3 DEF makeGoto, If, BothBases, JMP, INST_OP_JA32
  <2> QED
    BY <1>1, <2>1, <2>2, <2>3, <2>4, <2>5 DEF ReadsAsJmp, m, i, JMP32
<1>6. CASE far = 0
  <2>1. Len(m) = 1 /\ i = Raw(5, 0, 0, d, 0)
    BY <1>4, <1>6
  <2> HIDE DEF m, i, far
  <2>2. i.opcode = 5 /\ i.dst = 0 /\ i.src = 0 /\ i.offset = d /\ i.imm = 0
    BY <2>1, RawFields
  <2>3. Class(i) = 5 /\ OpField(i) = 0 /\ ~ SrcReg(i)
    BY <2>2 DEF Class, OpField, SrcReg
  <2>4. makeJmp(raw, at, i, groups) = makeGoto(raw, at, i, groups)
    BY <2>3 DEF makeJmp
  <2>5. makeGoto(raw, at, i, groups) = [kind |-> "jmp", cond |-> None, target |-> ins.target]
    BY <1>2, <2>2, <2>3 DEF makeGoto, If, BothBases, JMP, INST_OP_JA32
  <2> QED
    BY <1>1, <2>1, <2>2, <2>3, <2>4, <2>5 DEF ReadsAsJmp, m, i, JMP
<1> QED
  BY <1>5, <1>6

(* The table of conditions, from the encoder's side. *)
LEMMA CondCodes ==
  ASSUME NEW op \in DOMAIN CondNibble
  PROVE  /\ CondNibble[op] \in DOMAIN getJmpOp /\ getJmpOp[CondNibble[op]] = op
         /\ CondNibble[op] \in 1..13 /\ CondNibble[op] \notin {8, 9}
<1>1. op \in {"EQ", "GT", "GE", "SET", "NE", "SGT", "SGE", "LT", "LE", "SLT", "SLE"}
  BY DEF CondNibble
<1> DEFINE n == CondNibble[op]
<1>2. /\ (op = "EQ" => n = 1) /\ (op = "GT" => n = 2) /\ (op = "GE" => n = 3) /\ (op = "SET" => n = 4)
      /\ (op = "NE" => n = 5) /\ (op = "SGT" => n = 6) /\ (op = "SGE" => n = 7) /\ (op = "LT" => n = 10)
      /\ (op = "LE" => n = 11) /\ (op = "SLT" => n = 12) /\ (op = "SLE" => n = 13)
  BY DEF CondNibble
<1> HIDE DEF n
<1>3. n \in {1, 2, 3, 4, 5, 6, 7, 10, 11, 12, 13}
  BY <1>1, <1>2
<1>4. n \in DOMAIN getJmpOp
  BY <1>3 DEF getJmpOp
<1>5. getJmpOp[n] = <<"EQ", "GT", "GE", "SET", "NE", "SGT", "SGE", "", "", "LT", "LE", "SLT", "SLE">>[n]
  BY <1>3 DEF getJmpOp
<1>6. getJmpOp[n] = op
  <2> DEFINE T == <<"EQ", "GT", "GE", "SET", "NE", "SGT", "SGE", "", "", "LT", "LE", "SLT", "SLE">>
  <2>1. /\ T[1] = "EQ" /\ T[2] = "GT" /\ T[3] = "GE" /\ T[4] = "SET" /\ T[5] = "NE" /\ T[6] = "SGT" /\ T[7] = "SGE"
        /\ T[10] = "LT" /\ T[11] = "LE" /\ T[12] = "SLT" /\ T[13] = "SLE"
    OBVIOUS
  <2>2. getJmpOp[n] = T[n]
    BY <1>5
  <2> HIDE DEF T
  <2> QED
    BY <1>1, <1>2, <2>1, <2>2
<1> QED
  BY <1>3, <1>4, <1>6 DEF n

(* A conditional jump is read again if it is near enough. *)
LEMMA BranchIsReread ==
  ASSUME NEW ins, JmpOK(ins), JmpKept(ins), ins.cond # None, ins.cond.is64, Narrows(ins.cond.right), BothBases,
         NEW at \in Int, Near(at, ins), NEW raw, IsTarget(raw, ins.target)
  PROVE  ReadsAsJmp(marshalJmp(ins, at), raw, at, ins)
<1> DEFINE m == marshalJmp(ins, at)
           i == m[1]
           d == ins.target - at - 1
           n == CondNibble[ins.cond.op]
           v == ins.cond.right
           cond == ins.cond
<1>1. /\ ins.kind = "jmp" /\ ins.target \in Int /\ ins = [kind |-> "jmp", target |-> ins.target, cond |-> cond]
      /\ cond \in [op : DOMAIN CondNibble, left : Register, is64 : BOOLEAN, right : Value]
  BY DEF JmpOK
<1>2. /\ cond.op \in DOMAIN CondNibble /\ cond.left \in Register /\ cond.is64 = TRUE /\ v \in Value
      /\ cond = [op |-> cond.op, left |-> cond.left, is64 |-> TRUE, right |-> v]
  BY <1>1
<1>3. d \in Int /\ at + 1 + d = ins.target
  BY <1>1
<1>4. label_to_offset16(ins.target, at) = d
  BY <1>1 DEF label_to_offset16, Near
<1>5. /\ IsReg(v) => v = Reg(SrcField(v)) /\ SrcBit(v) = 8 /\ SrcField(v) \in Register /\ ImmField(v) = 0
      /\ ~ IsReg(v) => v = sign_extend(ImmField(v)) /\ SrcBit(v) = 0 /\ SrcField(v) = 0
  BY <1>2, ValueIsReread DEF JmpKept
<1>6. m = <<Raw(5 + 16 * n + SrcBit(v), cond.left, SrcField(v), d, ImmField(v))>>
  BY <1>4 DEF marshalJmp, JMP
<1>7. /\ n \in DOMAIN getJmpOp /\ getJmpOp[n] = cond.op /\ n \in 1..13 /\ n \notin {8, 9}
  BY <1>2, CondCodes
<1> HIDE DEF d, n, v
<1>8. Len(m) = 1 /\ i = Raw(5 + 16 * n + SrcBit(v), cond.left, SrcField(v), d, ImmField(v))
  BY <1>6
<1> HIDE DEF m, i
<1>9. /\ i.opcode = 5 + 16 * n + SrcBit(v) /\ i.dst = cond.left /\ i.src = SrcField(v) /\ i.offset = d
      /\ i.imm = ImmField(v)
  BY <1>8, RawFields
<1>10. Class(i) = 5 /\ OpField(i) = n /\ (SrcReg(i) <=> IsReg(v)) /\ i.opcode # 0
  <2>1. SrcBit(v) \in {0, 8} /\ (SrcBit(v) = 8 <=> IsReg(v)) /\ 5 \in 0..7 /\ n \in 0..15
    BY <1>5, <1>7
  <2>2. i.opcode # 0
    BY <1>7, <1>9, <2>1
  <2> QED
    BY <1>9, <2>1, <2>2, OpcodeFields
<1>11. makeJmp(raw, at, i, groups) = makeBranch(raw, at, i, groups)
  BY <1>7, <1>10 DEF makeJmp
<1>12. Operand(i) = v
  BY <1>5, <1>9, <1>10 DEF Operand
<1> DEFINE is64 == Class(i) = JMP
<1>13. is64 = TRUE /\ is64
  BY <1>10 DEF JMP
<1>14. makeBranch(raw, at, i, groups)
         = [kind |-> "jmp", target |-> at + 1 + i.offset,
            cond |-> [op |-> getJmpOp[OpField(i)], left |-> i.dst, is64 |-> is64, right |-> Operand(i)]]
  <2>1. "base64" \in groups /\ OpField(i) \in DOMAIN getJmpOp
    BY <1>7, <1>10 DEF BothBases
  <2>2. IF SrcReg(i) THEN i.imm = 0 /\ i.src <= R10 ELSE i.src = 0
    BY <1>5, <1>9, <1>10 DEF Register, R10
  <2>3. IsTarget(raw, at + 1 + i.offset) /\ i.dst <= R10
    BY <1>2, <1>3, <1>9 DEF Register, R10
  <2>4. (IF Class(i) = JMP THEN "base64" ELSE "base32") \in groups
    BY <1>13, <2>1
  <2> QED
    BY <2>1, <2>2, <2>3, <2>4, Zenon DEF makeBranch, Operand
<1> HIDE DEF is64
<1>15. makeBranch(raw, at, i, groups)
         = [kind |-> "jmp", target |-> ins.target,
            cond |-> [op |-> cond.op, left |-> cond.left, is64 |-> TRUE, right |-> v]]
  BY <1>3, <1>7, <1>9, <1>10, <1>12, <1>13, <1>14
<1>16. makeBranch(raw, at, i, groups) = ins
  BY <1>1, <1>2, <1>15, Zenon
<1> QED
  BY <1>8, <1>10, <1>11, <1>16 DEF ReadsAsJmp, m, i, JMP

(* An instruction that the encoder keeps. *)
Plain(ins) ==
  /\ InsOK(ins) /\ Kept(ins) /\ RegistersOK(ins) /\ Needs(ins) \subseteq groups
  /\ ins.kind # "call_local"
  /\ ins.kind = "bin" /\ ~ ins.lddw => Narrows(ins.v)
  /\ ins.kind = "mem" => Narrows(ins.value)
  /\ ins.kind = "jmp" /\ ins.cond # None => ins.cond.is64 /\ Narrows(ins.cond.right)

ReadsAs(m, raw, at, ins) ==
  \/ size(ins) = 2 /\ ReadsAsLddw(m, ins)
  \/ size(ins) = 1 /\ (ReadsAsMem(m, ins) \/ ReadsAsAlu(m, ins) \/ ReadsAsJmp(m, raw, at, ins))

(* The kind of an instruction says which record it is. *)
LEMMA Kinds ==
  ASSUME NEW ins, InsOK(ins)
  PROVE  /\ ins.kind \in {"bin", "un", "map_fd", "map_address", "mem", "packet", "atomic", "call", "call_local",
                          "callx", "exit", "jmp"}
         /\ ins.kind = "bin" => BinOK(ins)
         /\ ins.kind = "un" => UnOK(ins)
         /\ ins.kind = "mem" => MemOK(ins)
         /\ ins.kind = "packet" => PacketOK(ins)
         /\ ins.kind = "atomic" => AtomicOK(ins)
         /\ ins.kind \in {"call", "call_local", "callx", "exit"} => CallOK(ins)
         /\ ins.kind = "jmp" => JmpOK(ins)
<1>1. BinOK(ins) => ins.kind = "bin"
  BY DEF BinOK
<1>2. UnOK(ins) => ins.kind = "un"
  BY DEF UnOK
<1>3. MapOK(ins) => ins.kind \in {"map_fd", "map_address"}
  BY DEF MapOK
<1>4. MemOK(ins) => ins.kind = "mem"
  BY DEF MemOK
<1>5. PacketOK(ins) => ins.kind = "packet"
  BY DEF PacketOK
<1>6. AtomicOK(ins) => ins.kind = "atomic"
  BY DEF AtomicOK
<1>7. CallOK(ins) => ins.kind \in {"call", "call_local", "callx", "exit"}
  BY DEF CallOK
<1>8. JmpOK(ins) => ins.kind = "jmp"
  BY DEF JmpOK
<1> QED
  BY <1>1, <1>2, <1>3, <1>4, <1>5, <1>6, <1>7, <1>8 DEF InsOK

(* Every instruction that the encoder keeps is read again. *)
LEMMA InsIsReread ==
  ASSUME NEW ins, Plain(ins), BothBases, NEW at \in Int, Near(at, ins),
         NEW raw, ins.kind = "jmp" => IsTarget(raw, ins.target)
  PROVE  ReadsAs(marshal(ins, at), raw, at, ins)
<1>1. InsOK(ins) /\ Kept(ins) /\ RegistersOK(ins) /\ Needs(ins) \subseteq groups /\ ins.kind # "call_local"
  BY DEF Plain
<1>2. CASE size(ins) = 2
  BY <1>1, <1>2, LddwIsReread DEF ReadsAs
<1>3. CASE size(ins) # 2
  <2>0. size(ins) = 1
    BY <1>3 DEF size
  <2>1. CASE ins.kind = "bin"
    <3>1. BinOK(ins) /\ ~ ins.lddw /\ BinKept(ins) /\ Narrows(ins.v)
      BY <1>1, <1>3, <2>1, Kinds, BinFacts DEF Kept, Plain
    <3>2. marshal(ins, at) = marshalBin(ins)
      BY <2>1 DEF marshal
    <3> QED
      BY <1>1, <2>0, <3>1, <3>2, BinIsReread DEF ReadsAs
  <2>2. CASE ins.kind = "un"
    <3>1. UnOK(ins) /\ UnKept(ins)
      BY <1>1, <2>2, Kinds DEF Kept
    <3>2. marshal(ins, at) = marshalUn(ins)
      BY <2>2 DEF marshal
    <3> QED
      BY <1>1, <2>0, <3>1, <3>2, UnIsReread DEF ReadsAs
  <2>3. CASE ins.kind = "mem"
    <3>1. MemOK(ins) /\ MemKept(ins) /\ Narrows(ins.value)
      BY <1>1, <2>3, Kinds DEF Kept, Plain
    <3>2. marshal(ins, at) = marshalMem(ins)
      BY <2>3 DEF marshal
    <3> QED
      BY <1>1, <2>0, <3>1, <3>2, MemIsReread DEF ReadsAs
  <2>4. CASE ins.kind = "packet"
    <3>1. PacketOK(ins)
      BY <1>1, <2>4, Kinds
    <3>2. marshal(ins, at) = marshalPacket(ins)
      BY <2>4 DEF marshal
    <3> QED
      BY <1>1, <2>0, <3>1, <3>2, PacketIsReread DEF ReadsAs
  <2>5. CASE ins.kind = "atomic"
    <3>1. AtomicOK(ins) /\ AtomicKept(ins)
      BY <1>1, <2>5, Kinds DEF Kept
    <3> QED
      BY <1>1, <2>0, <3>1, AtomicIsReread DEF ReadsAs
  <2>6. CASE ins.kind \in {"call", "callx", "exit"}
    <3>1. CallOK(ins) /\ (ins.kind = "call" => CallKept(ins))
      BY <1>1, <2>6, Kinds DEF Kept
    <3> QED
      BY <1>1, <2>0, <2>6, <3>1, CallIsReread, CallxIsReread, ExitIsReread DEF ReadsAs
  <2>7. CASE ins.kind = "jmp"
    <3>1. JmpOK(ins) /\ JmpKept(ins) /\ (ins.cond # None => ins.cond.is64 /\ Narrows(ins.cond.right))
      BY <1>1, <2>7, Kinds DEF Kept, Plain
    <3>2. marshal(ins, at) = marshalJmp(ins, at)
      BY <2>7 DEF marshal
    <3> QED
      BY <1>1, <2>0, <2>7, <3>1, <3>2, GotoIsReread, BranchIsReread DEF ReadsAs
  <2>8. CASE ins.kind \in {"map_fd", "map_address"}
    BY <1>3, <2>8, MapFacts
  <2> QED
    BY <1>1, <2>1, <2>2, <2>3, <2>4, <2>5, <2>6, <2>7, <2>8, Kinds
<1> QED
  BY <1>2, <1>3

(* Whatever the program, an instruction takes its slots, and the first of  *)
(* them is code.                                                           *)
Shaped(m, ins) == Len(m) = size(ins) /\ m[1].opcode # 0 /\ m \in Seq(Slot)

(* Jumps included, before it is known where they lead. *)
LEMMA MarshalShape ==
  ASSUME NEW ins, Plain(ins), BothBases, NEW at \in Int
  PROVE  Shaped(marshal(ins, at), ins)
<1> DEFINE m == marshal(ins, at)
<1>1. m \in Seq(Slot)
  BY InsIsEncoded DEF Plain
<1>2. CASE ins.kind # "jmp"
  <2>1. ReadsAs(m, <<>>, at, ins)
    BY <1>2, InsIsReread, NotNear
  <2> HIDE DEF m
  <2>3. ReadsAsLddw(m, ins) => Len(m) = 2 /\ m[1].opcode # 0
    BY DEF ReadsAsLddw, INST_OP_LDDW_IMM
  <2>4. ReadsAsMem(m, ins) => Len(m) = 1 /\ m[1].opcode # 0
    BY DEF ReadsAsMem
  <2>5. ReadsAsAlu(m, ins) => Len(m) = 1 /\ m[1].opcode # 0
    BY DEF ReadsAsAlu
  <2>6. ReadsAsJmp(m, <<>>, at, ins) => Len(m) = 1 /\ m[1].opcode # 0
    BY DEF ReadsAsJmp
  <2>2. Len(m) = size(ins) /\ m[1].opcode # 0
    BY <2>1, <2>3, <2>4, <2>5, <2>6 DEF ReadsAs
  <2> QED
    BY <1>1, <2>2 DEF m, Shaped
<1>3. CASE ins.kind = "jmp"
  <2>1. JmpOK(ins) /\ size(ins) = 1 /\ m = marshalJmp(ins, at)
    BY <1>3, Kinds DEF Plain, size, marshal
  <2>2. CASE ins.cond = None
    <3>1. PICK c, d, e : c \in {INST_OP_JA16, INST_OP_JA32} /\ m = <<Raw(c, 0, 0, d, e)>>
      BY <2>1, <2>2 DEF marshalJmp
    <3> HIDE DEF m
    <3>2. Len(m) = 1 /\ m[1].opcode = c
      BY <3>1 DEF Raw
    <3> QED
      BY <1>1, <2>1, <3>1, <3>2 DEF m, Shaped, INST_OP_JA16, INST_OP_JA32
  <2>3. CASE ins.cond # None
    <3> DEFINE n == CondNibble[ins.cond.op]
               v == ins.cond.right
               s == SrcBit(v)
    <3>1. n \in 1..13
      BY <2>1, <2>3, CondCodes DEF JmpOK
    <3>2. s \in {0, 8}
      BY DEF SrcBit
    <3>3. m = <<Raw(5 + 16 * n + s, ins.cond.left, SrcField(v), label_to_offset16(ins.target, at), ImmField(v))>>
      BY <2>1, <2>3 DEF marshalJmp, JMP
    <3> HIDE DEF m, n, s, v
    <3>4. Len(m) = 1 /\ m[1].opcode = 5 + 16 * n + s
      BY <3>3 DEF Raw
    <3> QED
      BY <1>1, <2>1, <3>1, <3>2, <3>4 DEF m, Shaped
  <2> QED
    BY <2>2, <2>3
<1> QED
  BY <1>2, <1>3

(* Moving its target leaves an instruction what it is. *)
LEMMA MovedIsPlain ==
  ASSUME NEW p, NEW ins, Plain(ins), ins.kind = "jmp" => get_labels(p)[ins.target] \in Int
  PROVE  /\ Plain(Moved(p, ins)) /\ size(Moved(p, ins)) = size(ins)
         /\ Moved(p, ins).kind = ins.kind
         /\ ins.kind = "jmp" => Moved(p, ins).target = get_labels(p)[ins.target] /\ Moved(p, ins).cond = ins.cond
<1>1. CASE ins.kind # "jmp"
  BY <1>1 DEF Moved
<1>2. CASE ins.kind = "jmp"
  <2> DEFINE t == get_labels(p)[ins.target]
             j == Moved(p, ins)
  <2>1. JmpOK(ins)
    BY <1>2, Kinds DEF Plain
  <2>2. j = [ins EXCEPT !.target = t]
    BY <1>2 DEF Moved
  <2>3. t \in Int
    BY <1>2
  <2> HIDE DEF t, j
  <2>4. j = [kind |-> "jmp", target |-> t, cond |-> ins.cond]
    BY <2>1, <2>2 DEF JmpOK
  <2>5. j.kind = "jmp" /\ j.cond = ins.cond /\ j.target = t
    BY <2>4
  <2>6. JmpOK(j) /\ InsOK(j)
    BY <2>1, <2>3, <2>4 DEF JmpOK, InsOK
  <2>7. Kept(j)
    BY <1>2, <2>5 DEF Plain, Kept, JmpKept
  <2>8. Registers(j) = Registers(ins) /\ Writes(j) = Writes(ins) /\ Needs(j) = Needs(ins) /\ size(j) = size(ins)
    BY <1>2, <2>5, JmpFacts
  <2>9. RegistersOK(j) /\ Needs(j) \subseteq groups
    BY <1>2, <2>8, JmpFacts DEF Plain, RegistersOK
  <2> QED
    BY <1>2, <2>5, <2>6, <2>7, <2>8, <2>9 DEF Plain, j, t
<1> QED
  BY <1>1, <1>2

-----------------------------------------------------------------------------
(***************************************************************************)
(* The slots of the encoded program, and how far apart they are.           *)
(***************************************************************************)
(* An instruction starts where the slots of the one before it end. *)
LEMMA SlotSteps ==
  ASSUME NEW p
  PROVE  /\ SlotOf(p, 1) = 0
         /\ \A k \in Nat \ {0} : SlotOf(p, k) \in Nat /\ SlotOf(p, k + 1) = SlotOf(p, k) + size(p[k].ins)
<1> DEFINE T(k) == {j \in 1..(k - 1) : size(p[j].ins) = 2}
<1>0. \A k : SlotOf(p, k) = (k - 1) + Cardinality(T(k))
  BY DEF SlotOf
<1>1. ASSUME NEW k \in Nat \ {0}
      PROVE  IsFiniteSet(T(k)) /\ Cardinality(T(k)) \in Nat
  <2>1. IsFiniteSet(1..(k - 1))
    <3>1. 1 \in Int /\ k - 1 \in Int
      OBVIOUS
    <3> QED
      BY <3>1, FS_Interval
  <2>2. IsFiniteSet(T(k))
    BY <2>1, FS_Subset
  <2> HIDE DEF T
  <2> QED
    BY <2>2, FS_CardinalityType
<1>2. T(1) = {}
  OBVIOUS
<1>3. Cardinality(T(1)) = 0
  BY <1>2, FS_EmptySet
<1>4. ASSUME NEW k \in Nat \ {0}
      PROVE  T(k + 1) = (IF size(p[k].ins) = 2 THEN T(k) \cup {k} ELSE T(k)) /\ k \notin T(k)
  <2>1. (k + 1) - 1 = k
    OBVIOUS
  <2>2. \A j : j \in 1..k <=> j \in 1..(k - 1) \/ j = k
    OBVIOUS
  <2>3. k \notin 1..(k - 1)
    OBVIOUS
  <2> QED
    BY <2>1, <2>2, <2>3
<1> HIDE DEF T
<1>5. SlotOf(p, 1) = 0
  BY <1>0, <1>3
<1>6. ASSUME NEW k \in Nat \ {0}
      PROVE  SlotOf(p, k) \in Nat /\ SlotOf(p, k + 1) = SlotOf(p, k) + size(p[k].ins)
  <2>1. SlotOf(p, k) = (k - 1) + Cardinality(T(k)) /\ SlotOf(p, k + 1) = k + Cardinality(T(k + 1))
    <3>1. (k + 1) - 1 = k
      OBVIOUS
    <3> QED
      BY <1>0, <3>1
  <2>2. Cardinality(T(k)) \in Nat /\ IsFiniteSet(T(k))
    BY <1>1
  <2>3. CASE size(p[k].ins) = 2
    <3>1. Cardinality(T(k + 1)) = Cardinality(T(k)) + 1
      <4>1. T(k + 1) = T(k) \cup {k} /\ k \notin T(k)
        BY <1>4, <2>3
      <4> QED
        BY <2>2, <4>1, FS_AddElement
    <3> QED
      BY <2>1, <2>2, <2>3, <3>1
  <2>4. CASE size(p[k].ins) # 2
    <3>1. T(k + 1) = T(k)
      BY <1>4, <2>4
    <3>2. size(p[k].ins) = 1
      BY <2>4 DEF size
    <3> QED
      BY <2>1, <2>2, <3>1, <3>2
  <2> QED
    BY <2>3, <2>4
<1> QED
  BY <1>5, <1>6

(* One slot or two. *)
LEMMA SizeFacts ==
  ASSUME NEW ins
  PROVE  size(ins) \in {1, 2}
BY DEF size

(* The slots grow with the instructions, and no faster than the labels of  *)
(* a program that was decoded.                                             *)
Stretched(p, n) ==
  \A k \in 1..n : /\ p[k].label \in Nat
                  /\ k + 1 \in 1..n => p[k + 1].label >= p[k].label + size(p[k].ins)

(* A later instruction has a later slot. *)
LEMMA SlotsGrow ==
  ASSUME NEW p, NEW j \in Nat \ {0}, NEW k \in Nat \ {0}, j < k
  PROVE  SlotOf(p, j) < SlotOf(p, k)
<1> DEFINE s == [i \in Nat \ {0} |-> SlotOf(p, i)]
           T == {d \in Nat : s[j] < s[j + d + 1]}
<1>1. \A i \in Nat \ {0} : s[i] \in Nat /\ s[i] = SlotOf(p, i) /\ s[i + 1] > s[i]
  <2> TAKE i \in Nat \ {0}
  <2>1. i + 1 \in Nat \ {0} /\ size(p[i].ins) \in {1, 2}
    BY SizeFacts
  <2>2. s[i] = SlotOf(p, i) /\ s[i + 1] = SlotOf(p, i + 1)
    BY <2>1
  <2>3. SlotOf(p, i) \in Nat /\ SlotOf(p, i + 1) = SlotOf(p, i) + size(p[i].ins)
    BY SlotSteps
  <2> QED
    BY <2>1, <2>2, <2>3
<1> HIDE DEF s
<1>2. 0 \in T
  BY <1>1
<1>3. ASSUME NEW d \in T
      PROVE  d + 1 \in T
  <2>1. j + d + 1 \in Nat \ {0} /\ j + (d + 1) + 1 = (j + d + 1) + 1 /\ d + 1 \in Nat /\ s[j] < s[j + d + 1]
    OBVIOUS
  <2>2. s[(j + d + 1) + 1] > s[j + d + 1] /\ s[j] \in Nat /\ s[j + d + 1] \in Nat /\ s[(j + d + 1) + 1] \in Nat
    BY <1>1, <2>1
  <2> QED
    BY <2>1, <2>2
<1>4. T = Nat
  <2>1. T \subseteq Nat
    OBVIOUS
  <2> HIDE DEF T
  <2> QED
    BY <1>2, <1>3, <2>1, SetInduction
<1>5. k - j - 1 \in Nat /\ j + (k - j - 1) + 1 = k
  OBVIOUS
<1>6. s[j] < s[k]
  <2>1. \A d \in Nat : s[j] < s[j + d + 1]
    BY <1>4
  <2> QED
    BY <1>5, <2>1
<1> QED
  BY <1>1, <1>6

(* Two instructions are no farther apart than their labels are. *)
LEMMA SlotsGrowSlower ==
  ASSUME NEW p, NEW n \in Nat, Stretched(p, n), NEW j \in 1..n, NEW k \in 1..n, j <= k
  PROVE  SlotOf(p, k) - SlotOf(p, j) <= p[k].label - p[j].label
<1> DEFINE s == [i \in Nat \ {0} |-> SlotOf(p, i)]
           l == [i \in Nat \ {0} |-> p[i].label]
           T == {d \in Nat : j + d \in 1..n => s[j + d] - s[j] <= l[j + d] - l[j]}
<1>1. ASSUME NEW i \in 1..n
      PROVE  /\ s[i] \in Nat /\ s[i] = SlotOf(p, i) /\ l[i] \in Nat /\ l[i] = p[i].label
             /\ i + 1 \in 1..n => s[i + 1] - s[i] <= l[i + 1] - l[i]
  <2>1. i \in Nat \ {0} /\ i + 1 \in Nat \ {0} /\ size(p[i].ins) \in {1, 2}
    BY SizeFacts
  <2>2. s[i] = SlotOf(p, i) /\ s[i + 1] = SlotOf(p, i + 1) /\ l[i] = p[i].label /\ l[i + 1] = p[i + 1].label
    BY <2>1
  <2>3. SlotOf(p, i) \in Nat /\ SlotOf(p, i + 1) = SlotOf(p, i) + size(p[i].ins)
    BY <2>1, SlotSteps
  <2>4. l[i] \in Nat /\ (i + 1 \in 1..n => l[i + 1] \in Nat /\ l[i + 1] >= l[i] + size(p[i].ins))
    BY <2>2 DEF Stretched
  <2> HIDE DEF s, l
  <2> QED
    BY <2>1, <2>2, <2>3, <2>4
<1> HIDE DEF s, l
<1>2. 0 \in T
  BY <1>1
<1>3. ASSUME NEW d \in T
      PROVE  d + 1 \in T
  <2> SUFFICES ASSUME j + (d + 1) \in 1..n
               PROVE  s[j + (d + 1)] - s[j] <= l[j + (d + 1)] - l[j]
    OBVIOUS
  <2>1. j + d \in 1..n /\ j + (d + 1) = (j + d) + 1
    OBVIOUS
  <2>2. s[j + d] - s[j] <= l[j + d] - l[j]
    BY <2>1
  <2>3. /\ s[(j + d) + 1] - s[j + d] <= l[(j + d) + 1] - l[j + d]
        /\ s[j + d] \in Nat /\ s[(j + d) + 1] \in Nat /\ l[j + d] \in Nat /\ l[(j + d) + 1] \in Nat
        /\ s[j] \in Nat /\ l[j] \in Nat
    BY <1>1, <2>1
  <2> QED
    BY <2>1, <2>2, <2>3
<1>4. T = Nat
  <2>1. T \subseteq Nat
    OBVIOUS
  <2> HIDE DEF T
  <2> QED
    BY <1>2, <1>3, <2>1, SetInduction
<1>5. k - j \in Nat /\ j + (k - j) = k
  OBVIOUS
<1>6. s[k] - s[j] <= l[k] - l[j]
  <2>1. \A d \in Nat : j + d \in 1..n => s[j + d] - s[j] <= l[j + d] - l[j]
    BY <1>4
  <2> QED
    BY <1>5, <2>1
<1> QED
  BY <1>1, <1>6

(* Encoding brings a jump and its target no farther apart. *)
LEMMA JumpsStayNear ==
  ASSUME NEW p, NEW n \in Nat, Stretched(p, n), NEW k \in 1..n, NEW t \in 1..n,
         Fits(p[t].label - p[k].label - 1, OffsetBits)
  PROVE  Fits(SlotOf(p, t) - SlotOf(p, k) - 1, OffsetBits)
<1> DEFINE h == 2^(OffsetBits - 1)
           a == SlotOf(p, k)
           b == SlotOf(p, t)
           x == p[k].label
           y == p[t].label
<1>1. h \in Nat /\ h >= 1
  BY PowerOfOffset
<1>2. a \in Nat /\ b \in Nat /\ x \in Nat /\ y \in Nat
  BY SlotSteps DEF Stretched
<1>3. t <= k => a - b <= x - y /\ b <= a
  <2>1. t < k => b < a
    BY SlotsGrow
  <2>2. t <= k => a - b <= x - y
    BY SlotsGrowSlower
  <2>3. t = k => a = b
    OBVIOUS
  <2> HIDE DEF a, b
  <2> QED
    BY <1>2, <2>1, <2>2, <2>3
<1>4. ~ (t <= k) => b - a <= y - x /\ a < b
  BY SlotsGrow, SlotsGrowSlower
<1>5. \A m \in Int : Fits(m, OffsetBits) <=> -h <= m /\ m <= h - 1
  BY <1>1 DEF Fits
<1> HIDE DEF a, b, x, y, h
<1>6. y - x - 1 \in Int /\ b - a - 1 \in Int
  BY <1>2
<1>7. -h <= y - x - 1 /\ y - x - 1 <= h - 1
  BY <1>5, <1>6 DEF x, y
<1>8. -h <= b - a - 1 /\ b - a - 1 <= h - 1
  BY <1>1, <1>2, <1>3, <1>4, <1>7
<1> QED
  BY <1>5, <1>6, <1>8 DEF a, b

(* No two instructions in a row that the decoder would merge. *)
NoPairs(p) ==
  \A k \in DOMAIN p : k + 1 \in DOMAIN p =>
    \A d : p[k].ins = shift32(d, "LSH") => p[k + 1].ins \notin {shift32(d, "RSH"), shift32(d, "ARSH")}

(* What is known of a program that was decoded and encoded. *)
Source(p) ==
  /\ p \in Seq({p[k] : k \in DOMAIN p}) /\ p # <<>>
  /\ \A k \in DOMAIN p :
       /\ p[k].ins.kind = "jmp" => p[k].ins.target \in LabelsOf(p)
       /\ Near(SlotOf(p, k), Moved(p, p[k].ins))
       /\ Survives(p) /\ BothBases => Plain(p[k].ins)
  /\ NoPairs(p)

(* get_labels: a label is that of an instruction, and gets its slot. *)
LEMMA LabelSlot ==
  ASSUME NEW p, NEW l \in LabelsOf(p)
  PROVE  \E t \in DOMAIN p : p[t].label = l /\ get_labels(p)[l] = SlotOf(p, t)
<1> DEFINE t == CHOOSE k \in DOMAIN p : p[k].label = l
<1>1. t \in DOMAIN p /\ p[t].label = l
  BY DEF LabelsOf
<1>2. get_labels(p)[l] = SlotOf(p, t)
  BY DEF get_labels
<1> QED
  BY <1>1, <1>2

(* The decoded program, by position. *)
LEMMA ProgFacts ==
  ASSUME DecodeInv
  PROVE  /\ Len(prog) \in Nat /\ DOMAIN prog = 1..Len(prog)
         /\ \A k \in 1..Len(prog) : prog[k].label \in Nat /\ InsOK(prog[k].ins)
         /\ \A k \in 1..Len(prog) : k + 1 \in 1..Len(prog) =>
              prog[k + 1].label = prog[k].label + Width(prog[k].label, prog[k].ins)
<1>1. prog \in Seq({prog[k] : k \in DOMAIN prog})
  BY DEF DecodeInv, ProgOK
<1>2. Len(prog) \in Nat /\ DOMAIN prog = 1..Len(prog)
  BY <1>1, LenProperties
<1>3. \A k \in 1..Len(prog) : prog[k].label \in Nat /\ InsOK(prog[k].ins)
  BY <1>2 DEF DecodeInv, ProgOK
<1>4. ASSUME NEW k \in 1..Len(prog), k + 1 \in 1..Len(prog)
      PROVE  prog[k + 1].label = prog[k].label + Width(prog[k].label, prog[k].ins)
  <2>1. k # Len(prog)
    <3> DEFINE n == Len(prog)
    <3>1. n \in Nat /\ k + 1 \in 1..n
      BY <1>2, <1>4
    <3> HIDE DEF n
    <3>2. k # n
      BY <3>1
    <3> QED
      BY <3>2 DEF n
  <2> QED
    BY <1>2, <2>1 DEF DecodeInv, SlotsAreCovered
<1> QED
  BY <1>2, <1>3, <1>4

(* Merged pairs make labels grow faster than slots. *)
LEMMA ProgIsStretched ==
  ASSUME DecodeInv
  PROVE  Stretched(prog, Len(prog))
<1> SUFFICES ASSUME NEW k \in 1..Len(prog)
             PROVE  /\ prog[k].label \in Nat
                    /\ k + 1 \in 1..Len(prog) => prog[k + 1].label >= prog[k].label + size(prog[k].ins)
  BY DEF Stretched
<1>1. prog[k].label \in Nat
  BY ProgFacts
<1>2. Width(prog[k].label, prog[k].ins) \in {size(prog[k].ins), 2}
  BY DEF Width
<1>3. size(prog[k].ins) \in {1, 2}
  BY SizeFacts
<1>4. k + 1 \in 1..Len(prog) => prog[k + 1].label = prog[k].label + Width(prog[k].label, prog[k].ins)
  BY ProgFacts
<1> QED
  BY <1>1, <1>2, <1>3, <1>4

(* Shifts next to each other in the program were so in the raw one, and would have been merged there. *)
LEMMA ProgHasNoPairs ==
  ASSUME DecodeInv, KeptInv
  PROVE  NoPairs(prog)
<1> SUFFICES ASSUME NEW k \in DOMAIN prog, k + 1 \in DOMAIN prog, NEW d, NEW op \in {"RSH", "ARSH"},
                    prog[k].ins = shift32(d, "LSH"), prog[k + 1].ins = shift32(d, op)
             PROVE  FALSE
  BY DEF NoPairs
<1> DEFINE l == prog[k].label
<1>1. /\ l + 1 <= Len(insts) /\ ~ IsPair(l)
      /\ insts[l + 1].opcode = 103 /\ insts[l + 1].imm = 32 /\ insts[l + 1].dst = d
  BY DEF KeptInv, ShiftAt, ShiftCode
<1>2. size(prog[k].ins) = 1
  BY DEF shift32, BinIns, size
<1>3. l \in Nat /\ prog[k + 1].label = l + 1
  <2>1. k \in 1..Len(prog) /\ k + 1 \in 1..Len(prog)
    BY ProgFacts
  <2>2. Width(l, prog[k].ins) = 1
    BY <1>1, <1>2 DEF Width
  <2> QED
    BY <2>1, <2>2, ProgFacts
<1>4. /\ (l + 1) + 1 <= Len(insts)
      /\ insts[(l + 1) + 1].opcode = ShiftCode[op] /\ insts[(l + 1) + 1].imm = 32 /\ insts[(l + 1) + 1].dst = d
  BY <1>3 DEF KeptInv, ShiftAt
<1>5. ShiftCode[op] \in {119, 199}
  BY DEF ShiftCode
<1>6. (l + 1) + 1 = l + 2
  BY <1>3
<1> HIDE DEF l
<1> QED
  BY <1>1, <1>4, <1>5, <1>6 DEF IsPair

(* The program that is encoded. *)
LEMMA ProgIsASource ==
  ASSUME DecodeInv, KeptInv, first = None, prog # <<>>, \A k \in DOMAIN prog : Encodes(prog, prog[k].ins)
  PROVE  Source(prog)
<1>1. prog \in Seq({prog[k] : k \in DOMAIN prog})
  BY DEF DecodeInv, ProgOK
<1>2. ASSUME NEW k \in DOMAIN prog
      PROVE  /\ prog[k].ins.kind = "jmp" => prog[k].ins.target \in LabelsOf(prog)
             /\ Near(SlotOf(prog, k), Moved(prog, prog[k].ins))
             /\ Survives(prog) /\ BothBases => Plain(prog[k].ins)
  <2> DEFINE ins == prog[k].ins
             l == prog[k].label
  <2>1. Encodes(prog, ins) /\ Kept(ins) /\ PairAt(l, ins) /\ Near(l, ins)
    BY <1>2 DEF KeptInv
  <2>2. InsOK(ins) /\ RegistersOK(ins) /\ (IF IsPair(l) THEN {"base64"} ELSE Needs(ins)) \subseteq groups
    BY <1>2, ProgFacts DEF DecodeInv, InstructionsAreValid
  <2>3. ins.kind = "jmp" => ins.target \in LabelsOf(prog)
    BY <2>1 DEF Encodes
  <2>4. Near(SlotOf(prog, k), Moved(prog, ins))
    <3>1. CASE ins.kind # "jmp" \/ ins.cond = None
      <4>1. CASE ins.kind # "jmp"
        BY <4>1, NotNear DEF Moved
      <4>2. CASE ins.kind = "jmp" /\ ins.cond = None
        <5> DEFINE j == Moved(prog, ins)
                   t == get_labels(prog)[ins.target]
        <5>1. j = [ins EXCEPT !.target = t] /\ JmpOK(ins)
          BY <2>2, <4>2, Kinds DEF Moved
        <5> HIDE DEF j, t, ins
        <5>2. j.cond = None
          BY <4>2, <5>1 DEF JmpOK
        <5> QED
          BY <5>2 DEF Near, j, ins
      <4> QED
        BY <3>1, <4>1, <4>2
    <3>2. CASE ins.kind = "jmp" /\ ins.cond # None
      <4>1. PICK t \in DOMAIN prog : prog[t].label = ins.target /\ get_labels(prog)[ins.target] = SlotOf(prog, t)
        BY <2>3, <3>2, LabelSlot
      <4>2. Fits(prog[t].label - l - 1, OffsetBits)
        BY <2>1, <3>2, <4>1 DEF Near
      <4>3. Len(prog) \in Nat /\ k \in 1..Len(prog) /\ t \in 1..Len(prog)
        BY <1>2, ProgFacts
      <4>4. Fits(SlotOf(prog, t) - SlotOf(prog, k) - 1, OffsetBits)
        BY <4>2, <4>3, ProgIsStretched, JumpsStayNear
      <4> DEFINE j == Moved(prog, ins)
                 s == SlotOf(prog, t)
      <4>5. j = [ins EXCEPT !.target = s] /\ JmpOK(ins)
        BY <2>2, <3>2, <4>1, Kinds DEF Moved
      <4> HIDE DEF j, s, ins
      <4>6. j.target = s
        BY <4>5 DEF JmpOK
      <4> QED
        BY <4>4, <4>6 DEF Near, j, s, ins
    <3> QED
      BY <3>1, <3>2
  <2>5. ASSUME Survives(prog), BothBases PROVE Plain(ins)
    <3>1. Needs(ins) \subseteq groups
      <4>1. CASE ~ IsPair(l)
        BY <2>2, <4>1
      <4>2. CASE IsPair(l)
        <5>1. ins.kind = "bin" /\ ins.op \in {"MOV", "MOVSX32"}
          BY <2>1, <4>2 DEF PairAt
        <5>2. Needs(ins) \subseteq {"base32", "base64"}
          BY <5>1, BinFacts
        <5> QED
          BY <2>5, <5>2 DEF BothBases
      <4> QED
        BY <4>1, <4>2
    <3>2. ins.kind # "call_local" /\ (ins.kind = "jmp" /\ ins.cond # None => ins.cond.is64)
      BY <1>2, <2>5 DEF Survives
    <3> QED
      BY <2>1, <2>2, <3>1, <3>2 DEF Plain, Encodes
  <2> QED
    BY <2>3, <2>4, <2>5
<1> QED
  BY <1>1, <1>2, ProgHasNoPairs DEF Source

Target(p, k) == Moved(p, p[k].ins)

(* Where the slots of an instruction are. *)
LaidOut(raw, p, n) ==
  /\ Len(raw) = SlotOf(p, n + 1)
  /\ \A k \in 1..n :
       LET m == marshal(Target(p, k), SlotOf(p, k))
       IN  \A j \in 1..size(p[k].ins) : raw[SlotOf(p, k) + j] = m[j]

(* Its instructions after their targets have moved. *)
LEMMA SourceFacts ==
  ASSUME NEW p, Source(p), Survives(p), BothBases
  PROVE  /\ Len(p) \in Nat \ {0} /\ DOMAIN p = 1..Len(p)
         /\ \A k \in 1..Len(p) :
              /\ Plain(Target(p, k)) /\ size(Target(p, k)) = size(p[k].ins)
              /\ Near(SlotOf(p, k), Target(p, k))
              /\ Target(p, k).kind = p[k].ins.kind
              /\ Target(p, k).kind = "jmp" => \E t \in 1..Len(p) : Target(p, k).target = SlotOf(p, t)
<1>1. Len(p) \in Nat /\ DOMAIN p = 1..Len(p)
  BY LenProperties DEF Source
<1>2. Len(p) # 0
  BY EmptySeq DEF Source
<1>3. ASSUME NEW k \in 1..Len(p)
      PROVE  /\ Plain(Target(p, k)) /\ size(Target(p, k)) = size(p[k].ins)
             /\ Near(SlotOf(p, k), Target(p, k))
             /\ Target(p, k).kind = p[k].ins.kind
             /\ Target(p, k).kind = "jmp" => \E t \in 1..Len(p) : Target(p, k).target = SlotOf(p, t)
  <2> DEFINE ins == p[k].ins
  <2>1. /\ ins.kind = "jmp" => ins.target \in LabelsOf(p)
        /\ Near(SlotOf(p, k), Target(p, k)) /\ Plain(ins)
    BY <1>1, <1>3 DEF Source, Target
  <2>2. ASSUME ins.kind = "jmp"
        PROVE  \E t \in 1..Len(p) : get_labels(p)[ins.target] = SlotOf(p, t) /\ SlotOf(p, t) \in Int
    <3>1. PICK t \in DOMAIN p : get_labels(p)[ins.target] = SlotOf(p, t)
      BY <2>1, <2>2, LabelSlot
    <3>2. t \in 1..Len(p) /\ t \in Nat
      BY <1>1
    <3> QED
      BY <3>1, <3>2, SlotOfIsANumber
  <2> HIDE DEF ins
  <2>3. Target(p, k) = Moved(p, ins)
    BY DEF Target, ins
  <2>4. /\ Plain(Moved(p, ins)) /\ size(Moved(p, ins)) = size(ins) /\ Moved(p, ins).kind = ins.kind
        /\ ins.kind = "jmp" => Moved(p, ins).target = get_labels(p)[ins.target]
    BY <2>1, <2>2, MovedIsPlain
  <2> QED
    BY <2>1, <2>2, <2>3, <2>4 DEF ins
<1> QED
  BY <1>1, <1>2, <1>3

(* Where the encoder puts them. *)
LEMMA SourceIsLaidOut ==
  ASSUME NEW p, Source(p), Survives(p), BothBases
  PROVE  LaidOut(MarshalProgram(p), p, Len(p))
<1> DEFINE n == Len(p)
           e == [k \in DOMAIN p |-> marshal(Moved(p, p[k].ins), SlotOf(p, k))]
           off == [k \in 1..(n + 1) |-> SlotOf(p, k)]
           u == MarshalProgram(p)
<1>1. n \in Nat \ {0} /\ DOMAIN p = 1..n
  BY SourceFacts
<1>2. ASSUME NEW k \in 1..n
      PROVE  e[k] = marshal(Target(p, k), SlotOf(p, k)) /\ e[k] \in Seq(Slot) /\ Len(e[k]) = size(p[k].ins)
  <2>1. e[k] = marshal(Target(p, k), SlotOf(p, k))
    BY <1>1, <1>2 DEF Target
  <2>2. SlotOf(p, k) \in Int
    BY <1>1, SlotOfIsANumber
  <2>3. Plain(Target(p, k)) /\ size(Target(p, k)) = size(p[k].ins)
    BY SourceFacts
  <2>4. Shaped(marshal(Target(p, k), SlotOf(p, k)), Target(p, k))
    BY <2>2, <2>3, MarshalShape
  <2> HIDE DEF e, n
  <2> QED
    BY <2>1, <2>3, <2>4 DEF Shaped
<1>3. u = FlattenSeq(e)
  BY DEF MarshalProgram
<1>4. e \in Seq(Seq(Slot)) /\ Len(e) = n
  <2>1. e = [k \in 1..n |-> e[k]]
    BY <1>1
  <2>2. \A k \in 1..n : e[k] \in Seq(Slot)
    BY <1>2
  <2> HIDE DEF e, n
  <2>3. e \in Seq(Seq(Slot))
    BY <1>1, <2>1, <2>2, SeqDef
  <2>4. DOMAIN e = 1..n
    BY <2>1
  <2> QED
    BY <1>1, <2>3, <2>4, LenProperties
<1>5. Starts(e, n, off)
  <2>1. off[1] = 0
    BY <1>1, SlotSteps
  <2>2. ASSUME NEW k \in 1..n
        PROVE  off[k] \in Nat /\ off[k + 1] \in Nat /\ off[k + 1] = off[k] + Len(e[k])
    <3>1. k \in Nat \ {0} /\ k + 1 \in Nat \ {0} /\ k \in 1..(n + 1) /\ k + 1 \in 1..(n + 1)
      BY <1>1
    <3>2. off[k] = SlotOf(p, k) /\ off[k + 1] = SlotOf(p, k + 1)
      BY <3>1
    <3>3. SlotOf(p, k) \in Nat /\ SlotOf(p, k + 1) \in Nat /\ SlotOf(p, k + 1) = SlotOf(p, k) + size(p[k].ins)
      BY <3>1, SlotSteps
    <3> HIDE DEF off, e, n
    <3> QED
      BY <1>2, <3>2, <3>3
  <2> HIDE DEF off, e, n
  <2> QED
    BY <2>1, <2>2 DEF Starts
<1>6. Len(u) = off[n + 1] /\ \A k \in 1..n : PlacedAt(u, off, e[k], k)
  <2>1. n \in Nat /\ n = Len(e) /\ n # 0
    BY <1>1, <1>4
  <2> HIDE DEF u, off, e, n
  <2> QED
    BY <1>3, <1>4, <1>5, <2>1, FlattenLayout
<1>7. Len(u) = SlotOf(p, n + 1)
  <2>1. off[n + 1] = SlotOf(p, n + 1)
    BY <1>1
  <2> QED
    BY <1>6, <2>1
<1>8. ASSUME NEW k \in 1..n, NEW j \in 1..size(p[k].ins)
      PROVE  u[SlotOf(p, k) + j] = marshal(Target(p, k), SlotOf(p, k))[j]
  <2>1. off[k] = SlotOf(p, k)
    BY <1>1
  <2>2. Len(e[k]) = size(p[k].ins) /\ e[k] = marshal(Target(p, k), SlotOf(p, k))
    BY <1>2
  <2> HIDE DEF u, off, e
  <2> QED
    BY <1>6, <2>1, <2>2 DEF PlacedAt
<1> HIDE DEF u
<1> QED
  BY <1>7, <1>8 DEF LaidOut, n, u

(* Every instruction of the encoded program is read again at its slot. *)
SlotsRead(raw, p, k) ==
  LET at == SlotOf(p, k)
      ins == Target(p, k)
  IN  \/ /\ size(p[k].ins) = 2 /\ at + 1 < Len(raw) /\ raw[at + 1].opcode = INST_OP_LDDW_IMM
         /\ makeLddw(raw[at + 1], raw[at + 2], groups) = ins
      \/ /\ size(p[k].ins) = 1 /\ Class(raw[at + 1]) \in {LD, LDX, ST, STX}
         /\ raw[at + 1].opcode # INST_OP_LDDW_IMM /\ makeMemOp(raw[at + 1], groups) = ins
      \/ /\ size(p[k].ins) = 1 /\ Class(raw[at + 1]) \in {ALU, ALU64}
         /\ makeAluOp(raw[at + 1], groups) = ins
      \/ /\ size(p[k].ins) = 1 /\ Class(raw[at + 1]) \in {JMP, JMP32}
         /\ makeJmp(raw, at, raw[at + 1], groups) = ins

(* The slots of an instruction are inside the program. *)
LEMMA EndsInside ==
  ASSUME NEW p, NEW n \in Nat, NEW k \in 1..n
  PROVE  SlotOf(p, k) \in Nat /\ SlotOf(p, k) + size(p[k].ins) <= SlotOf(p, n + 1)
<1>1. k \in Nat \ {0} /\ k + 1 \in Nat \ {0} /\ n + 1 \in Nat \ {0} /\ (k + 1 < n + 1 \/ k + 1 = n + 1)
  OBVIOUS
<1>2. SlotOf(p, k) \in Nat /\ SlotOf(p, n + 1) \in Nat /\ SlotOf(p, k + 1) = SlotOf(p, k) + size(p[k].ins)
  BY <1>1, SlotSteps
<1>3. SlotOf(p, k + 1) \in Nat
  BY <1>1, SlotSteps
<1>4. k + 1 < n + 1 => SlotOf(p, k + 1) < SlotOf(p, n + 1)
  BY <1>1, SlotsGrow
<1> QED
  BY <1>1, <1>2, <1>3, <1>4

(* The encoded program is read as the one it was written for. *)
LEMMA SourceIsRead ==
  ASSUME NEW p, Source(p), Survives(p), BothBases, NEW raw, raw = MarshalProgram(p), NEW k \in 1..Len(p)
  PROVE  SlotsRead(raw, p, k)
<1> DEFINE n == Len(p)
           at == SlotOf(p, k)
           ins == Target(p, k)
           m == marshal(ins, at)
           z == size(p[k].ins)
<1>1. n \in Nat \ {0}
  BY SourceFacts
<1>2. LaidOut(raw, p, n)
  BY SourceIsLaidOut
<1>3. /\ Plain(ins) /\ size(ins) = z /\ Near(at, ins)
      /\ ins.kind = "jmp" => \E t \in 1..n : ins.target = SlotOf(p, t)
  BY SourceFacts
<1>4. ASSUME NEW t \in 1..n
      PROVE  IsTarget(raw, SlotOf(p, t))
  <2> DEFINE s == SlotOf(p, t)
             c == size(p[t].ins)
  <2>1. s \in Nat /\ s + c <= Len(raw) /\ c \in {1, 2} /\ Len(raw) \in Int
    <3>1. s \in Nat /\ s + c <= SlotOf(p, n + 1)
      BY <1>1, EndsInside
    <3>2. SlotOf(p, n + 1) \in Int
      <4>1. n + 1 \in Nat
        BY <1>1
      <4> QED
        BY <4>1, SlotOfIsANumber
    <3> QED
      BY <1>2, <3>1, <3>2, SizeFacts DEF LaidOut
  <2>2. s \in 0..(Len(raw) - 1) /\ 1 \in 1..c
    <3> HIDE DEF s, c
    <3> QED
      BY <2>1
  <2>3. raw[s + 1] = marshal(Target(p, t), s)[1]
    BY <1>2, <2>2 DEF LaidOut
  <2>4. Plain(Target(p, t))
    BY SourceFacts
  <2>5. s \in Int
    BY <2>1
  <2>6. marshal(Target(p, t), s)[1].opcode # 0
    BY <2>4, <2>5, MarshalShape DEF Shaped
  <2> QED
    BY <2>2, <2>3, <2>6 DEF IsTarget
<1>5. ins.kind = "jmp" => IsTarget(raw, ins.target)
  BY <1>3, <1>4
<1>6. at \in Nat /\ at + z <= Len(raw) /\ Len(raw) \in Int
  <2>1. at \in Nat /\ at + z <= SlotOf(p, n + 1)
    BY <1>1, EndsInside
  <2>2. n + 1 \in Nat
    BY <1>1
  <2> QED
    BY <1>2, <2>1, <2>2, SlotOfIsANumber DEF LaidOut
<1>7. ReadsAs(m, raw, at, ins)
  <2>1. at \in Int
    BY <1>6
  <2> HIDE DEF at, ins
  <2> QED
    BY <1>3, <1>5, <2>1, InsIsReread
<1>8. \A j \in 1..z : raw[at + j] = m[j]
  BY <1>2 DEF LaidOut
<1>9. z \in {1, 2}
  BY SizeFacts
<1>10. raw[at + 1] = m[1] /\ (z = 2 => raw[at + 2] = m[2] /\ at + 1 < Len(raw))
  <2> HIDE DEF z, at, m
  <2> QED
    BY <1>6, <1>8, <1>9
<1> HIDE DEF at, ins, m, z
<1>11. ReadsAsLddw(m, ins) =>
         raw[at + 1].opcode = INST_OP_LDDW_IMM /\ makeLddw(m[1], m[2], groups) = ins
  BY <1>10 DEF ReadsAsLddw
<1>12. ReadsAsMem(m, ins) => /\ Class(raw[at + 1]) \in {LD, LDX, ST, STX} /\ raw[at + 1].opcode # INST_OP_LDDW_IMM
                             /\ makeMemOp(raw[at + 1], groups) = ins
  BY <1>10 DEF ReadsAsMem
<1>13. ReadsAsAlu(m, ins) => Class(raw[at + 1]) \in {ALU, ALU64} /\ makeAluOp(raw[at + 1], groups) = ins
  BY <1>10 DEF ReadsAsAlu
<1>14. ReadsAsJmp(m, raw, at, ins) => Class(raw[at + 1]) \in {JMP, JMP32} /\ makeJmp(raw, at, raw[at + 1], groups) = ins
  BY <1>10 DEF ReadsAsJmp
<1>15. \/ z = 2 /\ ReadsAsLddw(m, ins)
       \/ z = 1 /\ (ReadsAsMem(m, ins) \/ ReadsAsAlu(m, ins) \/ ReadsAsJmp(m, raw, at, ins))
  BY <1>3, <1>7 DEF ReadsAs
<1>16. \/ /\ z = 2 /\ at + 1 < Len(raw) /\ raw[at + 1].opcode = INST_OP_LDDW_IMM
          /\ makeLddw(raw[at + 1], raw[at + 2], groups) = ins
       \/ /\ z = 1 /\ Class(raw[at + 1]) \in {LD, LDX, ST, STX}
          /\ raw[at + 1].opcode # INST_OP_LDDW_IMM /\ makeMemOp(raw[at + 1], groups) = ins
       \/ /\ z = 1 /\ Class(raw[at + 1]) \in {ALU, ALU64}
          /\ makeAluOp(raw[at + 1], groups) = ins
       \/ /\ z = 1 /\ Class(raw[at + 1]) \in {JMP, JMP32}
          /\ makeJmp(raw, at, raw[at + 1], groups) = ins
  BY <1>10, <1>11, <1>12, <1>13, <1>14, <1>15
<1> QED
  BY <1>16 DEF SlotsRead, at, ins, z

-----------------------------------------------------------------------------
(***************************************************************************)
(* ReplayInv: the second decoding follows the first program.               *)
(***************************************************************************)
(* The second decoding has read a part of the first program. *)
Replayed(p) ==
  /\ status \in {"decoding", "done"}
  /\ Len(prog) <= Len(p)
  /\ \A k \in 1..Len(prog) : prog[k] = [label |-> SlotOf(p, k), ins |-> Target(p, k)]
  /\ pc = SlotOf(p, Len(prog) + 1)

(* What holds while the program is decoded again. *)
Again(p) == Source(p) /\ insts = MarshalProgram(p) /\ (Survives(p) /\ BothBases => Replayed(p))

ReplayInv ==
  /\ status = "done" => insts # <<>>
  /\ \A p : p = first /\ p # None => Again(p)

(* The next instruction of the first program is decoded. *)
LEMMA EmitReplays ==
  ASSUME DecodeInv, NEW p, Len(p) \in Nat, Replayed(p), status = "decoding", Len(prog) + 1 \in 1..Len(p),
         NEW ins, ins = Target(p, Len(prog) + 1), ~ Failed(ins),
         NEW slots, slots = size(p[Len(prog) + 1].ins), Emit(ins, slots)
  PROVE  Replayed(p)'
<1> DEFINE n == Len(prog)
           e == [label |-> pc, ins |-> ins]
           l == Len(p)
<1>1. prog' = Append(prog, e) /\ pc' = pc + slots /\ status' = status
  BY DEF Emit
<1>2. prog \in Seq({prog[k] : k \in DOMAIN prog})
  BY DEF DecodeInv, ProgOK
<1>3. /\ n \in Nat /\ Len(prog') = n + 1
      /\ \A k \in 1..n : prog'[k] = prog[k]
      /\ prog'[n + 1] = e
  <2> HIDE DEF e
  <2> QED
    BY <1>1, <1>2, AppendFacts
<1>4. pc = SlotOf(p, n + 1)
  BY DEF Replayed
<1>5. pc' = SlotOf(p, (n + 1) + 1)
  <2>1. n + 1 \in Nat \ {0}
    BY <1>3
  <2> QED
    BY <1>1, <1>4, <2>1, SlotSteps
<1>6. n + 1 <= l
  <2>1. l \in Nat /\ n + 1 \in 1..l
    OBVIOUS
  <2> HIDE DEF n, l
  <2> QED
    BY <2>1
<1>7. ASSUME NEW k \in 1..(n + 1)
      PROVE  prog'[k] = [label |-> SlotOf(p, k), ins |-> Target(p, k)]
  <2>1. k \in 1..n \/ k = n + 1
    BY <1>3
  <2>2. k = n + 1 => prog'[k] = [label |-> SlotOf(p, k), ins |-> Target(p, k)]
    BY <1>3, <1>4
  <2>3. \A i \in 1..n : prog[i] = [label |-> SlotOf(p, i), ins |-> Target(p, i)]
    BY DEF Replayed
  <2> QED
    BY <1>3, <2>1, <2>2, <2>3
<1>8. status' \in {"decoding", "done"}
  BY <1>1
<1> HIDE DEF n, l, e
<1> QED
  BY <1>3, <1>5, <1>6, <1>7, <1>8 DEF Replayed, l

(* The decoder stands on an instruction of the first program. *)
LEMMA ReplayPosition ==
  ASSUME DecodeInv, NEW p, Source(p), Survives(p), BothBases, insts = MarshalProgram(p), Replayed(p), Decoding
  PROVE  /\ Len(prog) + 1 \in 1..Len(p) /\ Len(p) \in Nat
         /\ pc = SlotOf(p, Len(prog) + 1)
         /\ SlotsRead(insts, p, Len(prog) + 1)
         /\ ~ Failed(Target(p, Len(prog) + 1))
         /\ status = "decoding"
<1> DEFINE n == Len(prog)
           l == Len(p)
<1>1. n \in Nat /\ l \in Nat \ {0}
  BY ProgFacts, SourceFacts
<1>2. pc = SlotOf(p, n + 1) /\ n <= l /\ status = "decoding" /\ pc < Len(insts)
  BY DEF Replayed, Decoding
<1>3. Len(insts) = SlotOf(p, l + 1)
  BY SourceIsLaidOut DEF LaidOut
<1>4. n + 1 \in 1..l
  <2>1. SlotOf(p, l + 1) \in Int
    <3>1. l + 1 \in Nat
      BY <1>1
    <3> QED
      BY <3>1, SlotOfIsANumber
  <2>2. ~ (pc < pc)
    BY DEF DecodeInv, PcOK
  <2>3. n # l
    BY <1>2, <1>3, <2>2
  <2> HIDE DEF n, l
  <2> QED
    BY <1>1, <1>2, <2>3
<1>5. SlotsRead(insts, p, n + 1)
  BY <1>4, SourceIsRead
<1>6. ~ Failed(Target(p, n + 1))
  <2>1. InsOK(Target(p, n + 1))
    BY <1>4, SourceFacts DEF Plain
  <2> QED
    BY <2>1, Kinds DEF Failed
<1> QED
  BY <1>1, <1>2, <1>4, <1>5, <1>6

Replays(p) == Source(p) /\ Survives(p) /\ BothBases /\ insts = MarshalProgram(p) /\ Replayed(p)

(* The four kinds of steps: the class of the slot says which way it is     *)
(* read.                                                                   *)
LEMMA DecodeLddwReplays ==
  ASSUME DecodeInv, NEW p, Replays(p), DecodeLddw
  PROVE  Replayed(p)'
<1> DEFINE k == Len(prog) + 1
           ins == Target(p, k)
           x == IF HasNext THEN makeLddw(Current, insts[pc + 2], groups) ELSE Invalid
<1>1. Decoding /\ Current.opcode = 24 /\ Emit(x, 2)
  BY DEF DecodeLddw, INST_OP_LDDW_IMM
<1>2. /\ k \in 1..Len(p) /\ Len(p) \in Nat /\ pc = SlotOf(p, k) /\ SlotsRead(insts, p, k)
      /\ ~ Failed(ins) /\ status = "decoding"
  BY <1>1, ReplayPosition DEF Replays
<1>3. Class(Current) = 0
  BY <1>1 DEF Class
<1>4. size(p[k].ins) = 2 /\ pc + 1 < Len(insts) /\ makeLddw(Current, insts[pc + 2], groups) = ins
  BY <1>1, <1>2, <1>3 DEF SlotsRead, Current, ALU, ALU64, JMP, JMP32, INST_OP_LDDW_IMM
<1>5. x = ins
  BY <1>4 DEF HasNext
<1> HIDE DEF ins, x
<1>6. Emit(ins, 2)
  BY <1>1, <1>5
<1> QED
  BY <1>2, <1>4, <1>6, EmitReplays DEF Replays, ins

LEMMA DecodeMemReplays ==
  ASSUME DecodeInv, NEW p, Replays(p), DecodeMem
  PROVE  Replayed(p)'
<1> DEFINE k == Len(prog) + 1
           ins == Target(p, k)
<1>1. Decoding /\ Current.opcode # INST_OP_LDDW_IMM /\ Class(Current) \in {0, 1, 2, 3} /\ Emit(makeMemOp(Current, groups), 1)
  BY DEF DecodeMem, LD, LDX, ST, STX
<1>2. /\ k \in 1..Len(p) /\ Len(p) \in Nat /\ pc = SlotOf(p, k) /\ SlotsRead(insts, p, k)
      /\ ~ Failed(ins) /\ status = "decoding"
  BY <1>1, ReplayPosition DEF Replays
<1>4. size(p[k].ins) = 1 /\ makeMemOp(Current, groups) = ins
  BY <1>1, <1>2 DEF SlotsRead, Current, ALU, ALU64, JMP, JMP32
<1> HIDE DEF ins
<1>6. Emit(ins, 1)
  BY <1>1, <1>4
<1> QED
  BY <1>2, <1>4, <1>6, EmitReplays DEF Replays, ins

LEMMA DecodeJmpReplays ==
  ASSUME DecodeInv, NEW p, Replays(p), DecodeJmp
  PROVE  Replayed(p)'
<1> DEFINE k == Len(prog) + 1
           ins == Target(p, k)
<1>1. Decoding /\ Class(Current) \in {5, 6} /\ Emit(makeJmp(insts, pc, Current, groups), 1)
  BY DEF DecodeJmp, JMP, JMP32
<1>2. /\ k \in 1..Len(p) /\ Len(p) \in Nat /\ pc = SlotOf(p, k) /\ SlotsRead(insts, p, k)
      /\ ~ Failed(ins) /\ status = "decoding"
  BY <1>1, ReplayPosition DEF Replays
<1>3. Current.opcode = INST_OP_LDDW_IMM => Class(Current) = 0
  BY DEF Class, INST_OP_LDDW_IMM
<1>4. size(p[k].ins) = 1 /\ makeJmp(insts, pc, Current, groups) = ins
  BY <1>1, <1>2, <1>3 DEF SlotsRead, Current, ALU, ALU64, LD, LDX, ST, STX
<1> HIDE DEF ins
<1>6. Emit(ins, 1)
  BY <1>1, <1>4
<1> QED
  BY <1>2, <1>4, <1>6, EmitReplays DEF Replays, ins

(* A shift is not merged: the one that follows it is what it was when the  *)
(* program was decoded first.                                              *)
LEMMA DecodeAluReplays ==
  ASSUME DecodeInv, NEW p, Replays(p), DecodeAlu
  PROVE  Replayed(p)'
<1> DEFINE k == Len(prog) + 1
           ins == Target(p, k)
           next == makeAluOp(insts[pc + 2], groups)
           looks == /\ HasNext /\ ~ Failed(ins) /\ ins = shift32(Current.dst, "LSH")
                    /\ Class(insts[pc + 2]) = ALU64
<1>1. Decoding /\ Class(Current) \in {4, 7}
  BY DEF DecodeAlu, ALU, ALU64
<1>2. /\ k \in 1..Len(p) /\ Len(p) \in Nat /\ pc = SlotOf(p, k) /\ SlotsRead(insts, p, k)
      /\ ~ Failed(ins) /\ status = "decoding"
  BY <1>1, ReplayPosition DEF Replays
<1>3. Current.opcode = INST_OP_LDDW_IMM => Class(Current) = 0
  BY DEF Class, INST_OP_LDDW_IMM
<1>4. size(p[k].ins) = 1 /\ makeAluOp(Current, groups) = ins
  BY <1>1, <1>2, <1>3 DEF SlotsRead, Current, JMP, JMP32, LD, LDX, ST, STX
<1>5. \/ ~ looks /\ Emit(ins, 1)
      \/ looks /\ Failed(next) /\ Emit(next, 1)
      \/ looks /\ Merged(ins, next) # None /\ Emit(Merged(ins, next), 2)
      \/ looks /\ Emit(ins, 1)
  <2> HIDE DEF next, looks, ins
  <2>1. IF ~ looks THEN Emit(ins, 1)
        ELSE IF Failed(next) THEN Emit(next, 1)
        ELSE IF Merged(ins, next) # None THEN Emit(Merged(ins, next), 2)
        ELSE Emit(ins, 1)
    BY <1>4, Zenon DEF DecodeAlu, next, looks
  <2> QED
    BY <2>1
<1>6. ASSUME looks
      PROVE  ~ Failed(next) /\ Merged(ins, next) = None
  <2> DEFINE d == Current.dst
             n == Len(p)
  <2>1. ins = shift32(d, "LSH") /\ HasNext /\ Class(insts[pc + 2]) = 7
    BY <1>6 DEF ALU64
  <2>2. k \in Nat \ {0} /\ n \in Nat /\ k \in 1..n
    <3>1. Len(prog) \in Nat
      BY ProgFacts
    <3> QED
      BY <1>2, <3>1
  <2>3. SlotOf(p, k + 1) = pc + 1 /\ pc \in Nat
    BY <1>2, <1>4, <2>2, SlotSteps
  <2>4. k + 1 \in 1..n
    <3>1. Len(insts) = SlotOf(p, n + 1)
      BY SourceIsLaidOut DEF LaidOut, Replays
    <3>2. pc + 1 < Len(insts)
      BY <2>1 DEF HasNext
    <3>3. ~ (pc + 1 < pc + 1)
      BY <2>3
    <3>4. k # n
      BY <2>3, <3>1, <3>2, <3>3
    <3> HIDE DEF k, n
    <3> QED
      BY <2>2, <3>4
  <2>5. SlotsRead(insts, p, k + 1)
    BY <2>4, SourceIsRead DEF Replays
  <2> DEFINE b == insts[pc + 2]
             other == Target(p, k + 1)
  <2>6. (pc + 1) + 1 = pc + 2
    BY <2>3
  <2>7. b.opcode = INST_OP_LDDW_IMM => Class(b) = 0
    BY DEF Class, INST_OP_LDDW_IMM
  <2>8. next = other
    <3> HIDE DEF other, k
    <3> QED
      BY <2>1, <2>3, <2>5, <2>6, <2>7 DEF SlotsRead, other, JMP, JMP32, LD, LDX, ST, STX
  <2>9. InsOK(other)
    BY <2>4, SourceFacts DEF Replays, Plain
  <2>10. ~ Failed(next)
    BY <2>8, <2>9, Kinds DEF Failed
  <2>11. ins.dst = d
    BY <2>1 DEF shift32, BinIns
  <2>12. ins = p[k].ins
    <3>1. ins.kind = "bin"
      BY <2>1 DEF shift32, BinIns
    <3>2. ins.kind = p[k].ins.kind
      BY <1>2, SourceFacts DEF Replays
    <3> QED
      BY <3>1, <3>2 DEF Target, Moved
  <2>13. next \notin {shift32(d, "RSH"), shift32(d, "ARSH")}
    <3>1. k \in DOMAIN p /\ k + 1 \in DOMAIN p
      BY <1>2, <2>4, SourceFacts DEF Replays
    <3>2. p[k + 1].ins \notin {shift32(d, "RSH"), shift32(d, "ARSH")}
      BY <2>1, <2>12, <3>1 DEF Replays, Source, NoPairs
    <3>3. \A op : shift32(d, op).kind = "bin"
      BY DEF shift32, BinIns
    <3>4. other.kind = p[k + 1].ins.kind
      BY <2>4, SourceFacts DEF Replays
    <3>5. other.kind = "bin" => other = p[k + 1].ins
      BY <3>4 DEF Target, Moved
    <3> HIDE DEF other, next
    <3> QED
      BY <2>8, <3>2, <3>3, <3>5
  <2> HIDE DEF ins, next, d
  <2>14. Merged(ins, next) = None
    BY <2>11, <2>13 DEF Merged
  <2> QED
    BY <2>10, <2>14
<1>7. Emit(ins, 1)
  <2> HIDE DEF looks, ins, next
  <2> QED
    BY <1>5, <1>6
<1> HIDE DEF ins
<1> QED
  BY <1>2, <1>4, <1>7, EmitReplays DEF Replays, ins

(* The groups do not change. *)
LEMMA SourceStays ==
  ASSUME NEW p, groups' = groups
  PROVE  (Source(p)' <=> Source(p)) /\ (BothBases' <=> BothBases)
BY DEF Source, BothBases, Plain

(* Decoding an instruction. *)
LEMMA DecodeKeepsReplay ==
  ASSUME DecodeInv, ReplayInv, DecodeLddw \/ DecodeMem \/ DecodeAlu \/ DecodeJmp
  PROVE  ReplayInv'
<1>1. UNCHANGED <<insts, groups, first>> /\ status = "decoding" /\ status' \in {"decoding", "thrown", "rejected"}
  <2>1. \A ins, slots : Emit(ins, slots) /\ status = "decoding" =>
          UNCHANGED <<insts, groups, first>> /\ status' \in {"decoding", "thrown", "rejected"}
    BY DEF Emit
  <2>2. Decoding /\ \E ins, slots : Emit(ins, slots)
    BY DEF DecodeLddw, DecodeMem, DecodeAlu, DecodeJmp
  <2> QED
    BY <2>1, <2>2 DEF Decoding
<1>2. ASSUME NEW p, p = first', p # None
      PROVE  Again(p)'
  <2>1. Again(p)
    BY <1>1, <1>2 DEF ReplayInv
  <2>2. Source(p)' /\ (insts = MarshalProgram(p))' /\ (BothBases' <=> BothBases)
    BY <1>1, <2>1, SourceStays DEF Again
  <2>3. ASSUME Survives(p), BothBases
        PROVE  Replayed(p)'
    <3>1. Replays(p)
      BY <2>1, <2>3 DEF Again, Replays
    <3> QED
      BY <3>1, DecodeLddwReplays, DecodeMemReplays, DecodeAluReplays, DecodeJmpReplays
  <2> QED
    BY <2>2, <2>3 DEF Again
<1> QED
  BY <1>1, <1>2 DEF ReplayInv

(* The end of a decoding. *)
LEMMA FinishKeepsReplay ==
  ASSUME DecodeInv, KeptInv, ReplayInv, Finish
  PROVE  KeptInv' /\ ReplayInv'
<1>1. UNCHANGED <<insts, groups, pc, prog, first>> /\ status = "decoding"
  BY DEF Finish
<1>2. KeptInv'
  BY <1>1, SameIsKept
<1>3. status' = "done" => insts' # <<>>
  BY <1>1 DEF Finish
<1>4. ASSUME NEW p, p = first', p # None
      PROVE  Again(p)'
  <2>1. Again(p)
    BY <1>1, <1>4 DEF ReplayInv
  <2>2. Source(p)' /\ (insts = MarshalProgram(p))' /\ (BothBases' <=> BothBases)
    BY <1>1, <2>1, SourceStays DEF Again
  <2>3. ASSUME Survives(p), BothBases
        PROVE  Replayed(p)'
    <3>1. Replayed(p) /\ Source(p) /\ insts = MarshalProgram(p)
      BY <2>1, <2>3 DEF Again
    <3>2. insts # <<>>
      <4>1. Len(insts) = SlotOf(p, Len(p) + 1)
        BY <2>3, <3>1, SourceIsLaidOut DEF LaidOut
      <4>2. Len(p) \in Nat \ {0}
        BY <2>3, <3>1, SourceFacts
      <4>3. 1 \in Nat \ {0} /\ Len(p) + 1 \in Nat \ {0} /\ 1 < Len(p) + 1
        BY <4>2
      <4>4. SlotOf(p, 1) < SlotOf(p, Len(p) + 1)
        BY <4>3, SlotsGrow
      <4>5. SlotOf(p, 1) = 0
        BY SlotSteps
      <4>6. Len(<<>>) = 0 /\ ~ (0 < 0)
        OBVIOUS
      <4> QED
        BY <4>1, <4>4, <4>5, <4>6
    <3>3. status' = "done"
      BY <3>2 DEF Finish
    <3> QED
      BY <1>1, <3>1, <3>3 DEF Replayed
  <2> QED
    BY <2>2, <2>3 DEF Again
<1> QED
  BY <1>2, <1>3, <1>4 DEF ReplayInv

(* The encoder starts the second decoding. *)
LEMMA MarshalStartsReplay ==
  ASSUME DecodeInv, KeptInv, ReplayInv, Marshal
  PROVE  KeptInv' /\ ReplayInv'
<1>1. status = "done" /\ first = None /\ groups' = groups
  BY DEF Marshal
<1>2. prog # <<>>
  <2>1. ASSUME prog = <<>> PROVE FALSE
    <3>1. pc = 0 /\ pc >= Len(insts) /\ insts \in Seq(Slot) /\ insts # <<>>
      BY <1>1, <2>1 DEF DecodeInv, PcOK, InstsOK, ReplayInv
    <3>2. Len(insts) \in Nat /\ Len(insts) # 0
      BY <3>1, LenProperties, EmptySeq
    <3> QED
      BY <3>1, <3>2
  <2> QED
    BY <2>1
<1>3. CASE \A k \in DOMAIN prog : Encodes(prog, prog[k].ins)
  <2>1. insts' = MarshalProgram(prog) /\ first' = prog /\ prog' = <<>> /\ pc' = 0 /\ status' = "decoding"
    BY <1>3 DEF Marshal
  <2>2. KeptInv'
    BY <1>2, <2>1 DEF KeptInv, None
  <2>3. ASSUME NEW p, p = first', p # None
        PROVE  Again(p)'
    <3>1. p = prog
      BY <2>1, <2>3
    <3>2. Source(p)
      BY <1>1, <1>2, <1>3, <3>1, ProgIsASource
    <3>3. Source(p)' /\ insts' = MarshalProgram(p)
      BY <1>1, <2>1, <3>1, <3>2, SourceStays
    <3>4. Replayed(p)'
      <4>1. Len(p) \in Nat
        BY <3>1, ProgFacts
      <4>2. Len(prog') = 0
        BY <2>1
      <4>3. SlotOf(p, 1) = 0
        BY SlotSteps
      <4>4. 1..0 = {} /\ 0 + 1 = 1
        OBVIOUS
      <4>5. \A k \in 1..Len(prog') : prog'[k] = [label |-> SlotOf(p, k), ins |-> Target(p, k)]
        BY <4>2, <4>4
      <4>6. pc' = SlotOf(p, Len(prog') + 1)
        BY <2>1, <4>2, <4>3, <4>4
      <4>7. Len(prog') <= Len(p)
        BY <4>1, <4>2
      <4> QED
        BY <2>1, <4>5, <4>6, <4>7 DEF Replayed
    <3> QED
      BY <3>3, <3>4 DEF Again
  <2> QED
    BY <2>1, <2>2, <2>3 DEF ReplayInv
<1>4. CASE ~ \A k \in DOMAIN prog : Encodes(prog, prog[k].ins)
  <2>1. status' = "thrown" /\ UNCHANGED <<insts, first, prog, pc>>
    BY <1>4 DEF Marshal
  <2>2. KeptInv'
    BY <2>1, SameIsKept
  <2> QED
    BY <1>1, <2>1, <2>2 DEF ReplayInv
<1> QED
  BY <1>3, <1>4

(* The invariant says that programs survive. *)
LEMMA ReplayIsARoundTrip ==
  ASSUME DecodeInv, ReplayInv
  PROVE  RoundTrip
<1> SUFFICES ASSUME first # None, Survives(first), BothBases
             PROVE  /\ status \in {"decoding", "done"}
                    /\ IsPrefix(prog, Relabelled(first))
                    /\ status = "done" => Len(prog) = Len(first)
  BY DEF RoundTrip, BothBases
<1>1. PICK p : p = first
  OBVIOUS
<1>2. Source(p) /\ insts = MarshalProgram(p) /\ Replayed(p) /\ Survives(p)
  BY <1>1 DEF ReplayInv, Again
<1> DEFINE n == Len(prog)
           l == Len(p)
<1>3. n \in Nat /\ l \in Nat \ {0} /\ DOMAIN p = 1..l /\ n <= l
  BY <1>2, ProgFacts, SourceFacts DEF Replayed
<1>4. status = "done" => n = l
  <2> SUFFICES ASSUME status = "done", n # l PROVE FALSE
    OBVIOUS
  <2>1. pc >= Len(insts) /\ Len(insts) = SlotOf(p, l + 1) /\ pc = SlotOf(p, n + 1)
    BY <1>2, SourceIsLaidOut DEF LaidOut, Replayed, DecodeInv, PcOK
  <2>2. n + 1 \in Nat \ {0} /\ l + 1 \in Nat \ {0} /\ n + 1 < l + 1
    <3> HIDE DEF n, l
    <3> QED
      BY <1>3
  <2>3. SlotOf(p, n + 1) < SlotOf(p, l + 1)
    BY <2>2, SlotsGrow
  <2>4. SlotOf(p, n + 1) \in Nat /\ SlotOf(p, l + 1) \in Nat
    BY <2>2, SlotSteps
  <2> HIDE DEF n, l
  <2> QED
    BY <2>1, <2>3, <2>4
<1>5. IsPrefix(prog, Relabelled(p))
  <2> DEFINE r == Relabelled(p)
  <2>1. r = [k \in 1..l |-> [label |-> SlotOf(p, k), ins |-> Target(p, k)]]
    BY <1>3 DEF Relabelled, Target
  <2>2. \A k \in 1..n : prog[k] = [label |-> SlotOf(p, k), ins |-> Target(p, k)]
    BY <1>2 DEF Replayed
  <2>3. prog \in Seq({prog[k] : k \in DOMAIN prog})
    BY DEF DecodeInv, ProgOK
  <2> HIDE DEF n, l, r
  <2>4. \A k \in 1..n : k \in 1..l /\ prog[k] = r[k]
    BY <1>3, <2>1, <2>2
  <2> DEFINE S == {r[k] : k \in 1..l}
  <2>5. r \in [1..l -> S]
    BY <2>1
  <2>6. r \in Seq(S) /\ Len(r) = l
    <3> HIDE DEF S
    <3>1. r \in Seq(S) /\ DOMAIN r = 1..l
      BY <1>3, <2>5, SeqDef
    <3> QED
      BY <1>3, <3>1, LenProperties
  <2>7. n \in 0..Len(r) /\ n \in 0..Len(prog) /\ n <= Len(r)
    <3>1. Len(prog) = n
      BY DEF n
    <3> QED
      BY <1>3, <2>6, <3>1
  <2>8. SubSeq(r, 1, n) = Restrict(r, 1..n)
    <3> HIDE DEF S
    <3> QED
      BY <2>6, <2>7, SubSeqRestrict
  <2>9. SubSeq(prog, 1, n) = Restrict(prog, 1..n)
    BY <2>3, <2>7, SubSeqRestrict
  <2>10. Restrict(prog, 1..n) = Restrict(r, 1..n)
    BY <2>4 DEF Restrict
  <2> QED
    BY <2>7, <2>8, <2>9, <2>10 DEF IsPrefix, n, r
<1> QED
  BY <1>1, <1>2, <1>4, <1>5 DEF Replayed

(* The first decoding starts. *)
LEMMA InitReplays == Init => KeptInv /\ ReplayInv
<1> SUFFICES ASSUME Init PROVE KeptInv /\ ReplayInv
  OBVIOUS
<1>1. prog = <<>> /\ status = "decoding" /\ first = None
  BY DEF Init
<1>2. OffsetsFit
  <2> SUFFICES ASSUME NEW s \in DOMAIN insts PROVE Fits(insts[s].offset, OffsetBits)
    BY DEF OffsetsFit
  <2>1. insts \in Seq(EbpfInst)
    BY DecodeAssumption DEF Init
  <2>2. insts[s] \in EbpfInst
    BY <2>1, ElementOfSeq, LenProperties
  <2> QED
    BY <2>2 DEF EbpfInst, Fits
<1>3. KeptInv
  BY <1>1, <1>2 DEF KeptInv
<1> QED
  BY <1>1, <1>3 DEF ReplayInv

(* A program that is decoded, encoded and decoded again is the same        *)
(* program, with the labels that its slots now have: RoundTrip holds for   *)
(* every raw program, every platform with both base groups and all widths. *)
THEOREM RoundTripHolds == Spec => []RoundTrip
<1> DEFINE Inv == DecodeInv /\ KeptInv /\ ReplayInv
<1>1. Init => Inv
  BY InitHasInv, InitReplays
<1>2. Inv /\ [Next]_vars => Inv'
  <2> SUFFICES ASSUME Inv, [Next]_vars PROVE Inv'
    OBVIOUS
  <2>1. CASE DecodeLddw
    BY <2>1, DecodeLddwKeepsInv, DecodeLddwIsKept, DecodeKeepsReplay
  <2>2. CASE DecodeMem
    BY <2>2, DecodeMemKeepsInv, DecodeMemIsKept, DecodeKeepsReplay
  <2>3. CASE DecodeAlu
    BY <2>3, DecodeAluKeepsInv, DecodeAluIsKept, DecodeKeepsReplay
  <2>4. CASE DecodeJmp
    BY <2>4, DecodeJmpKeepsInv, DecodeJmpIsKept, DecodeKeepsReplay
  <2>5. CASE Finish
    BY <2>5, FinishKeepsInv, FinishKeepsReplay
  <2>6. CASE Marshal
    BY <2>6, MarshalKeepsInv, MarshalStartsReplay
  <2>7. CASE UNCHANGED vars
    <3>1. UNCHANGED <<insts, groups, pc, prog, status, first>>
      BY <2>7 DEF vars
    <3>2. DecodeInv'
      BY <3>1, SameKeepsInv
    <3>3. KeptInv'
      BY <3>1, SameIsKept
    <3>4. \A p : Again(p)' <=> Again(p)
      BY <3>1, SourceStays DEF Again, Replayed
    <3> QED
      BY <3>1, <3>2, <3>3, <3>4 DEF ReplayInv
  <2> QED
    BY <2>1, <2>2, <2>3, <2>4, <2>5, <2>6, <2>7 DEF Next
<1>3. Inv => RoundTrip
  BY ReplayIsARoundTrip
<1> QED
  BY <1>1, <1>2, <1>3, PTL DEF Spec
=============================================================================
