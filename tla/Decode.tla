------------------------------- MODULE Decode -------------------------------
(***************************************************************************)
(* Raw eBPF instructions to the verifier's instructions and back:          *)
(* ir/unmarshal.cpp, ir/marshal.cpp, spec/vm_isa.hpp and the offsets of    *)
(* cfg/label.hpp.                                                          *)
(*                                                                         *)
(* A raw instruction has the fields of EbpfInst.  The decoder walks over   *)
(* the slots of a program; an lddw takes two slots, and so does a pair of  *)
(* shifts that is merged into one move.  The decoded program is encoded    *)
(* once more and decoded again, so that the two can be compared.  Errors   *)
(* are not told apart: an InvalidInstruction rejects the program, any      *)
(* other exception leaves the decoder.  Notes (warnings) are left out.     *)
(***************************************************************************)
EXTENDS Integers, Sequences, FiniteSets, SequencesExt

CONSTANTS Programs,    \* sets of raw programs, with the conformance groups of a platform
          Prototypes,  \* the prototype of a helper, for every helper
          Usable,      \* the helpers that the program type may call
          ImmBits,     \* the width of imm; a register has twice as many bits
          OffsetBits   \* the width of offset

VARIABLES insts,    \* the raw program
          groups,   \* conformance groups of the platform
          pc,       \* the slot that is decoded next
          prog,     \* the instructions decoded so far, with their labels
          status,   \* "decoding", "done", "rejected" or "thrown"
          first     \* the program decoded first, once it is decoded again

vars == <<insts, groups, pc, prog, status, first>>

None == <<>>
R10 == 10

Unsigned(n, bits) == n % 2^bits
Fits(n, bits) == n \in -(2^(bits - 1))..(2^(bits - 1) - 1)

(* A raw instruction.                                                       *)
EbpfInst ==
  [opcode : 0..255, dst : 0..15, src : 0..15,
   offset : -(2^(OffsetBits - 1))..(2^(OffsetBits - 1) - 1),
   imm : -(2^(ImmBits - 1))..(2^(ImmBits - 1) - 1)]

(* The widths of the byte swaps, up to 64, are immediates.                  *)
ASSUME DecodeAssumption ==
  /\ ImmBits \in Nat /\ ImmBits >= 8
  /\ OffsetBits \in Nat \ {0}
  /\ \A p \in Programs : p.raws \subseteq Seq(EbpfInst)

-----------------------------------------------------------------------------
(* Fields of an opcode                                                      *)

LD == 0
LDX == 1
ST == 2
STX == 3
ALU == 4
JMP == 5
JMP32 == 6
ALU64 == 7

Class(i) == i.opcode % 8
SrcReg(i) == (i.opcode \div 8) % 2 = 1
OpField(i) == i.opcode \div 16
Mode(i) == i.opcode \div 32

opcode_to_width(i) == <<4, 2, 1, 8>>[((i.opcode \div 8) % 4) + 1]

width_to_opcode(width) == CASE width = 1 -> 16 [] width = 2 -> 8 [] width = 4 -> 0 [] width = 8 -> 24

Raw(opcode, dst, src, offset, imm) ==
  [opcode |-> opcode, dst |-> dst, src |-> src, offset |-> offset, imm |-> imm]

INST_OP_LDDW_IMM == 24
INST_OP_JA16 == 5
INST_OP_JA32 == 6
INST_OP_CALL == 133
INST_OP_CALLX == 141
INST_OP_EXIT == 149

-----------------------------------------------------------------------------
(* Instructions                                                             *)

Reg(r) == [reg |-> r]
Imm(n) == [imm |-> n]

sign_extend(imm) == Imm(Unsigned(imm, 2 * ImmBits))
zero_extend(imm) == Imm(Unsigned(imm, ImmBits))

BinIns(op, dst, v, is64, lddw) == [kind |-> "bin", op |-> op, dst |-> dst, v |-> v, is64 |-> is64, lddw |-> lddw]
Deref(width, basereg, offset) == [width |-> width, basereg |-> basereg, offset |-> offset]

Invalid == [kind |-> "invalid"]
Thrown == [kind |-> "thrown"]
Failed(ins) == ins.kind \in {"invalid", "thrown"}

(* A decoded instruction if it is valid.                                    *)
If(valid, ins) == IF valid THEN ins ELSE Invalid

-----------------------------------------------------------------------------
(* Unmarshaller: memory                                                     *)

getAtomicOp == [x \in {0, 64, 80, 160, 224, 240} |->
  CASE x = 0 -> "ADD" [] x = 64 -> "OR" [] x = 80 -> "AND" [] x = 160 -> "XOR" [] x = 224 -> "XCHG" [] x = 240 -> "CMPXCHG"]

makePacket(i, g, regoffset) ==
  If("packet" \in g /\ Class(i) = LD /\ opcode_to_width(i) # 8 /\ i.dst = 0 /\ i.offset = 0,
     [kind |-> "packet", width |-> opcode_to_width(i), offset |-> i.imm, regoffset |-> regoffset])

makeMem(i) ==
  LET isLoad == Class(i) = LDX
      isImm == Class(i) = ST
  IN  If(/\ Class(i) # LD
         /\ isLoad => i.dst # R10
         /\ IF isImm THEN i.src = 0 ELSE i.imm = 0,
         [kind |-> "mem", is_load |-> isLoad,
          access |-> Deref(opcode_to_width(i), IF isLoad THEN i.src ELSE i.dst, i.offset),
          value |-> IF isLoad THEN Reg(i.dst) ELSE IF isImm THEN zero_extend(i.imm) ELSE Reg(i.src)])

(* Fault: the width of an atomic operation needs no group.                  *)
MakeAtomicAnyWidth(i, g) ==
  LET op == i.imm - (i.imm % 2)
      fetch == i.imm % 2 = 1
  IN  IF Class(i) = STX /\ opcode_to_width(i) \in {4, 8} /\ op \in DOMAIN getAtomicOp
        THEN If(getAtomicOp[op] \in {"XCHG", "CMPXCHG"} => fetch,
                [kind |-> "atomic", op |-> getAtomicOp[op], fetch |-> fetch,
                 access |-> Deref(opcode_to_width(i), i.dst, i.offset), valreg |-> i.src])
        ELSE Invalid

makeAtomic(i, g) ==
  LET op == i.imm - (i.imm % 2)
      fetch == i.imm % 2 = 1
      width == opcode_to_width(i)
  IN  IF Class(i) = STX /\ width \in {4, 8} /\ op \in DOMAIN getAtomicOp
        THEN If(/\ (IF width = 8 THEN "atomic64" ELSE "atomic32") \in g
                /\ getAtomicOp[op] \in {"XCHG", "CMPXCHG"} => fetch,
                [kind |-> "atomic", op |-> getAtomicOp[op], fetch |-> fetch,
                 access |-> Deref(width, i.dst, i.offset), valreg |-> i.src])
        ELSE Invalid

makeMemOp(i, g) ==
  IF i.dst > R10 \/ i.src > R10 \/ (IF opcode_to_width(i) = 8 THEN "base64" ELSE "base32") \notin g THEN Invalid
  ELSE CASE Mode(i) = 1 -> If(i.src = 0, makePacket(i, g, None))
         [] Mode(i) = 2 -> makePacket(i, g, Reg(i.src))
         [] Mode(i) = 3 -> makeMem(i)
         [] Mode(i) = 6 -> makeAtomic(i, g)
         [] OTHER -> Invalid

(* makeLddw: next is the second slot, an instruction with nothing but an imm. *)
makeLddw(i, next, g) ==
  IF /\ "base64" \in g
     /\ next.opcode = 0 /\ next.dst = 0 /\ next.src = 0 /\ next.offset = 0
     /\ i.offset = 0 /\ i.dst <= R10
    THEN CASE i.src = 0 ->
                BinIns("MOV", i.dst, Imm(Unsigned(next.imm, ImmBits) * 2^ImmBits + Unsigned(i.imm, ImmBits)), TRUE, TRUE)
           [] i.src = 1 -> If(next.imm = 0, [kind |-> "map_fd", dst |-> i.dst, mapfd |-> i.imm])
           [] i.src = 2 -> [kind |-> "map_address", dst |-> i.dst, mapfd |-> i.imm, offset |-> next.imm]
           [] OTHER -> Invalid
    ELSE Invalid

-----------------------------------------------------------------------------
(* Unmarshaller: arithmetic                                                 *)

(* Operations by the op field and the offset; NEG and END are unary.        *)
BinaryOps ==
  {<<0, 0, "ADD">>, <<1, 0, "SUB">>, <<2, 0, "MUL">>, <<3, 0, "UDIV">>, <<3, 1, "SDIV">>, <<4, 0, "OR">>, <<5, 0, "AND">>,
   <<6, 0, "LSH">>, <<7, 0, "RSH">>, <<9, 0, "UMOD">>, <<9, 1, "SMOD">>, <<10, 0, "XOR">>, <<11, 0, "MOV">>,
   <<11, 8, "MOVSX8">>, <<11, 16, "MOVSX16">>, <<11, 32, "MOVSX32">>, <<12, 0, "ARSH">>}

(* getAluOp and getBinValue.                                                *)
makeBin(i, g) ==
  LET is64 == Class(i) = ALU64
      found == {t \in BinaryOps : t[1] = OpField(i) /\ t[2] = i.offset}
      op == (CHOOSE t \in found : TRUE)[3]
  IN  IF /\ found # {}
         /\ OpField(i) \in {2, 3, 9} => (IF is64 THEN "divmul64" ELSE "divmul32") \in g
         /\ i.offset > 0 /\ OpField(i) = 11 => SrcReg(i)
         /\ IF SrcReg(i) THEN i.imm = 0 ELSE i.src = 0
        THEN BinIns(op, i.dst, IF SrcReg(i) THEN Reg(i.src) ELSE sign_extend(i.imm), is64, FALSE)
        ELSE Invalid

makeUn(i, g) ==
  LET is64 == Class(i) = ALU64
      neg == OpField(i) = 8
      endian == IF is64 THEN "SWAP" ELSE IF SrcReg(i) THEN "BE" ELSE "LE"
  IN  If(/\ i.offset = 0 /\ i.src = 0
         /\ IF neg THEN ~ SrcReg(i) /\ i.imm = 0
            ELSE /\ i.imm \in {16, 32, 64}
                 /\ ~ (is64 /\ SrcReg(i))
                 /\ (IF i.imm = 64 THEN "base64" ELSE "base32") \in g,
         [kind |-> "un", op |-> IF neg THEN "NEG" ELSE endian, width |-> IF neg THEN 0 ELSE i.imm,
          dst |-> i.dst, is64 |-> is64])

makeAluOp(i, g) ==
  IF i.dst < R10 /\ i.src <= R10 /\ (IF Class(i) = ALU64 THEN "base64" ELSE "base32") \in g
    THEN IF OpField(i) \in {8, 13} THEN makeUn(i, g) ELSE makeBin(i, g)
    ELSE Invalid

shift32(dst, op) == BinIns(op, dst, Imm(32), TRUE, FALSE)

(* Fault: the second shift may be one of another register.                  *)
MergedAnyRegister(ins, next) ==
  IF ins.kind # "bin" \/ ins # shift32(ins.dst, "LSH") THEN None
  ELSE IF next = shift32(next.dst, "RSH") THEN BinIns("MOV", ins.dst, Reg(ins.dst), FALSE, FALSE)
  ELSE IF next = shift32(next.dst, "ARSH") THEN BinIns("MOVSX32", ins.dst, Reg(ins.dst), TRUE, FALSE)
  ELSE None

(* The instruction that two shifts are merged into; None otherwise.         *)
Merged(ins, next) ==
  IF ins.kind # "bin" \/ ins # shift32(ins.dst, "LSH") THEN None
  ELSE IF next = shift32(ins.dst, "RSH") THEN BinIns("MOV", ins.dst, Reg(ins.dst), FALSE, FALSE)
  ELSE IF next = shift32(ins.dst, "ARSH") THEN BinIns("MOVSX32", ins.dst, Reg(ins.dst), TRUE, FALSE)
  ELSE None

-----------------------------------------------------------------------------
(* Unmarshaller: calls and jumps                                            *)

SingleKinds ==
  [ANYTHING |-> "ANYTHING", PTR_TO_STACK |-> "PTR_TO_STACK", PTR_TO_STACK_OR_NULL |-> "PTR_TO_STACK",
   PTR_TO_MAP |-> "MAP_FD", PTR_TO_MAP_OF_PROGRAMS |-> "MAP_FD_PROGRAMS", PTR_TO_MAP_KEY |-> "PTR_TO_MAP_KEY",
   PTR_TO_MAP_VALUE |-> "PTR_TO_MAP_VALUE", PTR_TO_CTX |-> "PTR_TO_CTX", PTR_TO_CTX_OR_NULL |-> "PTR_TO_CTX"]

PairKinds ==
  [PTR_TO_READABLE_MEM |-> "PTR_TO_READABLE_MEM", PTR_TO_READABLE_MEM_OR_NULL |-> "PTR_TO_READABLE_MEM",
   PTR_TO_WRITABLE_MEM |-> "PTR_TO_WRITABLE_MEM", PTR_TO_WRITABLE_MEM_OR_NULL |-> "PTR_TO_WRITABLE_MEM"]

OrNull == {"PTR_TO_STACK_OR_NULL", "PTR_TO_CTX_OR_NULL", "PTR_TO_READABLE_MEM_OR_NULL", "PTR_TO_WRITABLE_MEM_OR_NULL"}
Sizes == {"CONST_SIZE", "CONST_SIZE_OR_ZERO"}

Arg(proto, r) == IF r <= 5 THEN proto.args[r] ELSE "DONTCARE"

(* Fault: the size that follows a pointer is looked at once more.           *)
TakeArgumentTwice(acc, proto, r) ==
  LET t == Arg(proto, r)
  IN  IF acc.end THEN acc
      ELSE IF t = "DONTCARE" THEN [acc EXCEPT !.end = TRUE]
      ELSE IF t \in DOMAIN SingleKinds \cup Sizes
        THEN [acc EXCEPT !.singles = Append(@, [kind |-> "ANYTHING", or_null |-> t \in OrNull, reg |-> r])]
      ELSE IF t \in DOMAIN PairKinds /\ Arg(proto, r + 1) \in Sizes
        THEN [acc EXCEPT !.pairs = Append(@, [kind |-> PairKinds[t], or_null |-> t \in OrNull, mem |-> r, size |-> r + 1,
                                              can_be_zero |-> Arg(proto, r + 1) = "CONST_SIZE_OR_ZERO"])]
      ELSE [acc EXCEPT !.ok = FALSE]

(* One round of the loop of makeCall over the argument registers.           *)
TakeArgument(acc, proto, r) ==
  LET t == Arg(proto, r)
  IN  IF acc.end \/ ~ acc.ok THEN acc
      ELSE IF acc.skip THEN [acc EXCEPT !.skip = FALSE]
      ELSE IF t = "DONTCARE" THEN [acc EXCEPT !.end = TRUE]
      ELSE IF t \in DOMAIN SingleKinds
        THEN [acc EXCEPT !.singles = Append(@, [kind |-> SingleKinds[t], or_null |-> t \in OrNull, reg |-> r])]
      ELSE IF t \in DOMAIN PairKinds /\ Arg(proto, r + 1) \in Sizes
        THEN [acc EXCEPT !.skip = TRUE,
                         !.pairs = Append(@, [kind |-> PairKinds[t], or_null |-> t \in OrNull, mem |-> r, size |-> r + 1,
                                              can_be_zero |-> Arg(proto, r + 1) = "CONST_SIZE_OR_ZERO"])]
      ELSE [acc EXCEPT !.ok = FALSE]

makeCall(func) ==
  LET proto == Prototypes[func]
      start == [ok |-> proto.returns # "UNSUPPORTED", end |-> FALSE, skip |-> FALSE, singles |-> <<>>, pairs |-> <<>>]
      args == FoldLeft(LAMBDA acc, r : TakeArgument(acc, proto, r), start, <<1, 2, 3, 4, 5>>)
  IN  IF ~ args.ok THEN Thrown
      ELSE [kind |-> "call", func |-> func, singles |-> args.singles, pairs |-> args.pairs,
            reallocate_packet |-> proto.reallocate_packet, is_map_lookup |-> proto.returns = "PTR_TO_MAP_VALUE_OR_NULL"]

(* Fault: a jump is checked against the length of the program only.         *)
IsTargetInside(raw, target) == target \in 0..(Len(raw) - 1)

(* A target is a slot of the program, and not the second one of an lddw.    *)
IsTarget(raw, target) == target \in 0..(Len(raw) - 1) /\ raw[target + 1].opcode # 0

makeCallx(i) ==
  If(i.dst <= R10 /\ (i.imm # 0 => i.dst = 0 /\ i.imm \in 0..R10),
     [kind |-> "callx", func |-> IF i.imm # 0 THEN i.imm ELSE i.dst])

makeAnyCall(raw, at, i, g) ==
  IF ~ (Class(i) = JMP /\ (SrcReg(i) => "callx" \in g) /\ "base32" \in g /\ i.src < 2 /\ i.offset = 0) THEN Invalid
  ELSE IF i.src = 1 THEN If(~ SrcReg(i) /\ i.dst = 0 /\ IsTarget(raw, at + 1 + i.imm),
                            [kind |-> "call_local", target |-> at + 1 + i.imm])
  ELSE IF SrcReg(i) THEN makeCallx(i)
  ELSE IF i.dst = 0 /\ i.imm \in Usable THEN makeCall(i.imm)
  ELSE Invalid

makeExit(i, g) ==
  If("base32" \in g /\ Class(i) = JMP /\ ~ SrcReg(i) /\ i.src = 0 /\ i.dst = 0 /\ i.imm = 0 /\ i.offset = 0,
     [kind |-> "exit"])

getJmpOp ==
  [x \in {1, 2, 3, 4, 5, 6, 7, 10, 11, 12, 13} |->
     <<"EQ", "GT", "GE", "SET", "NE", "SGT", "SGE", "", "", "LT", "LE", "SLT", "SLE">>[x]]

makeGoto(raw, at, i, g) ==
  LET target == at + 1 + (IF i.opcode = INST_OP_JA32 THEN i.imm ELSE i.offset)
  IN  If(/\ "base32" \in g /\ (Class(i) = JMP => "base64" \in g)
         /\ ~ SrcReg(i) /\ i.src = 0 /\ i.dst = 0
         /\ IF Class(i) = JMP THEN i.imm = 0 ELSE i.offset = 0
         /\ IsTarget(raw, target),
         [kind |-> "jmp", cond |-> None, target |-> target])

makeBranch(raw, at, i, g) ==
  IF /\ (IF Class(i) = JMP THEN "base64" ELSE "base32") \in g
     /\ OpField(i) \in DOMAIN getJmpOp
     /\ IF SrcReg(i) THEN i.imm = 0 /\ i.src <= R10 ELSE i.src = 0
     /\ IsTarget(raw, at + 1 + i.offset)
     /\ i.dst <= R10
    THEN [kind |-> "jmp", target |-> at + 1 + i.offset,
          cond |-> [op |-> getJmpOp[OpField(i)], left |-> i.dst, is64 |-> Class(i) = JMP,
                    right |-> IF SrcReg(i) THEN Reg(i.src) ELSE sign_extend(i.imm)]]
    ELSE Invalid

makeJmp(raw, at, i, g) ==
  CASE OpField(i) = 8 -> makeAnyCall(raw, at, i, g)
    [] OpField(i) = 9 -> makeExit(i, g)
    [] OpField(i) = 0 -> makeGoto(raw, at, i, g)
    [] OTHER -> makeBranch(raw, at, i, g)

-----------------------------------------------------------------------------
(* MarshalVisitor                                                           *)

BinNibble ==
  [ADD |-> 0, SUB |-> 1, MUL |-> 2, SDIV |-> 3, UDIV |-> 3, OR |-> 4, AND |-> 5, LSH |-> 6, RSH |-> 7, SMOD |-> 9,
   UMOD |-> 9, XOR |-> 10, MOV |-> 11, MOVSX8 |-> 11, MOVSX16 |-> 11, MOVSX32 |-> 11, ARSH |-> 12]

BinOffset(op) ==
  CASE op \in {"SDIV", "SMOD"} -> 1 [] op = "MOVSX8" -> 8 [] op = "MOVSX16" -> 16 [] op = "MOVSX32" -> 32 [] OTHER -> 0

CondNibble ==
  [EQ |-> 1, GT |-> 2, GE |-> 3, SET |-> 4, NE |-> 5, SGT |-> 6, SGE |-> 7, LT |-> 10, LE |-> 11, SLT |-> 12, SLE |-> 13]

AtomicImm == [ADD |-> 0, OR |-> 64, AND |-> 80, XOR |-> 160, XCHG |-> 224, CMPXCHG |-> 240]

(* A value as the src bit, the src field and the imm; an immediate must be  *)
(* a non-negative int32 (gsl::narrow), or an exception is thrown.           *)
IsReg(v) == "reg" \in DOMAIN v
SrcBit(v) == IF IsReg(v) THEN 8 ELSE 0
SrcField(v) == IF IsReg(v) THEN v.reg ELSE 0
ImmField(v) == IF IsReg(v) THEN 0 ELSE v.imm
Narrows(v) == IsReg(v) \/ Fits(v.imm, ImmBits)

Lddw(dst, type, imm, next_imm) == <<Raw(INST_OP_LDDW_IMM, dst, type, 0, imm), Raw(0, 0, 0, 0, next_imm)>>

(* split: the halves of a register as signed numbers.                       *)
Signed(n) == IF n >= 2^(ImmBits - 1) THEN n - 2^ImmBits ELSE n

label_to_offset16(target, at) == IF Fits(target - at - 1, OffsetBits) THEN target - at - 1 ELSE 0
label_to_offset32(target, at) == IF Fits(target - at - 1, OffsetBits) THEN 0 ELSE target - at - 1

marshalBin(b) ==
  IF b.lddw THEN Lddw(b.dst, 0, Signed(b.v.imm % 2^ImmBits), Signed(b.v.imm \div 2^ImmBits))
  ELSE <<Raw((IF b.is64 THEN ALU64 ELSE ALU) + 16 * BinNibble[b.op] + SrcBit(b.v),
             b.dst, SrcField(b.v), BinOffset(b.op), ImmField(b.v))>>

marshalUn(b) ==
  CASE b.op = "NEG" -> <<Raw((IF b.is64 THEN ALU64 ELSE ALU) + 128, b.dst, 0, 0, 0)>>
    [] b.op = "LE" -> <<Raw(ALU + 208, b.dst, 0, 0, b.width)>>
    [] b.op = "BE" -> <<Raw(ALU + 8 + 208, b.dst, 0, 0, b.width)>>
    [] b.op = "SWAP" -> <<Raw(ALU64 + 208, b.dst, 0, 0, b.width)>>

marshalJmp(b, at) ==
  IF b.cond # None
    THEN <<Raw(JMP + 16 * CondNibble[b.cond.op] + SrcBit(b.cond.right), b.cond.left, SrcField(b.cond.right),
               label_to_offset16(b.target, at), ImmField(b.cond.right))>>
  ELSE IF label_to_offset32(b.target, at) # 0
    THEN <<Raw(INST_OP_JA32, 0, 0, 0, label_to_offset32(b.target, at))>>
    ELSE <<Raw(INST_OP_JA16, 0, 0, label_to_offset16(b.target, at), 0)>>

marshalMem(b) ==
  LET opcode == 96 + width_to_opcode(b.access.width)
  IN  IF b.is_load THEN <<Raw(opcode + LDX, b.value.reg, b.access.basereg, b.access.offset, 0)>>
      ELSE <<Raw(opcode + ST + (IF IsReg(b.value) THEN 1 ELSE 0), b.access.basereg, SrcField(b.value),
                 b.access.offset, ImmField(b.value))>>

marshalPacket(b) ==
  IF b.regoffset # None THEN <<Raw(64 + width_to_opcode(b.width), 0, b.regoffset.reg, 0, b.offset)>>
  ELSE <<Raw(32 + width_to_opcode(b.width), 0, 0, 0, b.offset)>>

marshal(ins, at) ==
  CASE ins.kind = "bin" -> marshalBin(ins)
    [] ins.kind = "un" -> marshalUn(ins)
    [] ins.kind = "map_fd" -> Lddw(ins.dst, 1, ins.mapfd, 0)
    [] ins.kind = "map_address" -> Lddw(ins.dst, 2, ins.mapfd, ins.offset)
    [] ins.kind = "call" -> <<Raw(INST_OP_CALL, 0, 0, 0, ins.func)>>
    [] ins.kind = "call_local" -> <<Raw(INST_OP_CALL, 0, 1, 0, label_to_offset32(ins.target, at))>>
    [] ins.kind = "callx" -> <<Raw(INST_OP_CALLX, ins.func, 0, 0, 0)>>
    [] ins.kind = "exit" -> <<Raw(INST_OP_EXIT, 0, 0, 0, 0)>>
    [] ins.kind = "jmp" -> marshalJmp(ins, at)
    [] ins.kind = "mem" -> marshalMem(ins)
    [] ins.kind = "packet" -> marshalPacket(ins)
    [] ins.kind = "atomic" -> <<Raw(STX + 192 + width_to_opcode(ins.access.width), ins.access.basereg, ins.valreg,
                                    ins.access.offset, AtomicImm[ins.op] + (IF ins.fetch THEN 1 ELSE 0))>>

size(ins) == IF ins.kind \in {"map_fd", "map_address"} \/ (ins.kind = "bin" /\ ins.lddw) THEN 2 ELSE 1

(* Fault: every instruction takes one slot.                                 *)
SlotOfOneEach(p, k) == k - 1

(* get_labels: the slot of the k-th instruction when the program is encoded, *)
(* and the slot of a label.                                                 *)
SlotOf(p, k) == (k - 1) + Cardinality({j \in 1..(k - 1) : size(p[j].ins) = 2})
LabelsOf(p) == {p[k].label : k \in DOMAIN p}
get_labels(p) == [l \in LabelsOf(p) |-> SlotOf(p, CHOOSE k \in DOMAIN p : p[k].label = l)]

(* The targets of jumps are moved, those of local calls are not.            *)
Moved(p, ins) == IF ins.kind = "jmp" THEN [ins EXCEPT !.target = get_labels(p)[@]] ELSE ins

(* The encoder throws for a label that is not there and for a negative      *)
(* immediate.                                                               *)
Encodes(p, ins) ==
  /\ ins.kind = "jmp" => ins.target \in LabelsOf(p) /\ (ins.cond # None => Narrows(ins.cond.right))
  /\ ins.kind = "bin" /\ ~ ins.lddw => Narrows(ins.v)
  /\ ins.kind = "mem" => Narrows(ins.value)

MarshalProgram(p) == FlattenSeq([k \in DOMAIN p |-> marshal(Moved(p, p[k].ins), SlotOf(p, k))])

-----------------------------------------------------------------------------
(* The decoder at work                                                      *)

Init ==
  /\ \E p \in Programs : insts \in p.raws /\ groups = p.groups
  /\ pc = 0
  /\ prog = <<>>
  /\ status = "decoding"
  /\ first = None

Decoding == status = "decoding" /\ pc < Len(insts)

(* The instruction of this slot and how many slots it takes; an error ends  *)
(* the decoding.                                                            *)
Emit(ins, slots) ==
  /\ IF Failed(ins)
       THEN status' = (IF ins = Thrown THEN "thrown" ELSE "rejected") /\ UNCHANGED <<pc, prog>>
       ELSE pc' = pc + slots /\ prog' = Append(prog, [label |-> pc, ins |-> ins]) /\ UNCHANGED status
  /\ UNCHANGED <<insts, groups, first>>

Current == insts[pc + 1]
HasNext == pc + 1 < Len(insts)

DecodeLddw ==
  /\ Decoding /\ Current.opcode = INST_OP_LDDW_IMM
  /\ Emit(IF HasNext THEN makeLddw(Current, insts[pc + 2], groups) ELSE Invalid, 2)

DecodeMem ==
  /\ Decoding /\ Class(Current) \in {LD, LDX, ST, STX} /\ Current.opcode # INST_OP_LDDW_IMM
  /\ Emit(makeMemOp(Current, groups), 1)

DecodeAlu ==
  /\ Decoding /\ Class(Current) \in {ALU, ALU64}
  /\ LET ins == makeAluOp(Current, groups)
         next == makeAluOp(insts[pc + 2], groups)
         looks == HasNext /\ ~ Failed(ins) /\ ins = shift32(Current.dst, "LSH") /\ Class(insts[pc + 2]) = ALU64
     IN  IF ~ looks THEN Emit(ins, 1)
         ELSE IF Failed(next) THEN Emit(next, 1)
         ELSE IF Merged(ins, next) # None THEN Emit(Merged(ins, next), 2)
         ELSE Emit(ins, 1)

DecodeJmp ==
  /\ Decoding /\ Class(Current) \in {JMP, JMP32}
  /\ Emit(makeJmp(insts, pc, Current, groups), 1)

(* Zero length programs throw; any other one is done after its last slot.   *)
Finish ==
  /\ status = "decoding" /\ pc >= Len(insts)
  /\ status' = IF insts = <<>> THEN "thrown" ELSE "done"
  /\ UNCHANGED <<insts, groups, pc, prog, first>>

(* The decoded program is encoded, to be decoded again.                     *)
Marshal ==
  /\ status = "done" /\ first = None
  /\ IF \A k \in DOMAIN prog : Encodes(prog, prog[k].ins)
       THEN /\ insts' = MarshalProgram(prog)
            /\ first' = prog
            /\ prog' = <<>> /\ pc' = 0 /\ status' = "decoding"
       ELSE status' = "thrown" /\ UNCHANGED <<insts, first, prog, pc>>
  /\ UNCHANGED groups

Next == DecodeLddw \/ DecodeMem \/ DecodeAlu \/ DecodeJmp \/ Finish \/ Marshal

Spec == Init /\ [][Next]_vars

-----------------------------------------------------------------------------
(* Properties *)

Decoded == {prog[k].ins : k \in DOMAIN prog}

Registers(ins) ==
  CASE ins.kind = "bin" -> {ins.dst, SrcField(ins.v)}
    [] ins.kind \in {"un", "map_fd", "map_address"} -> {ins.dst}
    [] ins.kind = "mem" -> {ins.access.basereg, SrcField(ins.value)}
    [] ins.kind = "packet" -> IF ins.regoffset = None THEN {} ELSE {ins.regoffset.reg}
    [] ins.kind = "atomic" -> {ins.access.basereg, ins.valreg}
    [] ins.kind = "callx" -> {ins.func}
    [] ins.kind = "jmp" -> IF ins.cond = None THEN {} ELSE {ins.cond.left, SrcField(ins.cond.right)}
    [] OTHER -> {}

Writes(ins) ==
  CASE ins.kind \in {"bin", "un"} -> {ins.dst}
    [] ins.kind = "mem" /\ ins.is_load -> {ins.value.reg}
    [] OTHER -> {}

(* A pair of shifts by 32 that the decoder merges, and the slots that an     *)
(* instruction takes in the raw program.                                    *)
IsPair(at) ==
  /\ at + 2 <= Len(insts)
  /\ LET a == insts[at + 1]
         b == insts[at + 2]
     IN  a.opcode = 103 /\ b.opcode \in {119, 199} /\ a.dst = b.dst /\ a.imm = 32 /\ b.imm = 32

Width(at, ins) == IF IsPair(at) THEN 2 ELSE size(ins)

(* Every slot of the program is decoded exactly once: an instruction starts  *)
(* where the one before it ends, and the decoder stands after the last one. *)
SlotsAreCovered ==
  \A k \in DOMAIN prog :
    /\ k = 1 => prog[k].label = 0
    /\ prog[k].label + Width(prog[k].label, prog[k].ins) = IF k = Len(prog) THEN pc ELSE prog[k + 1].label

Targets == {ins.target : ins \in {x \in Decoded : x.kind \in {"jmp", "call_local"}}}

(* No jump or local call of an accepted program leaves it or lands inside an *)
(* lddw, though targets are checked before the slots there are decoded.     *)
TargetsAreCode ==
  status = "done" => \A t \in Targets : t \in LabelsOf(prog) \/ (t > 0 /\ IsPair(t - 1))

(* "Given a program counter and an offset, get the label of the target       *)
(* instruction." (getJumpTarget): an instruction has the label.             *)
TargetsAreInstructions == status = "done" => Targets \subseteq LabelsOf(prog)

(* The groups of the ISA that an instruction belongs to.                    *)
Needs(ins) ==
  LET Base(is64) == IF is64 THEN {"base64"} ELSE {"base32"}
  IN  CASE ins.kind = "bin" ->
             Base(ins.is64) \cup
               (IF ins.op \in {"MUL", "UDIV", "SDIV", "UMOD", "SMOD"} THEN {IF ins.is64 THEN "divmul64" ELSE "divmul32"}
                ELSE {})
        [] ins.kind = "un" -> Base(ins.is64 \/ ins.width = 64)
        [] ins.kind \in {"map_fd", "map_address"} -> {"base64"}
        [] ins.kind = "mem" -> Base(ins.access.width = 8)
        [] ins.kind = "packet" -> {"packet"}
        [] ins.kind = "atomic" -> {IF ins.access.width = 8 THEN "atomic64" ELSE "atomic32"}
        [] ins.kind = "callx" -> {"callx"}
        [] ins.kind = "jmp" /\ ins.cond # None -> Base(ins.cond.is64)
        [] OTHER -> {"base32"}

RegistersOK(ins) ==
  /\ Registers(ins) \subseteq 0..R10
  /\ R10 \in Writes(ins) => ins.kind = "bin" /\ ins.lddw

(* The analyzer only gets instructions that the platform supports and that   *)
(* name registers that exist, whatever the fields of the raw ones hold:     *)
(* supports_group is asked for every group an instruction belongs to, and   *)
(* no arithmetic and no load writes r10 ("invalid target r10", "cannot      *)
(* modify r10").  An lddw is not checked for r10, and a pair of shifts is   *)
(* checked before it becomes one move.                                      *)
InstructionsAreValid ==
  \A k \in DOMAIN prog :
    /\ RegistersOK(prog[k].ins)
    /\ (IF IsPair(prog[k].label) THEN {"base64"} ELSE Needs(prog[k].ins)) \subseteq groups

(* The arguments of a helper are split into single ones and pairs of a       *)
(* pointer and its size: every register up to the first unused one belongs  *)
(* to exactly one of them.                                                  *)
ArgumentsAreCovered ==
  \A ins \in {x \in Decoded : x.kind = "call"} :
    LET proto == Prototypes[ins.func]
        used == {r \in 1..5 : \A q \in 1..r : proto.args[q] # "DONTCARE"}
        regs == [k \in DOMAIN ins.singles |-> ins.singles[k].reg]
                  \o FlattenSeq([k \in DOMAIN ins.pairs |-> <<ins.pairs[k].mem, ins.pairs[k].size>>])
    IN  Len(regs) = Cardinality(used) /\ {regs[k] : k \in DOMAIN regs} = used

(* What the encoder keeps: it drops the target of a local call within the    *)
(* range of offset, and the width of a 32-bit condition.                    *)
Survives(p) ==
  \A k \in DOMAIN p :
    /\ p[k].ins.kind # "call_local"
    /\ p[k].ins.kind = "jmp" /\ p[k].ins.cond # None => p[k].ins.cond.is64

Relabelled(p) == [k \in DOMAIN p |-> [label |-> SlotOf(p, k), ins |-> Moved(p, p[k].ins)]]

(* Encoding and decoding again gives the same program, with the labels that  *)
(* the slots now have ("if we marshal an instruction and then unmarshal it, *)
(* we get the original", test_marshal.cpp), merged pairs and lddws included. *)
(* The platform has both base groups: a merged pair becomes a 32-bit move,  *)
(* and a near jump of base32 (JA32) one of base64 (JA16).                   *)
RoundTrip ==
  first # None /\ Survives(first) /\ {"base32", "base64"} \subseteq groups =>
    /\ status \in {"decoding", "done"}
    /\ IsPrefix(prog, Relabelled(first))
    /\ status = "done" => Len(prog) = Len(first)
=============================================================================
