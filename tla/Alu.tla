-------------------------------- MODULE Alu --------------------------------
(***************************************************************************)
(* Arithmetic, moves and conditions on registers that hold numbers: the    *)
(* Bin, Un and Assume handlers of crab/ebpf_transformer.cpp over the       *)
(* finite-width domain, against what the machine computes.  There are two  *)
(* registers.  A behaviour is a sequence of instructions; Setup are the    *)
(* ones that may come first, Program the ones that may come last.          *)
(***************************************************************************)
EXTENDS FiniteDomain

CONSTANTS Setup, Program,  \* sets of instructions
          MaxSetup,        \* how many instructions of Setup come first
          Samples,         \* machine states the soundness of a step is tested on
          BigEndian        \* the option big_endian

VARIABLES zone,  \* the numerical part of the abstract state
          fuel,  \* instructions of Setup that may still come
          done,  \* the instruction of Program was executed
          ins    \* the last instruction

vars == <<zone, fuel, done, ins>>

Regs == {1, 2}

Width(is64) == IF is64 THEN W64 ELSE W32

-----------------------------------------------------------------------------
(* The transformer                                                          *)

(* bitwise_and with UINT32_MAX: a 32-bit operation clears the high half.    *)
ZeroHigh(z, s, u) == Operate(z, "AND", s, u, Const(max_uint(W32)), W64)

AddConstraints(z, csts) == FoldLeft(LAMBDA zz, cst : IF zz.ok THEN add_constraint(zz, cst) ELSE zz, z, csts)

Move(z, i, s, u, imm) ==
  IF i.src = i.dst THEN z
  ELSE IF i.src # 0 THEN Let(FAssign(z, s, Var(svalue(i.src))), LAMBDA zz : FAssign(zz, u, Var(uvalue(i.src))))
  ELSE Let(Let(FSet(z, s, Just(imm)), LAMBDA zz : FSet(zz, u, Just(imm))),
           LAMBDA zz : overflow_bounds(zz, u, Width(i.is64), FALSE))

MovsxBits(op) == IF op = "MOVSX16" THEN W16 ELSE W32

(* ADD, SUB, MUL, divisions and bit operations.  An immediate is subtracted *)
(* by adding its negation, which must be an int32 again; AND with a         *)
(* positive one bounds both views.                                          *)
Arithmetic(z, i, s, u, imm) ==
  LET op == IF i.op = "SUB" /\ i.src = 0 THEN "ADD" ELSE i.op
      e == IF i.src # 0 THEN Var(IF op \in SignedArith THEN svalue(i.src) ELSE uvalue(i.src))
           ELSE Const(IF i.op = "SUB" THEN - imm ELSE imm)
      bounds == IF i.src = 0 /\ op = "AND" /\ imm > 0
                  THEN <<AtMost(s, imm), AtMost(u, imm), NonNegative(s), NonNegative(u)>> ELSE <<>>
  IN  Check(z, i.src # 0 \/ i.op # "SUB" \/ - imm <= max_int(W32),
            AddConstraints(Operate(z, op, s, u, e, Width(i.is64)), bounds))

(* LSH and RSH.  A register that is known to be one number shifts like an   *)
(* immediate.                                                               *)
ShiftBy(z, i, s, u, count) ==
  IF i.op = "LSH" THEN FShl(z, s, u, count % Width(i.is64), Width(i.is64), i.zero)
  ELSE lshr(z, s, u, count % Width(i.is64), Width(i.is64))

Shift(z, i, s, u, imm) ==
  LET count == IF i.src = 0 THEN Just(imm) ELSE eval(z, uvalue(i.src))
      low == IF i.src = 0 \/ i.is64 THEN z ELSE ZeroHigh(z, s, u)
  IN  IF is_singleton(count)
        THEN Check(z, fits_cast_to(count.lb.n, W64),
                   Let(low, LAMBDA zz : ShiftBy(zz, i, s, u, CastToUint(count.lb.n, W64))))
      ELSE IF i.op = "LSH" THEN shl_overflow(z, s, u, Var(uvalue(i.src)))
      ELSE FHavoc(FHavoc(z, s), u)

BinOp(z, i, s, u, imm) ==
  CASE i.op = "MOV" -> Move(z, i, s, u, imm)
    [] i.op \in {"MOVSX16", "MOVSX32"} ->
         fsign_extend(z, s, u, Var(svalue(i.src)), Width(i.is64), MovsxBits(i.op))
    [] i.op \in {"LSH", "RSH"} -> Shift(z, i, s, u, imm)
    [] i.op = "ARSH" -> ashr(z, s, u, IF i.src = 0 THEN Const(imm) ELSE Var(svalue(i.src)), Width(i.is64))
    [] OTHER -> Arithmetic(z, i, s, u, imm)

(* The handler returns at once when an immediate 0 is added or subtracted,  *)
(* and when a register is sign-extended to itself that is in the range of   *)
(* the source width.                                                        *)
Returns(z, i) ==
  \/ i.src = 0 /\ i.op \in {"ADD", "SUB"} /\ i.imm = 0
  \/ /\ i.op \in {"MOVSX16", "MOVSX32"} /\ i.src = i.dst
     /\ ISubset(eval(z, svalue(i.dst)), signed_int(MovsxBits(i.op)))

(* The Bin handler: src is a register, or 0 when the operand is imm.        *)
BinOf(z, i) ==
  LET imm == IF i.is64 THEN i.imm ELSE CastToSint(i.imm, W32)
      Handle(s, u) ==
        Let(Let(IF i.src # 0 \/ i.is64 THEN z ELSE ZeroHigh(z, s, u),
                LAMBDA zz : IF Returns(z, i) THEN zz ELSE BinOp(zz, i, s, u, imm)),
            LAMBDA zz : IF i.is64 \/ Returns(z, i) THEN zz ELSE ZeroHigh(zz, s, u))
  IN  On(svalue(i.dst), uvalue(i.dst), Handle)

(* Bytes of a word of w bits in the opposite order.                         *)
endian_reverse(n, w) ==
  MapThenSumSet(LAMBDA k : ((n \div 2^(k * W8)) % 2^W8) * 2^(w - (k + 1) * W8), 0..((w \div W8) - 1))

(* swap_endianness of one view: a known number is converted, any other      *)
(* value is forgotten.                                                      *)
swap_endianness(z, v, reverse, w) ==
  LET i == eval(z, v)
      n == CastToUint(i.lb.n, w)
      swapped == IF reverse THEN endian_reverse(n, w) ELSE n
      result == IF w = W64 /\ ~ is_unsigned(v) THEN CastToSint(swapped, W64) ELSE swapped
  IN  IF is_singleton(i) /\ fits_cast_to(i.lb.n, W64) THEN FSet(z, v, Just(result)) ELSE FHavoc(z, v)

Reverses(op) == op = "SWAP" \/ (op = "BE" /\ ~ BigEndian) \/ (op = "LE" /\ BigEndian)

UnOf(z, i) ==
  IF i.op = "NEG" THEN Operate(z, "MUL", svalue(i.dst), uvalue(i.dst), Const(-1), i.width)
  ELSE IF i.width = W64 /\ ~ Reverses(i.op) THEN z
  ELSE Let(swap_endianness(z, svalue(i.dst), Reverses(i.op), i.width),
           LAMBDA zz : swap_endianness(zz, uvalue(i.dst), Reverses(i.op), i.width))

AssumeOf(z, i) ==
  LET Handle(ls, lu) ==
        On(IF i.src = 0 THEN Const(i.imm) ELSE Var(svalue(i.src)),
           IF i.src = 0 THEN Const(CastToUint(i.imm, W64)) ELSE Var(uvalue(i.src)),
           LAMBDA rs, ru : AddConstraints(z, assume_cst(z, i.op, i.is64, ls, lu, rs, ru)))
  IN  On(svalue(i.dst), uvalue(i.dst), Handle)

-----------------------------------------------------------------------------
(* The machine: a state is a word per register.  Division by 0 gives 0, a   *)
(* remainder by 0 the dividend, shift counts are masked, and a 32-bit       *)
(* result clears the high half.                                             *)

Operand(i, st) == IF i.src = 0 THEN CastToUint(i.imm, W64) ELSE st[i.src]

Compute(op, a, b, w) ==
  LET sa == CastToSint(a, w)
      sb == CastToSint(b, w)
  IN  CASE op = "MOV" -> b
        [] op = "MOVSX16" -> CastToSint(b, W16)
        [] op = "MOVSX32" -> CastToSint(b, W32)
        [] op = "ADD" -> a + b
        [] op = "SUB" -> a - b
        [] op = "MUL" -> a * b
        [] op = "UDIV" -> IF b = 0 THEN 0 ELSE a \div b
        [] op = "UMOD" -> IF b = 0 THEN a ELSE a % b
        [] op = "SDIV" -> IF b = 0 THEN 0 ELSE Quotient(sa, sb)
        [] op = "SMOD" -> IF b = 0 THEN a ELSE Remainder(sa, sb)
        [] op = "OR" -> BitwiseOr(a, b)
        [] op = "AND" -> BitwiseAnd(a, b)
        [] op = "XOR" -> BitwiseXor(a, b)
        [] op = "LSH" -> a * 2^(b % w)
        [] op = "RSH" -> a \div 2^(b % w)
        [] op = "ARSH" -> ShiftRight(sa, b % w)

Holds(op, a, b, w) ==
  LET sa == CastToSint(a, w)
      sb == CastToSint(b, w)
  IN  CASE op = "EQ" -> a = b
        [] op = "NE" -> a # b
        [] op = "LT" -> a < b
        [] op = "LE" -> a <= b
        [] op = "GT" -> a > b
        [] op = "GE" -> a >= b
        [] op = "SLT" -> sa < sb
        [] op = "SLE" -> sa <= sb
        [] op = "SGT" -> sa > sb
        [] op = "SGE" -> sa >= sb
        [] op = "SET" -> BitwiseAnd(a, b) # 0
        [] op = "NSET" -> BitwiseAnd(a, b) = 0

(* The states that instruction i leads to from st: none when the condition  *)
(* of an Assume does not hold.                                              *)
Execute(i, st) ==
  LET w == IF i.kind = "un" THEN i.width ELSE Width(i.is64)
      a == CastToUint(st[i.dst], w)
      b == CastToUint(Operand(i, st), w)
      To(n) == {[st EXCEPT ![i.dst] = CastToUint(n, w)]}
  IN  CASE i.kind = "bin" -> To(Compute(i.op, a, b, w))
        [] i.kind = "un" -> To(IF i.op = "NEG" THEN - a ELSE IF Reverses(i.op) THEN endian_reverse(a, w) ELSE a)
        [] i.kind = "assume" -> IF Holds(i.op, a, b, w) THEN {st} ELSE {}

(* The machine state st is one of those that the zone stands for.           *)
View(st, v) ==
  IF v = 0 THEN 0
  ELSE IF is_unsigned(v) THEN st[v \div 2] ELSE CastToSint(st[(v + 1) \div 2], W64)

Describes(z, st) == z.ok /\ \A e \in DOMAIN z.g : View(st, e[2]) - View(st, e[1]) <= z.g[e]

-----------------------------------------------------------------------------

Init ==
  /\ zone = TopZone
  /\ fuel = MaxSetup
  /\ done = FALSE
  /\ ins = [kind |-> "none"]

SetupStep(i) == fuel > 0 /\ ~ done /\ i \in Setup /\ fuel' = fuel - 1 /\ UNCHANGED done
ProgramStep(i) == ~ done /\ i \in Program /\ done' = TRUE /\ UNCHANGED fuel

Advance(i) == zone.ok /\ (SetupStep(i) \/ ProgramStep(i)) /\ ins' = i

(* zero: what the compiler made of a shift by the full width.               *)
Bin(i) == Advance(i) /\ \E j \in {[zero |-> b] @@ i : b \in BOOLEAN} : zone' = BinOf(zone, j)
Un(i) == Advance(i) /\ zone' = UnOf(zone, i)
Assume(i) == Advance(i) /\ zone' = AssumeOf(zone, i)

Bins == {i \in Setup \cup Program : i.kind = "bin"}
Uns == {i \in Setup \cup Program : i.kind = "un"}
Assumes == {i \in Setup \cup Program : i.kind = "assume"}

Next ==
  \/ \E i \in Bins : Bin(i)
  \/ \E i \in Uns : Un(i)
  \/ \E i \in Assumes : Assume(i)

Spec == Init /\ [][Next]_vars

-----------------------------------------------------------------------------
(* Properties *)

(* An order on 32 bits is handled as the order of the 64-bit views: it is   *)
(* right for operands that are the same number on 32 and on 64 bits.        *)
SameNumber(i, st) ==
  \A n \in {st[i.dst], Operand(i, st)} :
    IF i.op \in SignedOps THEN CastToSint(n, W64) = CastToSint(n, W32) ELSE n = CastToUint(n, W32)

OrderFits(i, st) == i.kind = "assume" /\ ~ i.is64 /\ i.op \notin {"EQ", "NE"} \cup BitOps => SameNumber(i, st)

(* Every machine state with property P that a step leads to is described by *)
(* the abstract state after it.                                             *)
SoundStep(P(_, _)) ==
  ins'.kind # "none" /\ zone' # Aborted =>
    \A st \in Samples : Describes(zone, st) /\ P(ins', st) =>
      \A end \in Execute(ins', st) : Describes(zone', end)

(* Soundness of the transformer on numbers: the abstract state after a step *)
(* of ebpf_transformer.cpp describes every machine state that the           *)
(* instruction leads to, whatever wraps around on the way.                  *)
StepsAreSound == [][SoundStep(OrderFits)]_vars

(* The same for every instruction that Program holds, 32-bit orders         *)
(* included.  For an AND by a register it says that Interval::bitwise_and   *)
(* is a "bitwise-AND between two uvalue intervals" (interval.cpp): the      *)
(* conjunction of any two of their members is in the result.                *)
AllStepsAreSound == [][SoundStep(LAMBDA i, st : TRUE)]_vars

(* The bounds of a view stay in the range of that view, so that a number    *)
(* read from it can be cast to the machine type (Number::cast_to).          *)
ViewsInRange ==
  zone.ok => \A v \in Vars :
    LET i == eval(zone, v)
        range == IF is_unsigned(v) THEN unsigned_int(W64) ELSE signed_int(W64)
    IN  (i.lb.inf \/ contains(range, i.lb.n)) /\ (i.ub.inf \/ contains(range, i.ub.n))

(* Constants fold: an operation on known numbers has a known result, or     *)
(* throws.                                                                  *)
Known(z, r) == is_singleton(eval(z, uvalue(r))) /\ is_singleton(eval(z, svalue(r)))

ConstantsFold ==
  [][/\ ins'.kind \in {"bin", "un"}
     /\ zone' # Aborted
     /\ Known(zone, ins'.dst)
     /\ ins'.kind = "bin" => ins'.src = 0 \/ Known(zone, ins'.src)
     => Known(zone', ins'.dst)]_vars

(* What throws: a view is never out of the range of the cast that reads it  *)
(* (CRAB_ERROR), and only one instruction meets a narrowing error, the      *)
(* subtraction of the smallest immediate, whose negation is not an int.     *)
SubtractsSmallest(i) ==
  i.kind = "bin" /\ i.op = "SUB" /\ i.src = 0 /\ i.imm = min_int(W32)

OnlySmallestSubThrows == [][zone' = Aborted <=> SubtractsSmallest(ins')]_vars
=============================================================================
