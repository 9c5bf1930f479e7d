--------------------------- MODULE FiniteDomain ---------------------------
(***************************************************************************)
(* Machine integers over zones: crab/finite_domain.cpp.                    *)
(*                                                                         *)
(* A register has two variables, its svalue and its uvalue, the signed and *)
(* the unsigned reading of its 64 bits.  An instruction is computed on one *)
(* of them over the unbounded integers, copied to the other, and brought   *)
(* back into range by overflow_bounds; a comparison becomes a list of      *)
(* linear constraints on both.  Every operator here takes a zone and       *)
(* returns one.  An operand is a linear expression: a variable, or an      *)
(* immediate, which the decoder has sign-extended from 32 bits.            *)
(***************************************************************************)
EXTENDS SplitDBM

CONSTANT AssertsOn  \* whether the build checks assert()

svalue(r) == 2 * r - 1
uvalue(r) == 2 * r

is_unsigned(v) == v % 2 = 0

Var(v) == Term(1, v)
IsImm(e) == e.t = <<>>

(* F(x, y), for operands that are computed once.                            *)
On(x, y, F(_, _)) == CHOOSE r \in {F(i, k) : i \in {x}, k \in {y}} : TRUE

(* The zone after an assertion failed or an error was thrown.               *)
Aborted == [ok |-> FALSE, g |-> <<>>, p |-> <<>>]

Check(z, cond, result) == IF z.ok /\ ~ cond THEN Aborted ELSE IF z.ok THEN result ELSE z

Asserting(z, cond, result) == Check(z, cond \/ ~ AssertsOn, result)

-----------------------------------------------------------------------------
(* Linear expressions and constraints                                       *)

Coefficient(e, v) == IF v \in DOMAIN e.t THEN e.t[v] ELSE 0

Plus(e, f) ==
  [c |-> e.c + f.c,
   t |-> [v \in {u \in DOMAIN e.t \cup DOMAIN f.t : Coefficient(e, u) + Coefficient(f, u) # 0} |->
            Coefficient(e, v) + Coefficient(f, v)]]

Minus(e, f) == Plus(e, Negate(f))

Eq(e, f) == [e |-> Minus(e, f), kind |-> "EQ"]
Ne(e, f) == [e |-> Minus(e, f), kind |-> "NE"]
Le(strict, e, f) == [e |-> Minus(e, f), kind |-> IF strict THEN "LT" ELSE "LE"]

(* left < right or left > right, strict or not.                             *)
Ordered(lt, strict, e, f) == IF lt THEN Le(strict, e, f) ELSE Le(strict, f, e)

NonNegative(v) == Le(FALSE, Const(0), Var(v))
AtMost(v, n) == Le(FALSE, Var(v), Const(n))
AtLeast(v, n) == Le(FALSE, Const(n), Var(v))

true_const == [e |-> Const(0), kind |-> "EQ"]
false_const == [e |-> Const(0), kind |-> "NE"]

-----------------------------------------------------------------------------
(* Reading and writing variables                                            *)

eval(z, v) == get_interval(z, v)

eval_finite(z, v, width) ==
  IF is_unsigned(v) THEN zero_extend(eval(z, v), width) ELSE sign_extend(eval(z, v), width)

FSet(z, x, i) == Asserting(z, ~ is_bottom(i), set(z, x, i))

FAssign(z, x, e) == IF z.ok THEN assign(z, x, e) ELSE z

FHavoc(z, x) == IF z.ok THEN havoc(z, x) ELSE z

(* Fault: the wrapped range is kept although it is upside down.            *)
OverflowBoundsUnordered(z, lhs, width, issigned) ==
  LET i == eval(z, lhs)
      Wrap(n) == IF issigned THEN NumberSignExtend(NumberZeroExtend(n, width), W64) ELSE NumberZeroExtend(n, width)
  IN  IF ~ finite_size(i) \/ ~ z.ok THEN FHavoc(z, lhs)
      ELSE FSet(z, lhs, Range2(Min({Wrap(i.lb.n), Wrap(i.ub.n)}), Max({Wrap(i.lb.n), Wrap(i.ub.n)})))

(* Fault: a range that leaves the width is given up, never wrapped.         *)
OverflowBoundsForget(z, lhs, width, issigned) ==
  LET i == eval(z, lhs)
  IN  IF ISubset(i, IF issigned THEN signed_int(width) ELSE unsigned_int(width)) THEN z ELSE FHavoc(z, lhs)

(* A range that leaves the width is wrapped, or given up when wrapping      *)
(* turns it upside down; one that does not change keeps its relations.      *)
overflow_bounds(z, lhs, width, issigned) ==
  LET i == eval(z, lhs)
      Wrap(n) == IF issigned THEN NumberSignExtend(NumberZeroExtend(n, width), W64) ELSE NumberZeroExtend(n, width)
      wrapped == Range2(Wrap(i.lb.n), Wrap(i.ub.n))
  IN  IF is_bottom(i) \/ BLeq(IntervalSize(unsigned_int(width)), IntervalSize(i)) \/ is_bottom(wrapped)
        THEN FHavoc(z, lhs)
      ELSE IF wrapped = i THEN z ELSE FSet(z, lhs, wrapped)

(* Fault: only the signed view is brought back into range.                  *)
OverflowBoundsOfSvalue(z, s, u, width) == overflow_bounds(z, s, width, TRUE)

OverflowBounds(z, s, u, width) ==
  Let(overflow_bounds(z, s, width, TRUE), LAMBDA zz : overflow_bounds(zz, u, width, FALSE))

-----------------------------------------------------------------------------
(* Arithmetic                                                               *)

read_imm_for_sdiv_or_smod(imm, width) == IF width = W32 THEN CastToSint(imm, W32) ELSE imm

read_imm_for_udiv_or_umod(imm, width) == IF width = W32 THEN CastToUint(imm, W32) ELSE imm

SignedArith == {"ADD", "SUB", "MUL", "SDIV", "SMOD"}
UnsignedArith == {"UDIV", "UMOD"}
BitwiseOps == {"AND", "OR", "XOR", "SHL"}

Arith(op, i, x) ==
  CASE op = "MUL" -> IMul(i, x)
    [] op = "SDIV" -> sdiv(i, x)
    [] op = "SMOD" -> srem(i, x)
    [] op = "UDIV" -> udiv(i, x)
    [] op = "UMOD" -> urem(i, x)

(* The interval of the right operand of an operation that has no linear form. *)
ArithOperand(z, op, e, width) ==
  IF ~ IsImm(e) THEN eval_finite(z, CHOOSE v \in DOMAIN e.t : TRUE, width)
  ELSE Just(CASE op = "MUL" -> e.c
              [] op \in {"SDIV", "SMOD"} -> read_imm_for_sdiv_or_smod(e.c, width)
              [] op \in {"UDIV", "UMOD"} -> read_imm_for_udiv_or_umod(e.c, width))

Bitwise(op, i, x) ==
  CASE op = "AND" -> bitwise_and(i, x)
    [] op = "OR" -> bitwise_or(i, x)
    [] op = "XOR" -> bitwise_xor(i, x)
    [] op = "SHL" -> shl(i, x)

BitwiseOperand(z, op, e, width) ==
  LET i == IF IsImm(e) THEN Just(CastToUint(e.c, W64)) ELSE eval_interval(z, e)
  IN  IF op = "SHL" THEN mask_shift_count(i, width) ELSE i

(* bitwise_and asserts that its operands are top or not negative.           *)
AndMayApply(i) == is_bottom(i) \/ is_top(i) \/ BLeq(Fin(0), i.lb)

ApplyBitwise(z, op, x, i, k, width) ==
  Asserting(z, op = "AND" => AndMayApply(i) /\ AndMayApply(k), FSet(z, x, mask_value(Bitwise(op, i, k), width)))

(* x := y op e                                                              *)
apply(z, op, x, y, e, width) ==
  CASE op \in {"ADD", "SUB"} -> FAssign(z, x, IF op = "ADD" THEN Plus(Var(y), e) ELSE Minus(Var(y), e))
    [] op \in {"MUL", "SDIV", "SMOD", "UDIV", "UMOD"} ->
         On(eval_finite(z, y, width), ArithOperand(z, op, e, width), LAMBDA i, k : FSet(z, x, Arith(op, i, k)))
    [] op \in BitwiseOps ->
         On(eval(z, y), BitwiseOperand(z, op, e, width), LAMBDA i, k : ApplyBitwise(z, op, x, i, k, width))

(* The view x of the register has changed: it is copied to the other one.   *)
CopyView(z, x, s, u, width) ==
  Let(FAssign(z, IF x = s THEN u ELSE s, Var(x)), LAMBDA zz : OverflowBounds(zz, s, u, width))

(* apply_signed and apply_unsigned.                                         *)
ApplyViews(z, op, x, s, u, y, e, width) ==
  Let(apply(z, op, x, y, e, width), LAMBDA zz : CopyView(zz, x, s, u, width))

SetViews(z, x, s, u, i, width) == Let(FSet(z, x, i), LAMBDA zz : CopyView(zz, x, s, u, width))

(* add_overflow to bitwise_xor: the signed operations are computed on the   *)
(* svalue, the others on the uvalue; an addition starts from the view that  *)
(* is known, and a bit operation with an immediate has the width 64.  A     *)
(* number is subtracted from a number on the svalue, not by sub_overflow.   *)
Operate(z, op, s, u, e, width) ==
  LET x == IF op \in SignedArith THEN s ELSE u
      y == IF op = "ADD" /\ is_top(eval(z, s)) THEN u ELSE x
  IN  ApplyViews(z, op, x, s, u, y, e, IF op \in BitwiseOps /\ IsImm(e) THEN W64 ELSE width)

shl_overflow(z, s, u, e) == ApplyViews(z, "SHL", u, s, u, u, e, W64)

(* A shift by the full width of the machine word is undefined: the machine  *)
(* ignores the high bits of the count, or the compiler returns 0 (zero).    *)
WideShiftRight(n, k, zero) == IF k = W64 THEN IF zero THEN 0 ELSE n ELSE ShiftRight(n, k)

FShl(z, s, u, imm, width, zero) ==
  LET i == eval(z, u)
      Left(n) == (n * 2^imm) % 2^width
      same == WideShiftRight(i.lb.n, width - imm, zero) = WideShiftRight(i.ub.n, width - imm, zero)
      shifted == IF same THEN Range2(Left(i.lb.n), Left(i.ub.n)) ELSE Range2(0, Left(max_uint(width)))
  IN  IF ~ finite_size(i) THEN shl_overflow(z, s, u, Const(imm))
      ELSE Check(z, i.lb.n \in 0..max_uint(W64) /\ i.ub.n \in 0..max_uint(W64),
                 SetViews(z, u, s, u, shifted, width))

lshr(z, s, u, imm, width) ==
  LET i == eval(z, u)
      Right(n) == ShiftRight(CastToUint(n, width), imm)
      shifted == IF finite_size(i) THEN Range2(Right(i.lb.n), Right(i.ub.n))
                 ELSE Range2(0, ShiftRight(max_uint(W64), imm))
  IN  Check(z, finite_size(i) => fits_cast_to(i.lb.n, width) /\ fits_cast_to(i.ub.n, width),
            SetViews(z, u, s, u, shifted, width))

-----------------------------------------------------------------------------
(* Comparisons.  The left side is a register, given by its views ls and lu; *)
(* the right one is a pair of expressions, rs and ru.                       *)

Within(low, high, i, x) == (ISubset(i, low) /\ ISubset(x, low)) \/ (ISubset(i, high) /\ ISubset(x, high))

(* get_signed_intervals: both sides as signed intervals, and the left one   *)
(* split at 0.                                                              *)
get_signed_intervals(z, is64, ls, lu, rs) ==
  LET l0 == eval(z, ls)
      r0 == eval_interval(z, rs)
      narrow == ~ is64 /\ ~ Within(nonnegative(W32), negative(W32), l0, r0)
      l1 == IF narrow THEN sign_extend(l0, W32) ELSE l0
      r1 == IF narrow THEN sign_extend(r0, W32) ELSE r0
      l2 == IF is_top(l1) THEN eval(z, lu) ELSE l1
      Negatives == IF l2.ub.inf THEN negative(W64) ELSE Range2(min_int(W64), NumberSignExtend(l2.ub.n, W64))
  IN  [left |-> sign_extend(l2, W64),
       right |-> sign_extend(r1, W64),
       pos |-> IF is_top(l2) THEN nonnegative(W64) ELSE Meet(l2, nonnegative(W64)),
       neg |-> IF is_top(l2) THEN negative(W64)
               ELSE IF is_top(l1) THEN Negatives ELSE Meet(l2, negative(W64))]

(* get_unsigned_intervals: the same, unsigned, split at the middle.         *)
get_unsigned_intervals(z, is64, ls, lu, ru) ==
  LET l0 == eval(z, lu)
      r0 == eval_interval(z, ru)
      narrow == ~ is64 /\ ~ Within(nonnegative(W32), unsigned_high(W32), l0, r0)
      l1 == IF narrow THEN zero_extend(l0, W32) ELSE l0
      r1 == IF narrow THEN zero_extend(r0, W32) ELSE r0
      l2 == IF is_top(l1) THEN eval(z, ls) ELSE l1
  IN  [left |-> zero_extend(l2, W64),
       right |-> zero_extend(r1, W64),
       low |-> IF is_top(l2) THEN nonnegative(W64)
               ELSE IF is_top(l1) THEN zero_extend(Between(Fin(0), l2.ub), W64)
               ELSE Meet(l2, nonnegative(W64)),
       high |-> IF is_top(l2) THEN unsigned_high(W64)
                ELSE IF is_top(l1) THEN zero_extend(Between(l2.lb, Fin(-1)), W64)
                ELSE Meet(l2, unsigned_high(W64))]

assume_signed_64bit_eq(ls, lu, right, rs, ru) ==
  <<Eq(Var(ls), rs), Eq(Var(lu), ru)>>
    \o (IF ISubset(right, nonnegative(W64)) /\ ~ is_singleton(right) THEN <<Eq(Var(ls), Var(lu))>> ELSE <<>>)

(* The low half of the register is the constant: the bounds take it with    *)
(* the high half that they have.                                            *)
Match(n, low) == CastToSint(((CastToUint(n, W64) \div 2^W32) * 2^W32) + CastToUint(low, W32), W64)

assume_signed_32bit_eq(z, ls, lu, right) ==
  LET i == eval(z, ls)
      lb_match == Match(i.lb.n, right.lb.n)
      ub_match == Match(i.ub.n, right.lb.n)
      ulb == CastToUint(lb_match, W64)
      uub == CastToUint(ub_match, W64)
  IN  IF ~ is_singleton(right) \/ ~ finite_size(i) THEN <<>>
      ELSE <<AtLeast(ls, lb_match), AtMost(ls, ub_match)>>
             \o (IF ulb <= uub THEN <<AtLeast(lu, ulb), AtMost(lu, uub)>> ELSE <<>>)

(* Both views are known not to be negative and to be the same.              *)
SameNonNegative(lt, strict, ls, lu, rs, ru, most) ==
  <<NonNegative(ls), Ordered(lt, strict, Var(ls), rs), Le(FALSE, Var(ls), Var(lu)), Le(FALSE, Var(lu), Var(ls)),
    NonNegative(lu), Ordered(lt, strict, Var(lu), ru), AtMost(lu, most)>>

assume_signed_64bit_lt(strict, ls, lu, g, rs, ru) ==
  IF \/ ISubset(g.right, negative(W64))
     \/ ISubset(Join(g.neg, g.pos), nonnegative(W64)) /\ ISubset(g.right, nonnegative(W64))
    THEN <<Le(strict, Var(ls), rs), NonNegative(lu), Le(strict, Var(lu), ru)>>
    ELSE <<Le(strict, Var(ls), rs)>>

assume_signed_64bit_gt(strict, ls, lu, g, rs, ru) ==
  IF ISubset(g.right, nonnegative(W64))
    THEN SameNonNegative(FALSE, strict, ls, lu, rs, ru, sign_extend(g.pos, W64).ub.n)
  ELSE IF ISubset(Join(g.neg, g.pos), negative(W64)) /\ ISubset(g.right, negative(W64))
    THEN <<AtLeast(lu, max_int(W64) + 1), Le(strict, ru, Var(lu)), Le(strict, rs, Var(ls))>>
  ELSE <<Le(strict, rs, Var(ls))>>

(* The views can be compared when neither has bits above the low half.      *)
SvaluesFit(z, ls, rs) ==
  ISubset(eval(z, ls), signed_int(W32)) /\ ISubset(eval_interval(z, rs), signed_int(W32))

UvaluesFit(z, lu, ru) ==
  ISubset(eval(z, lu), unsigned_int(W32)) /\ ISubset(eval_interval(z, ru), unsigned_int(W32))

assume_signed_32bit_lt(z, strict, ls, lu, g, rs, ru) ==
  IF ISubset(g.right, negative(W32))
    THEN <<AtLeast(lu, max_int(W32) + 1), Le(strict, Var(lu), ru), Le(strict, Var(ls), rs)>>
  ELSE IF ISubset(Join(g.neg, g.pos), nonnegative(W32)) /\ ISubset(g.right, nonnegative(W32))
    THEN SameNonNegative(TRUE, strict, ls, lu, rs, ru, sign_extend(g.pos, W32).ub.n)
  ELSE IF SvaluesFit(z, ls, rs) THEN <<Le(strict, Var(ls), rs)>>
  ELSE <<>>

assume_signed_32bit_gt(z, strict, ls, lu, g, rs, ru) ==
  IF ISubset(g.right, nonnegative(W32))
    THEN SameNonNegative(FALSE, strict, ls, lu, rs, ru, sign_extend(g.pos, W32).ub.n)
  ELSE IF ISubset(Join(g.neg, g.pos), negative(W32)) /\ ISubset(g.right, negative(W32))
    THEN <<AtLeast(lu, max_int(W32) + 1), Le(strict, ru, Var(lu)), Le(strict, rs, Var(ls))>>
  ELSE IF SvaluesFit(z, ls, rs) THEN <<Le(strict, rs, Var(ls))>>
  ELSE <<>>

(* a is before b: below it, or not above it when equality is excluded.      *)
Before(orEqual, a, b) == IF orEqual THEN BLeq(a, b) ELSE BLess(a, b)

(* The comparison fails for all, or holds for all, pairs of the intervals.  *)
NeverOrdered(lt, strict, i, x) == IF lt THEN Before(strict, x.ub, i.lb) ELSE Before(strict, i.ub, x.lb)
AlwaysOrdered(lt, strict, i, x) == IF lt THEN Before(~ strict, i.ub, x.lb) ELSE Before(~ strict, x.ub, i.lb)

assume_signed_cst_interval(z, op, is64, ls, lu, rs, ru) ==
  LET lt == op \in {"SLT", "SLE"}
      strict == op \in {"SLT", "SGT"}
      Compare(g) ==
        IF op = "EQ" THEN IF is64 THEN assume_signed_64bit_eq(ls, lu, g.right, rs, ru)
                          ELSE assume_signed_32bit_eq(z, ls, lu, g.right)
        ELSE IF NeverOrdered(lt, strict, g.left, g.right) THEN <<false_const>>
        ELSE IF AlwaysOrdered(lt, strict, g.left, g.right) THEN <<true_const>>
        ELSE CASE is64 /\ lt -> assume_signed_64bit_lt(strict, ls, lu, g, rs, ru)
               [] is64 /\ ~ lt -> assume_signed_64bit_gt(strict, ls, lu, g, rs, ru)
               [] ~ is64 /\ lt -> assume_signed_32bit_lt(z, strict, ls, lu, g, rs, ru)
               [] ~ is64 /\ ~ lt -> assume_signed_32bit_gt(z, strict, ls, lu, g, rs, ru)
  IN  Let(get_signed_intervals(z, is64, ls, lu, rs), Compare)

(* One half of the left interval is out of range, so the svalue is not      *)
(* negative and bounds the uvalue.                                          *)
LowOnly(z, strict, ls, lu, right) ==
  <<NonNegative(lu), Le(strict, Var(lu), right)>>
    \o (IF eval(z, ls).ub.inf THEN <<>> ELSE <<AtMost(lu, eval(z, ls).ub.n)>>)
    \o <<NonNegative(ls)>>

assume_unsigned_64bit_lt(z, strict, ls, lu, g, rs, ru) ==
  IF ISubset(g.right, nonnegative(W64)) /\ Before(strict, g.right.ub, zero_extend(g.low, W64).lb)
    THEN LowOnly(z, strict, ls, lu, ru)
  ELSE IF ISubset(g.right, unsigned_high(W64)) /\ Before(strict, g.right.ub, zero_extend(g.high, W64).lb)
    THEN LowOnly(z, strict, ls, lu, Const(g.right.ub.n))
  ELSE IF ISubset(g.right, signed_int(W64))
    THEN <<NonNegative(lu), Le(strict, Var(lu), ru), AtMost(lu, zero_extend(g.low, W64).ub.n),
           NonNegative(ls), Le(strict, Var(ls), rs)>>
  ELSE IF is_bottom(g.low) /\ ISubset(g.right, unsigned_high(W64))
    THEN <<NonNegative(lu), Le(strict, Var(lu), ru), Le(strict, Var(ls), rs)>>
  ELSE IF Join(g.low, g.high) = unsigned_int(W64) THEN <<Le(strict, Var(lu), ru)>>
  ELSE <<NonNegative(lu), Le(strict, Var(lu), ru)>>

assume_unsigned_32bit_lt(z, strict, ls, lu, rs, ru) ==
  IF \/ ISubset(eval(z, lu), nonnegative(W32)) /\ ISubset(eval_interval(z, ru), nonnegative(W32))
     \/ ISubset(eval(z, ls), negative(W32)) /\ ISubset(eval_interval(z, rs), negative(W32))
    THEN <<NonNegative(lu), Le(strict, Var(lu), ru), Le(strict, Var(ls), rs)>>
  ELSE IF UvaluesFit(z, lu, ru) THEN <<NonNegative(lu), Le(strict, Var(lu), ru)>>
  ELSE <<>>

assume_unsigned_64bit_gt(strict, ls, lu, g, rs, ru) ==
  LET lhlb == zero_extend(g.high, W64).lb.n
  IN  IF ISubset(g.right, nonnegative(W64)) /\ Before(strict, zero_extend(g.low, W64).ub, g.right.lb)
        THEN <<Le(strict, ru, Var(lu)),
               IF lhlb = max_uint(W64) THEN Eq(Var(lu), Const(lhlb)) ELSE AtLeast(lu, lhlb),
               Le(TRUE, Var(ls), Const(0))>>
      ELSE IF \/ ISubset(g.right, unsigned_high(W64))
              \/ ISubset(Join(g.low, g.high), nonnegative(W64)) /\ ISubset(g.right, nonnegative(W64))
        THEN <<NonNegative(lu), Le(strict, ru, Var(lu)), Le(strict, rs, Var(ls))>>
      ELSE <<NonNegative(lu), Le(strict, ru, Var(lu))>>

assume_unsigned_32bit_gt(z, strict, ls, lu, g, rs, ru) ==
  IF ISubset(g.right, unsigned_high(W32))
    THEN <<NonNegative(lu), Le(strict, ru, Var(lu)), Le(strict, rs, Var(ls))>>
  ELSE IF UvaluesFit(z, lu, ru) THEN <<NonNegative(lu), Le(strict, ru, Var(lu))>>
  ELSE <<>>

UnsignedOrder(z, lt, strict, is64, ls, lu, g, rs, ru) ==
  IF NeverOrdered(lt, strict, g.left, g.right) THEN <<false_const>>
  ELSE IF AlwaysOrdered(lt, strict, g.left, g.right)
    THEN IF is64 THEN <<Ordered(lt, strict, Var(lu), ru)>> ELSE <<>>
  ELSE IF lt THEN IF is64 THEN assume_unsigned_64bit_lt(z, strict, ls, lu, g, rs, ru)
                  ELSE assume_unsigned_32bit_lt(z, strict, ls, lu, rs, ru)
  ELSE IF is64 THEN assume_unsigned_64bit_gt(strict, ls, lu, g, rs, ru)
       ELSE assume_unsigned_32bit_gt(z, strict, ls, lu, g, rs, ru)

(* Not equal to a bound of the interval is strictly inside it.              *)
assume_unsigned_cst_interval(z, op, is64, ls, lu, rs, ru) ==
  LET Order(lt, g) == UnsignedOrder(z, lt, op \in {"LT", "GT", "NE"}, is64, ls, lu, g, rs, ru)
      Compare(g) ==
        LET atLower == g.right.lb = zero_extend(g.left, IF is64 THEN W64 ELSE W32).lb
            bound == IF atLower THEN g.left.lb ELSE g.left.ub
        IN  IF op = "NE" /\ ~ (is_singleton(g.right) /\ (atLower \/ g.right.lb = g.left.ub)) THEN <<>>
            ELSE On(IF op = "NE" THEN ~ atLower ELSE op \in {"LT", "LE"},
                    IF op = "NE" THEN [g EXCEPT !.right = Just(bound.n)] ELSE g, Order)
  IN  Let(get_unsigned_intervals(z, is64, ls, lu, ru), Compare)

assume_bit_cst_interval(op, is64, i, x) ==
  LET mask == CastToUint(x.lb.n, IF is64 THEN W64 ELSE W32)
      common == BitwiseAnd(CastToUint(i.lb.n, W64), mask)
  IN  IF ~ ShortDivisor(i) \/ ~ ShortDivisor(x) THEN <<>>
      ELSE IF (common # 0) = (op = "SET") THEN <<true_const>> ELSE <<false_const>>

SignedOps == {"EQ", "SGE", "SLE", "SGT", "SLT"}
UnsignedOps == {"NE", "GE", "LE", "GT", "LT"}
BitOps == {"SET", "NSET"}

(* Two registers are compared on 64 bits by a constraint between their views. *)
DirectOps == SignedOps \cup {"NE"}

assume_cst_direct(op, ls, lu, rs, ru, src) ==
  CASE op = "EQ" -> <<Eq(Var(ls), rs), Eq(Var(lu), ru)>>
                      \o (IF ~ is_singleton(src) /\ ISubset(src, nonnegative(W64)) THEN <<Eq(Var(ls), Var(lu))>> ELSE <<>>)
    [] op = "NE" -> <<Ne(Var(ls), rs)>>
    [] op \notin {"EQ", "NE"} -> <<Ordered(op \in {"SLE", "SLT"}, op \in {"SGT", "SLT"}, Var(ls), rs)>>

(* assume_cst_imm and assume_cst_reg.                                       *)
assume_cst(z, op, is64, ls, lu, rs, ru) ==
  IF op \in BitOps
    THEN On(eval(z, lu), eval_interval(z, IF IsImm(rs) THEN rs ELSE ru),
            LAMBDA i, x : assume_bit_cst_interval(op, is64, i, x))
  ELSE IF is64 /\ ~ IsImm(rs) /\ op \in DirectOps
    THEN assume_cst_direct(op, ls, lu, rs, ru, eval_interval(z, rs))
  ELSE IF op \in SignedOps THEN assume_signed_cst_interval(z, op, is64, ls, lu, rs, ru)
  ELSE assume_unsigned_cst_interval(z, op, is64, ls, lu, rs, ru)

-----------------------------------------------------------------------------
(* Arithmetic shift and sign extension                                      *)

ashr(z, s, u, e, width) ==
  LET Shift(g) ==
        LET imm == CastToUint(g.right.lb.n, W64) % width
            Low(n) == CastToUint(ShiftRight(CastToSint(n, W32), imm), W32)
            full == Range2(ShiftRight(min_int(W64), imm), ShiftRight(max_int(W64), imm))
            shifted == IF ~ finite_size(g.left) THEN full
                       ELSE IF width = W64 THEN Range2(ShiftRight(g.left.lb.n, imm), ShiftRight(g.left.ub.n, imm))
                       ELSE IF Low(g.left.lb.n) <= Low(g.left.ub.n) THEN Range2(Low(g.left.lb.n), Low(g.left.ub.n))
                       ELSE full
        IN  IF ~ is_singleton(g.right) THEN FHavoc(FHavoc(z, s), u)
            ELSE Check(z, width = W64 \/ (fits_cast_to(g.left.lb.n, W32) /\ fits_cast_to(g.left.ub.n, W32)),
                       SetViews(z, s, s, u, shifted, width))
  IN  Let(get_signed_intervals(z, width = W64, s, u, e), Shift)

fsign_extend(z, s, u, e, target_width, source_width) ==
  LET extended == sign_extend(eval_interval(z, e), source_width)
  IN  Check(z, ~ is_bottom(extended),
            SetViews(z, s, s, u, extended, target_width))
=============================================================================
