---------------------------- MODULE Intervals ----------------------------
(***************************************************************************)
(* Numbers, extended numbers and intervals: arith/num_big.hpp,             *)
(* arith/num_extended.hpp, crab/interval.hpp and crab/interval.cpp.        *)
(*                                                                         *)
(* A Number of the code is an unbounded integer, and so is it here.  The   *)
(* machine widths are parameters: W64, W32 and W16 stand for 64, 32 and 16 *)
(* bits, and every mask, cast and limit of the code is written with them.  *)
(* A Bound is an integer or an infinity; an Interval is a pair of Bounds,  *)
(* empty (bottom) when the lower one exceeds the upper one.                *)
(***************************************************************************)
EXTENDS Integers, Sequences, FiniteSets, FiniteSetsExt

CONSTANTS W64, W32, W16

(* Widths keep the ratios that the code relies on: powers of two, because   *)
(* shift counts are masked with width - 1, in strictly increasing order.    *)
ASSUME WidthsAssumption ==
  /\ W16 \in Nat \ {0} /\ W32 \in Nat \ {0} /\ W64 \in Nat \ {0}
  /\ W16 < W32 /\ W32 < W64
  /\ \E i, j \in 0..W64 : W32 = 2^i /\ W64 = 2^j

W8 == W16 \div 2

-----------------------------------------------------------------------------
(* Number: division truncates towards zero, the remainder has the sign of   *)
(* the dividend, masks are two's complement.                                *)

Abs(n) == IF n < 0 THEN -n ELSE n

Quotient(n, d) == IF (n < 0) = (d < 0) THEN Abs(n) \div Abs(d) ELSE -(Abs(n) \div Abs(d))

Remainder(n, d) == n - d * Quotient(n, d)

max_int(w) == 2^(w - 1) - 1
min_int(w) == -(2^(w - 1))
max_uint(w) == 2^w - 1

NumberZeroExtend(n, w) == n % 2^w

NumberSignExtend(n, w) ==
  LET truncated == n % 2^w
  IN  IF truncated >= 2^(w - 1) THEN truncated - 2^w ELSE truncated

(* fits_cast_to<intW_t>: the number is representable as a signed or as an   *)
(* unsigned integer of w bits.  A cast of any other number is a CRAB_ERROR. *)
fits_cast_to(n, w) == n \in min_int(w)..max_uint(w)

CastToUint(n, w) == NumberZeroExtend(n, w)

CastToSint(n, w) == NumberSignExtend(n, w)

(* Bits of two non-negative numbers of at most W64 bits.                    *)
Bit(n, i) == (n \div 2^i) % 2

BitwiseAnd(m, n) == MapThenSumSet(LAMBDA i : 2^i, {i \in 0..(W64 - 1) : Bit(m, i) = 1 /\ Bit(n, i) = 1})
BitwiseOr(m, n) == MapThenSumSet(LAMBDA i : 2^i, {i \in 0..(W64 - 1) : Bit(m, i) = 1 \/ Bit(n, i) = 1})
BitwiseXor(m, n) == MapThenSumSet(LAMBDA i : 2^i, {i \in 0..(W64 - 1) : Bit(m, i) # Bit(n, i)})

(* The smallest 2^k - 1 that is not below n, for n >= 0.                    *)
fill_ones(n) == CHOOSE m \in {2^k - 1 : k \in 0..(2 * W64)} : m >= n /\ (m = 0 \/ m \div 2 < n)

(* Shifting right rounds towards minus infinity.                            *)
ShiftRight(n, k) == n \div 2^k

-----------------------------------------------------------------------------
(* ExtendedNumber                                                           *)

Fin(n) == [inf |-> FALSE, n |-> n]
PLUS_INFINITY == [inf |-> TRUE, n |-> 1]
MINUS_INFINITY == [inf |-> TRUE, n |-> -1]

BLeq(a, b) ==
  IF a.inf # b.inf
    THEN IF a.inf THEN a.n < 0 ELSE b.n > 0
    ELSE a.n <= b.n

BLess(a, b) == ~ BLeq(b, a)

BMin(S) == CHOOSE a \in S : \A b \in S : BLeq(a, b)
BMax(S) == CHOOSE a \in S : \A b \in S : BLeq(b, a)

BNeg(a) == [a EXCEPT !.n = - @]

(* -oo + +oo is a CRAB_ERROR; no caller adds opposite infinities.           *)
BAdd(a, b) == IF a.inf THEN a ELSE IF b.inf THEN b ELSE Fin(a.n + b.n)

BMul(a, b) ==
  IF b.n = 0 THEN b
  ELSE IF a.n = 0 THEN a
  ELSE IF a.inf \/ b.inf THEN [inf |-> TRUE, n |-> IF a.n * b.n > 0 THEN 1 ELSE -1]
  ELSE Fin(a.n * b.n)

(* AbsDiv: the divisor is not 0, and not both are infinite.                 *)
BDiv(a, b) == IF b.inf THEN Fin(0) ELSE IF a.inf THEN a ELSE Fin(Quotient(a.n, b.n))

Unsigned(n) == IF n >= 0 THEN n ELSE CastToUint(n, W64)

BUdiv(a, b) ==
  IF b.inf THEN Fin(0) ELSE IF a.inf THEN a ELSE Fin(Quotient(Unsigned(a.n), Unsigned(b.n)))

-----------------------------------------------------------------------------
(* Interval: the lattice                                                    *)

Bottom == [lb |-> Fin(0), ub |-> Fin(-1)]
Top == [lb |-> MINUS_INFINITY, ub |-> PLUS_INFINITY]

Between(l, u) == IF BLess(u, l) THEN Bottom ELSE [lb |-> l, ub |-> u]
Range2(m, n) == Between(Fin(m), Fin(n))
Just(n) == [lb |-> Fin(n), ub |-> Fin(n)]

is_bottom(i) == BLess(i.ub, i.lb)
is_top(i) == i.lb.inf /\ i.ub.inf
is_singleton(i) == i.lb = i.ub /\ ~ i.lb.inf
finite_size(i) == ~ i.lb.inf /\ ~ i.ub.inf

contains(i, n) == ~ is_bottom(i) /\ BLeq(i.lb, Fin(n)) /\ BLeq(Fin(n), i.ub)

ISubset(i, x) ==
  \/ is_bottom(i)
  \/ ~ is_bottom(x) /\ BLeq(x.lb, i.lb) /\ BLeq(i.ub, x.ub)

Join(i, x) ==
  IF is_bottom(i) THEN x
  ELSE IF is_bottom(x) THEN i
  ELSE [lb |-> BMin({i.lb, x.lb}), ub |-> BMax({i.ub, x.ub})]

Meet(i, x) ==
  IF is_bottom(i) \/ is_bottom(x) THEN Bottom
  ELSE Between(BMax({i.lb, x.lb}), BMin({i.ub, x.ub}))

signed_int(w) == Range2(min_int(w), max_int(w))
unsigned_int(w) == Range2(0, max_uint(w))
nonnegative(w) == Range2(0, max_int(w))
negative(w) == Range2(min_int(w), -1)
unsigned_high(w) == Range2(max_int(w) + 1, max_uint(w))

(* size(): the number of elements, 0 for bottom.                            *)
IntervalSize(i) == IF is_bottom(i) THEN Fin(0) ELSE BAdd(BAdd(i.ub, BNeg(i.lb)), Fin(1))

-----------------------------------------------------------------------------
(* Interval: arithmetic                                                     *)

IAdd(i, x) == IF is_bottom(i) \/ is_bottom(x) THEN Bottom ELSE Between(BAdd(i.lb, x.lb), BAdd(i.ub, x.ub))

ISub(i, x) ==
  IF is_bottom(i) \/ is_bottom(x) THEN Bottom
  ELSE Between(BAdd(i.lb, BNeg(x.ub)), BAdd(i.ub, BNeg(x.lb)))

(* The interval spanned by the images of the four pairs of end points.      *)
Corners(S) == [lb |-> BMin(S), ub |-> BMax(S)]

IMul(i, x) ==
  IF is_bottom(i) \/ is_bottom(x) THEN Bottom
  ELSE Corners({BMul(a, b) : a \in {i.lb, i.ub}, b \in {x.lb, x.ub}})

make_dividend_when_both_nonzero(i, x) ==
  IF BLeq(Fin(0), i.ub) THEN i
  ELSE IF BLess(x.ub, Fin(0)) THEN IAdd(IAdd(i, x), Just(1))
  ELSE ISub(IAdd(i, Just(1)), x)

(* An interval without 0: its negative and its positive part.               *)
Parts(i) == {Between(i.lb, Fin(-1)), Between(Fin(1), i.ub)}

JoinAll(S) == FoldSet(Join, Bottom, S)

(* The three divisions split an operand that contains 0 around it, first    *)
(* the divisor, then the dividend; the code's recursion is three levels.    *)
Div0(i, x) ==
  IF is_bottom(i) \/ is_bottom(x) THEN Bottom
  ELSE IF is_singleton(x)
    THEN LET c == x.lb.n
         IN  CASE c = 1 -> i
               [] c > 1 -> Between(BDiv(i.lb, x.lb), BDiv(i.ub, x.lb))
               [] c < 0 -> Between(BDiv(i.ub, x.lb), BDiv(i.lb, x.lb))
               [] c = 0 -> Just(0)
  ELSE LET a == make_dividend_when_both_nonzero(i, x)
       IN  Corners({BDiv(p, q) : p \in {a.lb, a.ub}, q \in {x.lb, x.ub}})

Div1(i, x) ==
  IF ~ is_singleton(x) /\ contains(i, 0)
    THEN JoinAll({Just(0)} \cup {Div0(a, x) : a \in Parts(i)})
    ELSE Div0(i, x)

IDiv(i, x) ==
  IF ~ is_bottom(i) /\ ~ is_singleton(x) /\ contains(x, 0)
    THEN JoinAll({Just(0)} \cup {Div1(i, b) : b \in Parts(x)})
    ELSE Div1(i, x)

(* A constant divisor of sdiv and udiv takes the short way only when it     *)
(* fits a machine word; sdiv does not swap the bounds for a negative one.   *)
ShortDivisor(x) == is_singleton(x) /\ fits_cast_to(x.lb.n, W64)

Sdiv0(i, x) ==
  IF is_bottom(i) \/ is_bottom(x) THEN Bottom
  ELSE IF ShortDivisor(x)
    THEN LET c == CastToSint(x.lb.n, W64)
         IN  CASE c = 1 -> i
               [] c = 0 -> Just(0)
               [] OTHER -> Between(BDiv(i.lb, Fin(c)), BDiv(i.ub, Fin(c)))
  ELSE LET a == make_dividend_when_both_nonzero(i, x)
       IN  Corners({BDiv(p, q) : p \in {a.lb, a.ub}, q \in {x.lb, x.ub}})

Sdiv1(i, x) ==
  IF ~ ShortDivisor(x) /\ contains(i, 0)
    THEN JoinAll({Just(0)} \cup {Sdiv0(a, x) : a \in Parts(i)})
    ELSE Sdiv0(i, x)

sdiv(i, x) ==
  IF ~ is_bottom(i) /\ ~ ShortDivisor(x) /\ contains(x, 0)
    THEN JoinAll({Just(0)} \cup {Sdiv1(i, b) : b \in Parts(x)})
    ELSE Sdiv1(i, x)

Udiv0(i, x) ==
  IF is_bottom(i) \/ is_bottom(x) THEN Bottom
  ELSE IF ShortDivisor(x)
    THEN LET c == CastToUint(x.lb.n, W64)
         IN  CASE c = 1 -> i
               [] c = 0 -> Just(0)
               [] OTHER -> Between(BUdiv(i.lb, Fin(c)), BUdiv(i.ub, Fin(c)))
  ELSE LET a == make_dividend_when_both_nonzero(i, x)
       IN  Corners({BUdiv(p, q) : p \in {a.lb, a.ub}, q \in {x.lb, x.ub}})

Udiv1(i, x) ==
  IF ~ ShortDivisor(x) /\ contains(i, 0)
    THEN JoinAll({Just(0)} \cup {Udiv0(a, x) : a \in Parts(i)})
    ELSE Udiv0(i, x)

udiv(i, x) ==
  IF ~ is_bottom(i) /\ ~ ShortDivisor(x) /\ contains(x, 0)
    THEN JoinAll({Just(0)} \cup {Udiv1(i, b) : b \in Parts(x)})
    ELSE Udiv1(i, x)

(* Remainders.  The dividend of a remainder by 0 is the remainder.          *)
Srem0(i, x) ==
  LET divisors == {Abs(x.lb.n), Abs(x.ub.n)}
      smallest == Min(divisors)
      largest == Max(divisors)
  IN  IF is_bottom(i) \/ is_bottom(x) THEN Bottom
      ELSE IF is_singleton(i) /\ is_singleton(x)
        THEN Just(IF x.lb.n = 0 THEN i.lb.n ELSE Remainder(i.lb.n, x.lb.n))
      ELSE IF ~ finite_size(x) THEN Join(i, Just(0))
      ELSE IF BLess(i.ub, Fin(smallest)) /\ BLess(BNeg(i.lb), Fin(smallest)) THEN i
      ELSE Range2(IF BLess(i.lb, Fin(0)) THEN -(largest - 1) ELSE 0,
                  IF BLess(i.lb, Fin(0)) /\ BLeq(i.ub, Fin(0)) THEN 0 ELSE largest - 1)

srem(i, x) ==
  IF ~ is_bottom(i) /\ contains(x, 0) /\ ~ (is_singleton(i) /\ is_singleton(x))
    THEN JoinAll({i} \cup {Srem0(i, b) : b \in Parts(x)})
    ELSE Srem0(i, x)

(* Two constants that fit a machine word are divided directly.              *)
ShortUrem(i, x) ==
  is_singleton(i) /\ is_singleton(x) /\ fits_cast_to(i.lb.n, W64) /\ fits_cast_to(x.lb.n, W64)

Urem0(i, x) ==
  IF is_bottom(i) \/ is_bottom(x) THEN Bottom
  ELSE IF ShortUrem(i, x)
    THEN IF x.lb.n = 0 THEN i ELSE Just(CastToUint(i.lb.n, W64) % CastToUint(x.lb.n, W64))
  ELSE IF ~ finite_size(x)
    THEN IF BLess(i.ub, Fin(0)) THEN Top ELSE Join(ISub(i, Just(1)), Just(0))
  ELSE IF ~ i.ub.inf /\ CastToUint(i.ub.n, W64) < CastToUint(x.lb.n, W64) THEN i
  ELSE Range2(0, CastToUint(x.ub.n, W64) - 1)

Urem1(i, x) ==
  IF contains(i, 0) /\ ~ is_bottom(x) /\ ~ ShortUrem(i, x)
    THEN JoinAll({i} \cup {Urem0(a, x) : a \in Parts(i)})
    ELSE Urem0(i, x)

urem(i, x) ==
  IF ~ is_bottom(i) /\ contains(x, 0) /\ ~ ShortUrem(i, x)
    THEN JoinAll({i} \cup {Urem1(i, b) : b \in Parts(x)})
    ELSE Urem1(i, x)

-----------------------------------------------------------------------------
(* Interval: width changes and bit operations                               *)

sign_extend(i, w) ==
  LET extended == Range2(NumberSignExtend(i.lb.n, w), NumberSignExtend(i.ub.n, w))
  IN  IF BLess(IntervalSize(i), IntervalSize(signed_int(w))) /\ ~ is_bottom(extended)
        THEN extended ELSE signed_int(w)

zero_extend(i, w) ==
  LET extended == Range2(NumberZeroExtend(i.lb.n, w), NumberZeroExtend(i.ub.n, w))
  IN  IF BLess(IntervalSize(i), IntervalSize(unsigned_int(w))) /\ ~ is_bottom(extended)
        THEN extended ELSE unsigned_int(w)

bitwise_and(i, x) ==
  IF is_bottom(i) \/ is_bottom(x) THEN Bottom
  ELSE IF i = Just(0) \/ x = Just(0) THEN Just(0)
  ELSE IF is_singleton(i) /\ is_singleton(x) THEN Just(BitwiseAnd(i.lb.n, x.lb.n))
  ELSE IF x = Just(max_uint(W32)) THEN zero_extend(i, W32)
  ELSE IF x = Just(max_uint(W16)) THEN zero_extend(i, W16)
  ELSE IF x = Just(max_uint(W8)) THEN zero_extend(i, W8)
  ELSE IF contains(x, max_uint(W64)) THEN zero_extend(i, W64)
  ELSE IF ~ is_top(x) THEN Between(Fin(0), IF is_top(i) THEN x.ub ELSE BMin({i.ub, x.ub}))
  ELSE IF ~ is_top(i) THEN Between(Fin(0), i.ub)
  ELSE Top

bitwise_or(i, x) ==
  IF is_bottom(i) \/ is_bottom(x) THEN Bottom
  ELSE IF is_singleton(i) /\ is_singleton(x) THEN Just(BitwiseOr(i.lb.n, x.lb.n))
  ELSE IF BLeq(Fin(0), i.lb) /\ BLeq(Fin(0), x.lb)
    THEN IF i.ub.inf \/ x.ub.inf THEN [lb |-> Fin(0), ub |-> PLUS_INFINITY]
         ELSE Range2(0, fill_ones(Max({i.ub.n, x.ub.n})))
  ELSE Top

bitwise_xor(i, x) ==
  IF is_singleton(i) /\ is_singleton(x) THEN Just(BitwiseXor(i.lb.n, x.lb.n)) ELSE bitwise_or(i, x)

(* Shift counts beyond twice the width give top, as in the code (128).      *)
shl(i, x) ==
  IF is_bottom(i) \/ is_bottom(x) THEN Bottom
  ELSE IF is_singleton(x) /\ x.lb.n \in 0..(2 * W64) THEN IMul(i, Just(2^x.lb.n))
  ELSE Top

mask_value(i, w) == IF w > 0 /\ w < W64 THEN bitwise_and(i, Just(max_uint(w))) ELSE i

mask_shift_count(i, w) == IF w > 0 THEN bitwise_and(i, Just(w - 1)) ELSE i
=============================================================================
