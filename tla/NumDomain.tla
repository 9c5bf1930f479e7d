---------------------------- MODULE NumDomain ----------------------------
(***************************************************************************)
(* What a numerical abstract domain promises the analyzer: each of its     *)
(* values stands for a set of points, and the value that an operation      *)
(* returns stands for at least the points that the concrete operation can  *)
(* lead to.  pts[s] is the set of points, within Points, of the value in   *)
(* slot s, and op is the operation that was asked for last.  The operation *)
(* decides what may not be lost; what is added is the domain's business.   *)
(***************************************************************************)
EXTENDS Integers, Functions

CONSTANTS Points,   \* the concrete states looked at, functions from variables
          Slots     \* the places that hold an abstract value

VARIABLES pts, op

absVars == <<pts, op>>

(* A linear expression [c, t] at a point, and its relation to 0.            *)
Value(e, pt) == e.c + SumFunction([v \in DOMAIN e.t |-> e.t[v] * pt[v]])

Satisfies(pt, cst) ==
  LET n == Value(cst.e, pt)
  IN  CASE cst.kind = "LE" -> n <= 0
        [] cst.kind = "LT" -> n < 0
        [] cst.kind = "EQ" -> n = 0
        [] cst.kind = "NE" -> n # 0

(* The points that the operation o leads to.  Binary operations combine     *)
(* the value in slot o.s with the one in slot o.with.                       *)
Post(o) ==
  LET P == pts[o.s]
  IN  CASE o.name = "assign" -> {[pt EXCEPT ![o.x] = Value(o.e, pt)] : pt \in P}
        [] o.name = "set" -> {[pt EXCEPT ![o.x] = n] : pt \in P, n \in o.range}
        [] o.name = "havoc" -> {q \in Points : \E pt \in P : q = [pt EXCEPT ![o.x] = q[o.x]]}
        [] o.name = "assume" -> {pt \in P : Satisfies(pt, o.cst)}
        [] o.name \in {"join", "widen"} -> P \cup pts[o.with]
        [] o.name \in {"meet", "narrow"} -> P \cap pts[o.with]

Init ==
  /\ pts = [s \in Slots |-> Points]
  /\ op = [name |-> "none"]

Perform(s) ==
  /\ op'.s = s
  /\ Post(op') \cap Points \subseteq pts'[s]
  /\ \A t \in Slots \ {s} : pts'[t] = pts[t]

Next == \E s \in Slots : Perform(s)

Spec == Init /\ [][Next]_absVars
=============================================================================
