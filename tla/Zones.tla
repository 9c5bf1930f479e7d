------------------------------ MODULE Zones ------------------------------
(***************************************************************************)
(* Zones under sequences of the operations that the analyzer performs on   *)
(* them: crab/split_dbm.cpp through crab/add_bottom.hpp, which adds the    *)
(* bottom value.  There are two zones, one per slot.  Fuel bounds how many *)
(* operations each undergoes.                                              *)
(***************************************************************************)
EXTENDS SplitDBM

CONSTANTS Assignments,  \* pairs of a variable and the linear expression assigned
          Settings,     \* pairs of a variable and the interval <<lb, ub>> it is set to
          Havocs,       \* the variables that are forgotten
          Csts,         \* the constraints that are assumed
          Queries,      \* the constraints that entail and intersect are asked
          Box,          \* the values of a variable that are looked at
          MaxUnary,     \* operations on the zone of each slot before they meet
          MaxBinary,    \* how many times the zones are combined
          MaxAfter      \* operations on a combined zone

VARIABLES zone,     \* the zone in each slot
          widened,  \* whether a widening went into it
          fuel, rounds, op

vars == <<zone, widened, fuel, rounds, op>>

Slots == {1, 2}

(* Linear expressions and constraints as the analyzer builds them.  A       *)
(* disequation is of two variables or of a variable and a number, so that   *)
(* its coefficients are 1 and -1: the division of its residual by any other *)
(* would truncate.                                                          *)
IsLinear(e) ==
  /\ e \in [c : Int, t : {e.t}]
  /\ DOMAIN e.t \subseteq Vars
  /\ e.t \in [DOMAIN e.t -> Int \ {0}]

IsConstraint(cst) ==
  /\ cst \in [e : {cst.e}, kind : {"LE", "LT", "EQ", "NE"}]
  /\ IsLinear(cst.e)
  /\ cst.kind = "NE" => \A v \in DOMAIN cst.e.t : cst.e.t[v] \in {-1, 1}

ASSUME InputsAssumption ==
  /\ \A a \in Assignments : a[1] \in Vars /\ IsLinear(a[2])
  /\ \A a \in Settings : a[1] \in Vars /\ a[2][1] \in Int /\ a[2][2] \in Int /\ a[2][1] <= a[2][2]
  /\ \A x \in Havocs : x \in Vars
  /\ \A cst \in Csts \cup Queries : IsConstraint(cst)
  /\ Box \subseteq Int

(* What trim_interval needs of the largest machine word.                    *)
ASSUME MaxUintAssumption == max_uint(W64) \in Nat \ {0}

Points == [Vars -> Box]

At(pt, v) == IF v = 0 THEN 0 ELSE pt[v]

(* The points of a zone.                                                    *)
gamma(z) == {pt \in Points : z.ok /\ \A e \in DOMAIN z.g : At(pt, e[2]) - At(pt, e[1]) <= z.g[e]}

(* AddBottom: an operation on bottom is bottom.                             *)
Lift(z, result) == IF z.ok THEN result ELSE z

Init ==
  /\ zone = [s \in Slots |-> TopZone]
  /\ widened = [s \in Slots |-> FALSE]
  /\ fuel = MaxUnary
  /\ rounds = 0
  /\ op = [name |-> "none"]

Unary(s, o, result) ==
  /\ fuel[s] > 0
  /\ s = 1 /\ rounds = 0 => fuel[2] = MaxUnary[2]
  /\ fuel' = [fuel EXCEPT ![s] = @ - 1]
  /\ zone' = [zone EXCEPT ![s] = Lift(@, result)]
  /\ op' = o
  /\ UNCHANGED <<rounds, widened>>

Assign(s, x, e) ==
  Unary(s, [name |-> "assign", s |-> s, x |-> x, e |-> e], assign(zone[s], x, e))

Set(s, x, r) ==
  Unary(s, [name |-> "set", s |-> s, x |-> x, range |-> r[1]..r[2]], set(zone[s], x, Range2(r[1], r[2])))

Havoc(s, x) ==
  Unary(s, [name |-> "havoc", s |-> s, x |-> x], havoc(zone[s], x))

Assume(s, cst) ==
  Unary(s, [name |-> "assume", s |-> s, cst |-> cst], add_constraint(zone[s], cst))

Binary(name, result) ==
  /\ rounds < MaxBinary
  /\ rounds' = rounds + 1
  /\ zone' = [zone EXCEPT ![1] = result]
  /\ fuel' = [s \in Slots |-> IF s = 1 THEN MaxAfter ELSE 0]
  /\ widened' = [widened EXCEPT ![1] = @ \/ name = "widen"]
  /\ op' = [name |-> name, s |-> 1, with |-> 2]

JoinZones == Binary("join", zone_join(zone[1], zone[2]))
WidenZones == Binary("widen", zone_widen(zone[1], zone[2]))
MeetZones == Binary("meet", zone_meet(zone[1], zone[2]))
NarrowZones == Binary("narrow", zone_narrow(zone[1], zone[2]))

Next ==
  \/ \E s \in Slots, a \in Assignments : Assign(s, a[1], a[2])
  \/ \E s \in Slots, a \in Settings : Set(s, a[1], a[2])
  \/ \E s \in Slots, x \in Havocs : Havoc(s, x)
  \/ \E s \in Slots, cst \in Csts : Assume(s, cst)
  \/ JoinZones
  \/ WidenZones
  \/ NarrowZones

Spec == Init /\ [][Next]_vars

(* With the meet, which has a run of its own.                               *)
SpecWithMeet == Init /\ [][Next \/ MeetZones]_vars

-----------------------------------------------------------------------------
(* Properties *)

Domain == INSTANCE NumDomain WITH pts <- [s \in Slots |-> gamma(zone[s])]

(* Refinement.  Zones implement a numerical domain: no operation of         *)
(* split_dbm.cpp loses a concrete state, whatever sequence of assignments,  *)
(* constraints, joins and widenings made its operands.                      *)
ZonesAreSound == Domain!Spec

(* The potential of a zone satisfies every edge, as the shortest-path       *)
(* algorithms and repair_potential of graph_ops.hpp require of their input; *)
(* in particular a zone that is not bottom is satisfiable.                  *)
PotentialIsAModel ==
  \A s \in Slots : zone[s].ok =>
    \A e \in DOMAIN zone[s].g : zone[s].p[e[1]] + zone[s].g[e] >= zone[s].p[e[2]]

Implied(g, s, d, w) ==
  \/ s = d
  \/ elem(g, s, d) /\ edge_val(g, s, d) <= w
  \/ elem(g, s, 0) /\ elem(g, 0, d) /\ ThroughZero(g, s, d) <= w

(* The normal form that split_dbm.cpp keeps up by closing around each       *)
(* changed edge, vertex or operand only, its conjecture about the join      *)
(* included: a path is no tighter than the relation between its ends or     *)
(* than their bounds.  Only widening gives it up.                           *)
NormalForm ==
  \A s \in Slots : zone[s].ok /\ ~ widened[s] =>
    LET g == zone[s].g
    IN  \A e, f \in DOMAIN g : e[2] = f[1] /\ e[1] # f[2] => Implied(g, e[1], f[2], g[e] + g[f])

(* The order test that ends the fixpoint iteration is sound: if a zone is   *)
(* below another, its points are points of the other.                       *)
LeqIsSound ==
  zone[1].ok /\ zone[2].ok /\ leq(zone[1], zone[2]) => gamma(zone[1]) \subseteq gamma(zone[2])

(* A join or a widening is above both operands in that same order, so that  *)
(* an iteration whose state no longer grows is seen to be stable.           *)
UpperBounds ==
  [][op'.name \in {"join", "widen"} =>
       \A s \in Slots : zone[s].ok => zone'[1].ok /\ leq(zone[s], zone'[1])]_vars

(* What entail and intersect answer about a constraint, from intervals or   *)
(* by adding it or its negation, holds of every point of the zone.          *)
AnswersAreRight ==
  \A q \in Queries : zone[1].ok =>
    /\ entail(zone[1], q) => \A pt \in gamma(zone[1]) : Domain!Satisfies(pt, q)
    /\ ~ intersect(zone[1], q) => \A pt \in gamma(zone[1]) : ~ Domain!Satisfies(pt, q)

(* "Potentials cannot be selected -- state is infeasible" (split_dbm.cpp):  *)
(* a meet is bottom only if its operands have no point in common.           *)
BottomMeansInfeasible ==
  [][op'.name = "meet" /\ ~ zone'[1].ok => gamma(zone[1]) \cap gamma(zone[2]) = {}]_vars
=============================================================================
