--------------------------- MODULE MCFwdAnalyzer ---------------------------
(***************************************************************************)
(* Instances of FwdSoundness.  The analyzed programs have one register v   *)
(* that saturates at MaxV, and one loop counter c that saturates at        *)
(* Limit + 1.  The abstract domain is a small zone: the interval of v, an  *)
(* upper bound of c, and an upper bound of c - v, through which a guard on *)
(* v bounds the counter.  Its widening drops unstable bounds and its       *)
(* narrowing is that of SplitDBM: a no-op except on top.                   *)
(***************************************************************************)
EXTENDS FwdSoundness

MaxV == 6
Limit == 3   \* BoundedLoopCount::limit

V == 0 .. MaxV
C == 0 .. Limit + 1

MCBottom == [lo |-> MaxV, hi |-> 0, c |-> 0, r |-> 0]
MCTop == [lo |-> 0, hi |-> MaxV, c |-> Limit + 1, r |-> Limit + 1]
MCEntryInv == [MCTop EXCEPT !.hi = 0]
MCConstantLimits == [MCTop EXCEPT !.hi = MaxV - 1]

Least(a, b) == IF a <= b THEN a ELSE b
Most(a, b) == IF a >= b THEN a ELSE b

(* The closed form: c <= v + r bounds c, and the bounds imply a relation. *)
Closed(d) ==
  IF d.lo > d.hi THEN MCBottom
  ELSE LET c == Least(d.c, d.hi + d.r)
       IN  [d EXCEPT !.c = c, !.r = Least(@, Most(c - d.lo, 0))]

MCD == {Closed(d) : d \in [lo : V, hi : V, c : C, r : C]}

MCLeq(d, e) ==
  d = MCBottom \/ (/\ e # MCBottom
                   /\ e.lo <= d.lo /\ d.hi <= e.hi /\ d.c <= e.c /\ d.r <= e.r)

JoinOf(d, e) ==
  IF d = MCBottom THEN e ELSE IF e = MCBottom THEN d
  ELSE [lo |-> Least(d.lo, e.lo), hi |-> Most(d.hi, e.hi),
        c |-> Most(d.c, e.c), r |-> Most(d.r, e.r)]

MeetOf(d, e) ==
  IF MCBottom \in {d, e} THEN MCBottom
  ELSE Closed([lo |-> Most(d.lo, e.lo), hi |-> Least(d.hi, e.hi),
               c |-> Least(d.c, e.c), r |-> Least(d.r, e.r)])

WidenOf(d, e) ==
  IF d = MCBottom THEN e ELSE IF e = MCBottom THEN d
  ELSE Closed([lo |-> IF e.lo < d.lo THEN 0 ELSE d.lo,
               hi |-> IF e.hi > d.hi THEN MaxV ELSE d.hi,
               c |-> IF e.c > d.c THEN Limit + 1 ELSE d.c,
               r |-> IF e.r > d.r THEN Limit + 1 ELSE d.r])

(* The operations are tabulated once. *)
JoinTable == [d \in MCD |-> [e \in MCD |-> JoinOf(d, e)]]
MeetTable == [d \in MCD |-> [e \in MCD |-> MeetOf(d, e)]]
WidenTable == [d \in MCD |-> [e \in MCD |-> WidenOf(d, e)]]

MCJoin(d, e) == JoinTable[d][e]
MCMeet(d, e) == MeetTable[d][e]
MCWiden(d, e) == WidenTable[d][e]
MCNarrow(d, e) == IF d = MCTop THEN e ELSE d

(***************************************************************************)
(* Instructions: an operation on v and a bound that an assertion puts on v *)
(* before it.  "le" and "gt" are Assume instructions.                      *)
(***************************************************************************)
Ins(op, k) == [op |-> op, k |-> k, need |-> MaxV]
Require(k) == [op |-> "nop", k |-> 0, need |-> k]

MCInstructions ==
  {Ins(op, 0) : op \in {"nop", "inc", "dec", "zero", "count"}} \cup
  {Ins(op, k) : op \in {"le", "gt"}, k \in V} \cup {Require(k) : k \in V}

MCValues == [v : V, c : C]
MCEntryValues == [v : {0}, c : {0}]

ExecV(i, v) ==
  CASE i.op = "inc" -> {Least(v + 1, MaxV)}
    [] i.op = "dec" -> {Most(v - 1, 0)}
    [] i.op = "zero" -> {0}
    [] i.op = "le" -> {v} \cap (0 .. i.k)
    [] i.op = "gt" -> {v} \ (0 .. i.k)
    [] OTHER -> {v}

MCExec(i, x) ==
  {[v |-> w, c |-> IF i.op = "count" THEN Least(x.c + 1, Limit + 1) ELSE x.c] :
     w \in ExecV(i, x.v)}

(* The bound of c - v after the instruction. *)
Relation(i, d) ==
  CASE i.op = "inc" -> Most(d.r - 1, 0)
    [] i.op \in {"dec", "count"} -> d.r + 1
    [] i.op = "zero" -> d.c
    [] OTHER -> d.r

TransformOf(i, d) ==
  IF d = MCBottom THEN MCBottom
  ELSE LET img == UNION {ExecV(i, v) : v \in d.lo .. d.hi}
       IN  IF img = {} THEN MCBottom
           ELSE Closed([lo |-> Min(img), hi |-> Max(img),
                        c |-> IF i.op = "count" THEN Least(d.c + 1, Limit + 1)
                              ELSE d.c,
                        r |-> Relation(i, d)])

TransformTable == [i \in MCInstructions |-> [d \in MCD |-> TransformOf(i, d)]]
MCTransform(i, d) == TransformTable[i][d]

MCSafe(i, x) == x.v <= i.need /\ (i.op = "count" => x.c <= Limit)
MCCheck(i, d) ==
  d = MCBottom \/ (d.hi <= i.need /\ (i.op = "count" => d.c <= Limit))
MCIn(x, d) ==
  d # MCBottom /\ d.lo <= x.v /\ x.v <= d.hi /\ x.c <= d.c /\ x.c - x.v <= d.r
MCCount(x) == x.c
MCIsCounter(i) == i.op = "count"
MCInitCounters(d, heads) == [d EXCEPT !.c = 0, !.r = 0]
MCLoopCountUb(d) == d.c

(***************************************************************************)
(* Programs.  Label 0 is the entry and 7 the exit; Menu(m) gives each      *)
(* label its possible instructions.                                        *)
(***************************************************************************)
MCLabels == 0 .. 7
Nop == Ins("nop", 0)
Ops == {Nop, Ins("inc", 0), Ins("dec", 0), Ins("zero", 0)}

Graph(edges) == [l \in MCLabels |-> {e[2] : e \in {f \in edges : f[1] = l}}]

AllPrograms(edges, menu) ==
  {[cfg |-> Graph(edges), instr |-> p,
    check_for_termination |-> \E l \in MCLabels : p[l].op = "count"] :
     p \in FoldSet(LAMBDA l, ps : {[q EXCEPT ![l] = i] : q \in ps, i \in menu[l]},
                   {[l \in MCLabels |-> Nop]}, DOMAIN menu)}

(* What a label that is left open may hold. *)
Open == Ops \cup {Ins("le", 1), Ins("le", 3), Ins("gt", 1), Ins("gt", 3),
                 Require(2)}

(* One loop, with a guard, a body and an exit path. *)
While ==
  AllPrograms({<<0,1>>, <<1,2>>, <<2,3>>, <<3,1>>, <<1,4>>, <<4,7>>},
    2 :> Open @@ 3 :> Open @@ 4 :> {Ins("gt", 1), Require(2), Require(4)})

(* A loop with two bodies: one climbs, the other descends again. *)
TwoBodies ==
  AllPrograms({<<0,1>>, <<1,2>>, <<2,3>>, <<3,1>>, <<1,4>>, <<4,5>>, <<5,1>>,
               <<1,6>>, <<6,7>>},
    2 :> {Ins("le", 1)} @@ 3 :> {Ins("inc", 0)} @@ 4 :> {Ins("gt", 2), Ins("gt", 3)}
    @@ 5 :> Open \cup {Require(3), Require(0)} @@ 6 :> {Nop, Require(2)})

(* A loop inside a loop. *)
Nested ==
  AllPrograms({<<0,1>>, <<1,2>>, <<2,3>>, <<3,2>>, <<2,4>>, <<4,1>>, <<1,5>>,
               <<5,7>>},
    2 :> {Nop, Ins("le", 3)} @@ 3 :> Open @@ 4 :> Open @@ 5 :> {Require(3)})

(* A loop with two entries, inside another one. *)
Irreducible ==
  AllPrograms({<<0,1>>, <<1,2>>, <<1,3>>, <<2,3>>, <<3,2>>, <<2,4>>, <<4,7>>,
               <<3,5>>, <<5,1>>},
    2 :> {Ins("le", 2), Ins("inc", 0)} @@ 3 :> Open @@ 4 :> {Require(2)}
    @@ 5 :> Open)

(* An inner loop of one label. *)
SelfLoop ==
  AllPrograms({<<0,1>>, <<1,2>>, <<2,2>>, <<2,3>>, <<3,1>>, <<1,4>>, <<4,7>>},
    2 :> Open @@ 3 :> Open @@ 4 :> {Require(1), Require(5)})

(* Two loops, one after the other; the first is left from its body. *)
TwoLoops ==
  AllPrograms({<<0,1>>, <<1,2>>, <<2,1>>, <<2,3>>, <<3,4>>, <<4,3>>, <<3,5>>,
               <<5,7>>},
    1 :> {Nop, Ins("inc", 0)} @@ 2 :> Open @@ 4 :> Open @@ 5 :> {Require(3)})

(* Programs with the loop counter that from_sequence inserts after the     *)
(* head of each outermost loop.                                            *)
Count1 == {Ins("count", 0)}

CountedWhile ==
  AllPrograms({<<0,1>>, <<1,6>>, <<6,2>>, <<2,3>>, <<3,1>>, <<6,4>>, <<4,7>>},
    6 :> Count1 @@ 2 :> {Ins("le", k) : k \in 0 .. 4} @@ 3 :> Ops
    @@ 4 :> {Nop, Ins("gt", 1), Require(2)})

NestedEdges == {<<0,1>>, <<1,6>>, <<6,2>>, <<2,3>>, <<3,2>>, <<2,4>>, <<4,1>>,
                <<6,5>>, <<5,7>>}
CountedNested ==
  AllPrograms(NestedEdges,
    6 :> Count1 @@ 2 :> {Nop, Ins("le", 2)} @@ 3 :> Ops
    @@ 4 :> {Nop, Ins("gt", 1), Ins("gt", 5)} @@ 5 :> {Nop, Ins("gt", 2)})

CountedPrograms == CountedWhile \cup CountedNested

(* An inner loop that no run leaves: v is 0 and the way out asks for more. *)
InnerPrograms == AllPrograms(NestedEdges, 6 :> Count1 @@ 4 :> {Ins("gt", 5)})
InnerGraphs == {p.cfg : p \in InnerPrograms}

MCPrograms ==
  While \cup TwoBodies \cup TwoLoops \cup Nested \cup Irreducible \cup SelfLoop
    \cup CountedPrograms
MCGraphs == {p.cfg : p \in MCPrograms}
=============================================================================
