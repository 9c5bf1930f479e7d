----------------------------- MODULE SplitDBM -----------------------------
(***************************************************************************)
(* The zone domain: crab/split_dbm.cpp and crab_utils/graph_ops.hpp over   *)
(* the graphs of crab_utils/adapt_sgraph.hpp.                              *)
(*                                                                         *)
(* Vertex 0 is the constant zero and the variables are 1..NumVars, so an   *)
(* edge s -> d of weight w says d - s <= w and edges at 0 are bounds.      *)
(* "Split" means that a relation implied by the bounds is not stored: only *)
(* the graph without 0 is kept closed.  A zone has the graph and one       *)
(* integer per live vertex, the potential, which is a model of the graph   *)
(* and makes every reduced weight non-negative for the shortest-path       *)
(* algorithms.  The code numbers vertices and keeps two maps between them  *)
(* and the variables; here the variable is the vertex, so the live         *)
(* variables are those with a potential.                                   *)
(***************************************************************************)
EXTENDS Intervals, SequencesExt, Functions

CONSTANT NumVars

ASSUME NumVarsAssumption == NumVars \in Nat \ {0}

Vars == 1..NumVars

(* The vertex of an assignment's left-hand side until the old one is freed. *)
Fresh == NumVars + 1

-----------------------------------------------------------------------------
(* f, and g where f has no value.                                           *)
f ++ g == [x \in (DOMAIN f) \cup (DOMAIN g) |-> IF x \in DOMAIN f THEN f[x] ELSE g[x]]

(* The members of S by increasing key, and for a set of numbers by value.   *)
SortedBy(S, key) ==
  CHOOSE s \in [1..Cardinality(S) -> S] :
    IsInjective(s) /\ \A i, j \in 1..Cardinality(S) : i < j => key[s[i]] <= key[s[j]]

InOrder(S) == SortedBy(S, [v \in S |-> v])

-----------------------------------------------------------------------------
(* AdaptGraph: a partial function from pairs of vertices to weights.        *)

elem(g, s, d) == <<s, d>> \in DOMAIN g

edge_val(g, s, d) == g[<<s, d>>]

set_edge(g, s, w, d) == [e \in {<<s, d>>} |-> w] ++ g

update_edge(g, s, w, d) == IF elem(g, s, d) /\ edge_val(g, s, d) <= w THEN g ELSE set_edge(g, s, w, d)

succs(g, s) == {e[2] : e \in {f \in DOMAIN g : f[1] = s}}
preds(g, d) == {e[1] : e \in {f \in DOMAIN g : f[2] = d}}

(* The three views: without the edges of v, reversed, and on the vertices S. *)
SubGraph(g, v) == [e \in {f \in DOMAIN g : f[1] # v /\ f[2] # v} |-> g[e]]

GraphRev(g) == [e \in {<<f[2], f[1]>> : f \in DOMAIN g} |-> edge_val(g, e[2], e[1])]

GraphPerm(g, S) == [e \in {f \in DOMAIN g : f[1] \in S /\ f[2] \in S} |-> g[e]]

(* apply_delta: the edges of delta replace those of g.                      *)
apply_delta(g, delta) == delta ++ g

(* F(x), for an x that is computed once and used several times.             *)
Let(x, F(_)) == CHOOSE r \in {F(y) : y \in {x}} : TRUE

-----------------------------------------------------------------------------
(* GraphOps: closing after one vertex or one edge has changed               *)

(* Distances that may get shorter along the edges that leave d.             *)
Visit(g, dist, d) ==
  [e \in (DOMAIN dist) \cup succs(g, d) |->
     IF ~ elem(g, d, e) THEN dist[e]
     ELSE IF e \notin DOMAIN dist THEN dist[d] + edge_val(g, d, e)
     ELSE Min({dist[e], dist[d] + edge_val(g, d, e)})]

(* Distances from v along at most two edges, the direct successors visited  *)
(* by increasing slack so that one pass suffices when g without v is closed. *)
close_after_assign_fwd(g, p, v) ==
  LET next == succs(g, v) \ {v}
      direct == [d \in next |-> edge_val(g, v, d)]
      reach == FoldLeft(LAMBDA dist, d : Visit(g, dist, d), [d \in {v} |-> 0] ++ direct,
                        SortedBy(next, [d \in next |-> direct[d] - p[d]]))
  IN  [d \in DOMAIN reach \ {v} |-> reach[d]]

close_after_assign(g, p, v) ==
  LET From(dist) == [e \in {v} \X (DOMAIN dist) |-> dist[e[2]]]
      To(dist) == [e \in (DOMAIN dist) \X {v} |-> dist[e[1]]]
  IN  Let(close_after_assign_fwd(g, p, v), From)
        ++ Let(close_after_assign_fwd(GraphRev(g), [u \in DOMAIN p |-> - p[u]], v), To)

(* Fault: paths through both ends of the edge are not extended.            *)
CloseOverEdgeEnds(g, ii, jj) ==
  LET c == edge_val(g, ii, jj)
  IN  [s \in (preds(g, ii) \ {0, jj, ii}) \X {jj} |->
         IF elem(g, s[1], jj) THEN Min({edge_val(g, s[1], jj), edge_val(g, s[1], ii) + c})
         ELSE edge_val(g, s[1], ii) + c] ++ g

(* The edge ii -> jj is new or lighter: extend the paths that it improves.  *)
close_over_edge(g, ii, jj) ==
  LET c == edge_val(g, ii, jj)
      Lighter(s, w, d) == ~ elem(g, s, d) \/ w < edge_val(g, s, d)
      src_dec == {s \in preds(g, ii) \ {0, jj} : Lighter(s, edge_val(g, s, ii) + c, jj)}
      dest_dec == {d \in succs(g, jj) \ {0, ii} : Lighter(ii, c + edge_val(g, jj, d), d)}
      both == {e \in src_dec \X dest_dec :
                 Lighter(e[1], edge_val(g, e[1], ii) + c + edge_val(g, jj, e[2]), e[2])}
  IN  [s \in src_dec \X {jj} |-> edge_val(g, s[1], ii) + c]
        ++ [d \in {ii} \X dest_dec |-> c + edge_val(g, jj, d[2])]
        ++ [e \in both |-> edge_val(g, e[1], ii) + c + edge_val(g, jj, e[2])]
        ++ g

(* The vertex of the heap that removeMin returns.                           *)
Nearest(st) == CHOOSE v \in st.heap : \A u \in st.heap : st.dist[v] <= st.dist[u]

(* The nearest vertex es gets its new potential, and the vertices that have *)
(* kept theirs and are too far above es go on the heap.                     *)
Repair(g, p, st, es) ==
  LET alt == [st.alt EXCEPT ![es] = p[es] + st.dist[es]]
      Slack(ed) == alt[es] + edge_val(g, es, ed) - alt[ed]
      lower == {ed \in succs(g, es) : alt[ed] = p[ed] /\ Slack(ed) < st.dist[ed]}
  IN  [dist |-> [v \in DOMAIN p |-> IF v \in lower THEN Slack(v) ELSE st.dist[v]],
       alt |-> alt,
       heap |-> (st.heap \ {es}) \cup lower]

RepairNearest(g, p, st) == IF st.heap = {} THEN st ELSE Repair(g, p, st, Nearest(st))

(* Make the potential a model of the graph again after ii -> jj was added;  *)
(* the result is not ok when the edge closes a negative cycle.              *)
repair_potential(g, p, ii, jj) ==
  LET slack == p[ii] + edge_val(g, ii, jj) - p[jj]
      start == [dist |-> [v \in DOMAIN p |-> IF v = jj THEN slack ELSE 0], alt |-> p, heap |-> {jj}]
      End(st) == IF st.dist[ii] < 0 THEN [ok |-> FALSE, p |-> p] ELSE [ok |-> TRUE, p |-> st.alt]
  IN  IF slack >= 0 THEN [ok |-> TRUE, p |-> p]
      ELSE Let(FoldLeft(LAMBDA st, n : RepairNearest(g, p, st), start,
                        [n \in 1..(2 * Cardinality(DOMAIN p)) |-> n]), End)

-----------------------------------------------------------------------------
(* GraphOps: shortest paths.  A state of Dijkstra's algorithm has the       *)
(* reduced distances found so far, the marks of the vertices reached, the   *)
(* heap, and the edges from src that turned out lighter (out).              *)

DijkstraStart(g, p, src, marks) ==
  [dist |-> [d \in succs(g, src) |-> p[src] + edge_val(g, src, d) - p[d]] ++ [d \in {src} |-> 0],
   mark |-> marks, heap |-> succs(g, src), out |-> <<>>]

(* es leaves the heap: record an improved edge from src, then relax the     *)
(* edges from es to heads, which take the mark of the edge.                 *)
DijkstraStep(g, p, src, st, es, heads, colour) ==
  LET cost == st.dist[es] + p[es]
      val == cost - p[src]
      Dist(ed) == cost + edge_val(g, es, ed) - p[ed]
      lower == {ed \in heads : ed \notin DOMAIN st.dist \/ Dist(ed) < st.dist[ed]}
      same == {ed \in (heads \ lower) \cap DOMAIN st.mark : Dist(ed) = st.dist[ed]}
  IN  [dist |-> [ed \in lower |-> Dist(ed)] ++ st.dist,
       mark |-> [ed \in lower |-> colour[<<es, ed>>]]
                  ++ [ed \in same |-> st.mark[ed] \cup colour[<<es, ed>>]] ++ st.mark,
       heap |-> (st.heap \ {es}) \cup lower,
       out |-> IF elem(g, src, es) /\ edge_val(g, src, es) <= val THEN st.out
               ELSE [e \in {<<src, es>>} |-> val] ++ st.out]

(* Edges of the syntactic meet g are coloured by the operands whose weight  *)
(* they have.  Each operand is closed, so a shortest path alternates.       *)
Alternate(g, colour, st, es) == {d \in succs(g, es) : colour[<<es, d>>] = {"L", "R"} \ st.mark[es]}

ChromeStep(g, p, colour, src, st) ==
  IF st.heap = {} THEN st
  ELSE DijkstraStep(g, p, src, st, Nearest(st), Alternate(g, colour, st, Nearest(st)), colour)

chrome_dijkstra(g, p, colour, src) ==
  FoldLeft(LAMBDA st, n : ChromeStep(g, p, colour, src, st),
           DijkstraStart(g, p, src, [d \in succs(g, src) |-> colour[<<src, d>>]]),
           [n \in 1..(2 * NumVars) |-> n]).out

close_after_meet(g, p, l, r) ==
  LET HasWeight(h, e) == e \in DOMAIN h /\ h[e] = g[e]
      colour == [e \in DOMAIN g |-> (IF HasWeight(l, e) THEN {"L"} ELSE {})
                                       \cup (IF HasWeight(r, e) THEN {"R"} ELSE {})]
  IN  FoldLeft(LAMBDA delta, v : chrome_dijkstra(g, p, colour, v) ++ delta,
               <<>>, InOrder(DOMAIN p \ {0}))

(* Closing after widening.  The flags handed to close_after_widen as        *)
(* is_stable are those of the set of unstable vertices: paths are recovered *)
(* from the vertices outside that set and are not followed past a vertex    *)
(* that was reached through one of it.                                      *)
RecoverStep(g, p, colour, src, st) ==
  IF st.heap = {} THEN st
  ELSE DijkstraStep(g, p, src, st, Nearest(st),
                    IF st.mark[Nearest(st)] = {"stable"} THEN {} ELSE succs(g, Nearest(st)), colour)

dijkstra_recover(g, p, is_stable, src) ==
  LET colour == [e \in DOMAIN g |-> IF e[1] \in is_stable THEN {"stable"} ELSE {}]
  IN  FoldLeft(LAMBDA st, n : RecoverStep(g, p, colour, src, st),
               DijkstraStart(g, p, src, [d \in succs(g, src) |-> {}]),
               [n \in 1..(2 * NumVars) |-> n]).out

close_after_widen(g, p, is_stable) ==
  FoldLeft(LAMBDA delta, v : dijkstra_recover(g, p, is_stable, v) ++ delta,
           <<>>, InOrder(DOMAIN p \ ({0} \cup is_stable)))

-----------------------------------------------------------------------------
(* GraphOps: syntactic join, meet and widening, and Bellman-Ford            *)

SyntacticJoin(l, r) == [e \in DOMAIN l \cap DOMAIN r |-> Max({l[e], r[e]})]

SyntacticMeet(l, r) ==
  [e \in DOMAIN l \cup DOMAIN r |->
     IF e \notin DOMAIN r THEN l[e]
     ELSE IF e \notin DOMAIN l THEN r[e]
     ELSE Min({l[e], r[e]})]

(* Fault: the comparison is the wrong way round.                           *)
WidenStableSwapped(l, r) == [e \in {f \in DOMAIN l \cap DOMAIN r : r[f] >= l[f]} |-> l[e]]

SyntacticWiden(l, r) == [e \in {f \in DOMAIN l \cap DOMAIN r : r[f] <= l[f]} |-> l[e]]

(* A vertex is unstable when widening drops one of its outgoing edges.      *)
Unstable(l, widened) == {e[1] : e \in DOMAIN l \ DOMAIN widened}

(* Depth-first search from the vertices in increasing order: the order in   *)
(* which vertices are entered and the order in which they are left.         *)
DepthFirst(g, V) ==
  LET Step(st, n) ==
        LET new == IF st.stack = <<>> THEN V \ ToSet(st.pre)
                   ELSE succs(g, Last(st.stack)) \ ToSet(st.pre)
        IN  IF new # {} THEN [st EXCEPT !.stack = Append(@, Min(new)), !.pre = Append(@, Min(new))]
            ELSE IF st.stack = <<>> THEN st
            ELSE [st EXCEPT !.stack = Front(@), !.post = Append(@, Last(st.stack))]
  IN  FoldLeft(Step, [stack |-> <<>>, pre |-> <<>>, post |-> <<>>],
               [n \in 1..(2 * Cardinality(V)) |-> n])

Reachable(g, v) ==
  LET Grow(S, n) == S \cup {e[2] : e \in {f \in DOMAIN g : f[1] \in S}}
  IN  FoldLeft(Grow, {v}, [n \in 1..(NumVars + 1) |-> n])

(* The strongly connected components in the order Tarjan's algorithm emits  *)
(* them, each as its vertices from the last entered to the first.           *)
compute_sccs(g, V) ==
  LET dfs == DepthFirst(g, V)
      Scc(v) == {u \in V : u \in Reachable(g, v) /\ v \in Reachable(g, u)}
      IsRoot(v) == Head(SelectSeq(dfs.pre, LAMBDA u : u \in Scc(v))) = v
      roots == SelectSeq(dfs.post, IsRoot)
  IN  [n \in DOMAIN roots |-> Reverse(SelectSeq(dfs.pre, LAMBDA v : v \in Scc(roots[n])))]

(* Bellman-Ford on one component after the other.  Vertices of the earlier  *)
(* components keep the mark that lets them be queued again.                 *)
select_potentials(g, p) ==
  LET Relax(st, s) ==
        LET lower == {d \in succs(g, s) : st.p[s] + edge_val(g, s, d) < st.p[d]}
            add == SelectSeq(InOrder(lower), LAMBDA d : d \in st.idle \cup {s})
        IN  [st EXCEPT !.p = [d \in DOMAIN @ |-> IF d \in lower THEN st.p[s] + edge_val(g, s, d) ELSE @[d]],
                       !.idle = (@ \cup {s}) \ ToSet(add),
                       !.next = @ \o add]
      Round(st, v) ==
        LET swept == FoldLeft(Relax, [st EXCEPT !.next = <<>>], Reverse(st.queue))
        IN  [swept EXCEPT !.queue = swept.next]
      Component(st, scc) ==
        IF ~ st.ok THEN st
        ELSE LET end == FoldLeft(Round, [st EXCEPT !.queue = scc, !.idle = @ \ ToSet(scc)], scc)
             IN  [end EXCEPT !.ok = \A s \in ToSet(end.queue) : \A d \in succs(g, s) :
                                      end.p[s] + edge_val(g, s, d) >= end.p[d]]
      final == FoldLeft(Component, [ok |-> TRUE, p |-> p, idle |-> {}, queue |-> <<>>, next |-> <<>>],
                        compute_sccs(g, DOMAIN p))
  IN  [ok |-> final.ok, p |-> final.p]

-----------------------------------------------------------------------------
(* SplitDBM: a zone, and the bounds and values read from it.  A linear      *)
(* expression has a constant c and the coefficients t of its variables; a   *)
(* zone that becomes bottom is the state that add_constraint and meet       *)
(* report by returning false.                                               *)

TopZone == [ok |-> TRUE, g |-> <<>>, p |-> [v \in {0} |-> 0]]
BottomZone == [ok |-> FALSE, g |-> <<>>, p |-> [v \in {0} |-> 0]]

zone_is_top(z) == z.g = <<>>

LiveVars(z) == DOMAIN z.p \ {0}

Term(k, v) == [c |-> 0, t |-> [u \in {v} |-> k]]
Const(n) == [c |-> n, t |-> <<>>]

(* The relation d - s that the bounds of s and d imply.                     *)
ThroughZero(g, s, d) == edge_val(g, s, 0) + edge_val(g, 0, d)

get_lb(z, x) == IF elem(z.g, x, 0) THEN Fin(- edge_val(z.g, x, 0)) ELSE MINUS_INFINITY
get_ub(z, x) == IF elem(z.g, 0, x) THEN Fin(edge_val(z.g, 0, x)) ELSE PLUS_INFINITY
get_interval(z, x) == [lb |-> get_lb(z, x), ub |-> get_ub(z, x)]

(* eval_interval of an expression, and the same without one variable.       *)
EvalTerms(z, c, t, S) ==
  FoldLeft(LAMBDA r, v : IAdd(r, IMul(Just(t[v]), get_interval(z, v))), Just(c), InOrder(S))

eval_interval(z, e) == EvalTerms(z, e.c, e.t, DOMAIN e.t)

compute_residual(z, e, pivot) ==
  EvalTerms(z, - e.c, [v \in DOMAIN e.t |-> - e.t[v]], DOMAIN e.t \ {pivot})

pot_value(z, v) == IF v \in DOMAIN z.p THEN z.p[v] ELSE 0

eval_expression(z, e) == e.c + SumFunction([v \in DOMAIN e.t |-> e.t[v] * (pot_value(z, v) - z.p[0])])

get_vert(z, v) == IF v \in DOMAIN z.p THEN z ELSE [z EXCEPT !.p = [u \in {v} |-> 0] ++ @]

-----------------------------------------------------------------------------
(* SplitDBM: forgetting and assigning                                       *)

havoc(z, v) ==
  IF v \notin DOMAIN z.p THEN z
  ELSE [z EXCEPT !.g = SubGraph(@, v), !.p = [u \in DOMAIN @ \ {v} |-> @[u]]]

(* set: the variable is an interval, and its potential one of its ends.     *)
set(z, x, intv) ==
  LET Upper(zz) == IF intv.ub.inf THEN zz
                   ELSE [zz EXCEPT !.p[x] = zz.p[0] + intv.ub.n, !.g = set_edge(@, 0, intv.ub.n, x)]
      Lower(zz) == IF intv.lb.inf THEN zz
                   ELSE [zz EXCEPT !.p[x] = zz.p[0] + intv.lb.n, !.g = set_edge(@, x, - intv.lb.n, 0)]
  IN  IF is_top(intv) THEN havoc(z, x) ELSE Let(Let(get_vert(havoc(z, x), x), Upper), Lower)

(* diffcsts_of_assign: v -> k where the expression exceeds v by at most k   *)
(* (upper) or at least k (lower).                                           *)
diffcsts_of_assign(z, e, upper) ==
  LET Bound(y) == IF upper = (e.t[y] > 0) THEN get_ub(z, y) ELSE get_lb(z, y)
      unbounded == {y \in DOMAIN e.t : Bound(y).inf}
      bounded == DOMAIN e.t \ unbounded
      residual == e.c + SumFunction([y \in bounded |-> e.t[y] * Bound(y).n])
  IN  CASE unbounded = {} -> [y \in {u \in bounded : e.t[u] > 0} |-> residual - Bound(y).n]
        [] Cardinality(unbounded) = 1 /\ \A y \in unbounded : e.t[y] = 1 -> [y \in unbounded |-> residual]
        [] OTHER -> <<>>

(* The left-hand side gets a new vertex, whose relations are closed before  *)
(* the old vertex goes, so the expression may mention the variable itself.  *)
NewVertex(z, e, lbs, ubs) ==
  Let(FoldLeft(get_vert, z, InOrder(DOMAIN lbs \cup DOMAIN ubs)),
      LAMBDA zz : [zz EXCEPT !.p = [v \in {Fresh} |-> z.p[0] + eval_expression(z, e)] ++ @,
                             !.g = apply_delta(@, [d \in {Fresh} \X (DOMAIN lbs) |-> - lbs[d[2]]]
                                                    ++ [s \in (DOMAIN ubs) \X {Fresh} |-> ubs[s[1]]])])

CloseVertex(z) ==
  [z EXCEPT !.g = apply_delta(@, close_after_assign(SubGraph(@, 0), z.p, Fresh))]

BoundVertex(z, value) ==
  [z EXCEPT !.g = FoldLeft(LAMBDA g, c : update_edge(g, c[1], c[2], c[3]), @,
                           (IF value.lb.inf THEN <<>> ELSE << <<Fresh, - value.lb.n, 0>> >>)
                             \o (IF value.ub.inf THEN <<>> ELSE << <<0, value.ub.n, Fresh>> >>))]

Rename(z, lhs) ==
  LET Vert(v) == IF v = lhs THEN Fresh ELSE v
      Name(v) == IF v = Fresh THEN lhs ELSE v
  IN  [z EXCEPT !.g = [e \in {<<Name(h[1]), Name(h[2])>> : h \in DOMAIN @} |-> edge_val(@, Vert(e[1]), Vert(e[2]))],
                !.p = [v \in {Name(u) : u \in DOMAIN @} |-> @[Vert(v)]]]

assign(z, lhs, e) ==
  LET Assign(value, lbs, ubs) ==
        IF is_singleton(value) \/ (lbs = <<>> /\ ubs = <<>>) THEN set(z, lhs, value)
        ELSE Let(Let(Let(NewVertex(z, e, lbs, ubs), CloseVertex),
                     LAMBDA zz : havoc(BoundVertex(zz, value), lhs)),
                 LAMBDA zz : Rename(zz, lhs))
  IN  Let([value |-> eval_interval(z, e),
           lbs |-> diffcsts_of_assign(z, e, FALSE),
           ubs |-> diffcsts_of_assign(z, e, TRUE)],
          LAMBDA r : Assign(r.value, r.lbs, r.ubs))

-----------------------------------------------------------------------------
(* SplitDBM: adding constraints                                             *)

(* diffcsts_of_lin_leq: the expression is at most 0.  Bounds [v, n] and     *)
(* differences [x, y, n] for x - y <= n, in the order of the variables.     *)
diffcsts_of_lin_leq(z, e) ==
  LET pos == {y \in DOMAIN e.t : e.t[y] > 0}
      neg == DOMAIN e.t \ pos
      Known(y) == IF y \in pos THEN get_lb(z, y) ELSE get_ub(z, y)
      free_lb == {y \in pos : Known(y).inf}
      free_ub == {y \in neg : Known(y).inf}
      exp_ub == - e.c - SumFunction([y \in DOMAIN e.t \ (free_lb \cup free_ub) |-> e.t[y] * Known(y).n])
      Unit(S) == \A y \in S : Abs(e.t[y]) = 1
      Share(y) == IF Known(y).inf THEN 0 ELSE Known(y).n
      Pairs(X, Y) == LET csts == {[x |-> x, y |-> y, n |-> exp_ub + Share(x) - Share(y)] : x \in X, y \in Y}
                     IN  SortedBy(csts, [c \in csts |-> c.y * NumVars + c.x])
      Lower(Y) == [n \in 1..Cardinality(Y) |->
                     LET y == InOrder(Y)[n] IN [v |-> y, n |-> Quotient(- exp_ub, - e.t[y]) + Share(y)]]
      Upper(X) == [n \in 1..Cardinality(X) |->
                     LET x == InOrder(X)[n] IN [v |-> x, n |-> Quotient(exp_ub, e.t[x]) + Share(x)]]
      None == [csts |-> <<>>, lbs |-> <<>>, ubs |-> <<>>]
  IN  IF Cardinality(free_lb) > 1 \/ Cardinality(free_ub) > 1 THEN None
      ELSE IF free_lb # {} /\ free_ub # {}
        THEN IF Unit(free_lb \cup free_ub) THEN [None EXCEPT !.csts = Pairs(free_lb, free_ub)] ELSE None
      ELSE IF free_lb # {}
        THEN [csts |-> IF Unit(free_lb) THEN Pairs(free_lb, neg) ELSE <<>>, lbs |-> <<>>, ubs |-> Upper(free_lb)]
      ELSE IF free_ub # {}
        THEN [csts |-> IF Unit(free_ub) THEN Pairs(pos, free_ub) ELSE <<>>, lbs |-> Lower(free_ub), ubs |-> <<>>]
      ELSE [csts |-> Pairs(pos, neg), lbs |-> Lower(neg), ubs |-> Upper(pos)]

(* A new edge, after which the potential is repaired or the zone is bottom. *)
WithEdge(z, g, s, d) ==
  Let(repair_potential(g, z.p, s, d),
      LAMBDA r : IF r.ok THEN [ok |-> TRUE, g |-> g, p |-> r.p] ELSE BottomZone)

(* Fault: the potential is not repaired.                                   *)
AddBoundUnrepaired(z, s, w, d) == IF z.ok THEN [z EXCEPT !.g = update_edge(@, s, w, d)] ELSE z

(* A bound is added when it is stronger than the one that is known.         *)
AddBound(z, s, w, d) ==
  IF ~ z.ok \/ (elem(z.g, s, d) /\ edge_val(z.g, s, d) <= w) THEN z
  ELSE WithEdge(z, set_edge(z.g, s, w, d), s, d)

AddLower(z, b) == AddBound(get_vert(z, b.v), b.v, - b.n, 0)

AddUpper(z, b) == AddBound(get_vert(z, b.v), 0, b.n, b.v)

AddDifference(z, c) ==
  LET Add(zz) == WithEdge(zz, update_edge(zz.g, c.y, c.n, c.x), c.y, c.x)
      Close(zz) == IF zz.ok THEN [zz EXCEPT !.g = close_over_edge(@, c.y, c.x)] ELSE zz
  IN  IF z.ok THEN Let(Let(get_vert(get_vert(z, c.y), c.x), Add), Close) ELSE z

(* The bounds of all variables are then recovered from the relations.       *)
CloseBounds(z) ==
  IF z.ok THEN [z EXCEPT !.g = apply_delta(@, close_after_assign(@, z.p, 0))] ELSE z

add_linear_leq(z, e) ==
  LET Add(d) == FoldLeft(AddDifference, FoldLeft(AddUpper, FoldLeft(AddLower, z, d.lbs), d.ubs), d.csts)
  IN  IF z.ok THEN Let(Let(diffcsts_of_lin_leq(z, e), Add), CloseBounds) ELSE z

trim_interval(i, n) ==
  IF i.lb = Fin(n) THEN Between(Fin(n + 1), i.ub)
  ELSE IF i.ub = Fin(n) THEN Between(i.lb, Fin(n - 1))
  ELSE IF is_top(i) /\ n = 0 THEN Range2(1, max_uint(W64))
  ELSE i

(* A stronger bound of x is passed on to the variables related to x.        *)
Strengthen(z, s, w, d) ==
  IF z.ok THEN WithEdge(z, update_edge(z.g, s, w, d), s, d) ELSE z

StrengthenLb(z, x, b) ==
  IF b.inf \/ ~ elem(z.g, x, 0) \/ - b.n >= edge_val(z.g, x, 0) THEN z
  ELSE FoldLeft(LAMBDA zz, v : Strengthen(zz, v, edge_val(zz.g, v, x) - b.n, 0),
                WithEdge(z, set_edge(z.g, x, - b.n, 0), x, 0), InOrder(preds(z.g, x) \ {0}))

StrengthenUb(z, x, b) ==
  IF ~ z.ok \/ b.inf \/ ~ elem(z.g, 0, x) \/ b.n >= edge_val(z.g, 0, x) THEN z
  ELSE FoldLeft(LAMBDA zz, v : Strengthen(zz, 0, b.n + edge_val(zz.g, x, v), v),
                WithEdge(z, set_edge(z.g, 0, b.n, x), 0, x), InOrder(succs(z.g, x) \ {0}))

add_univar_disequation(z, x, n) ==
  LET Trim(new) ==
        IF is_bottom(new) THEN BottomZone
        ELSE IF is_top(new) \/ ~ ISubset(new, get_interval(z, x)) THEN z
        ELSE Let(StrengthenLb(get_vert(z, x), x, new.lb), LAMBDA zz : StrengthenUb(zz, x, new.ub))
  IN  Let(trim_interval(get_interval(z, x), n), Trim)

(* A constraint is an expression and its relation to 0.                     *)
Negate(e) == [c |-> - e.c, t |-> [v \in DOMAIN e.t |-> - e.t[v]]]
PlusOne(e) == [e EXCEPT !.c = @ + 1]

HoldsFor(kind, n) ==
  CASE kind = "LE" -> n <= 0 [] kind = "LT" -> n < 0 [] kind = "EQ" -> n = 0 [] kind = "NE" -> n # 0

(* The other variables leave one value for v, which v does not have.        *)
Exclude(z, e, v) ==
  Let(IDiv(compute_residual(z, e, v), Just(e.t[v])),
      LAMBDA i : IF z.ok /\ is_singleton(i) THEN add_univar_disequation(z, v, i.lb.n) ELSE z)

Disequation(z, e) == FoldLeft(LAMBDA zz, v : Exclude(zz, e, v), z, InOrder(DOMAIN e.t))

(* The inequalities that a constraint other than a disequation consists of. *)
Inequalities(cst) ==
  CASE cst.kind = "LE" -> <<cst.e>>
    [] cst.kind = "LT" -> <<PlusOne(cst.e)>>
    [] cst.kind = "EQ" -> <<cst.e, Negate(cst.e)>>

add_constraint(z, cst) ==
  IF ~ z.ok THEN z
  ELSE IF cst.e.t = <<>> THEN IF HoldsFor(cst.kind, cst.e.c) THEN z ELSE BottomZone
  ELSE IF cst.kind = "NE" THEN Disequation(z, cst.e)
  ELSE FoldLeft(add_linear_leq, z, Inequalities(cst))

(* intersect: some point of the zone may satisfy the constraint; entail:    *)
(* every one does, by intervals or because its negation is infeasible.      *)
intersect(z, cst) ==
  IF cst.e.t = <<>> THEN HoldsFor(cst.kind, cst.e.c)
  ELSE zone_is_top(z) \/ add_constraint(z, cst).ok

(* Fault: the negation of a strict inequality is strict.                   *)
NegateStrictly(cst) ==
  CASE cst.kind = "NE" -> [cst EXCEPT !.kind = "EQ"]
    [] cst.kind = "EQ" -> [cst EXCEPT !.kind = "NE"]
    [] OTHER -> [e |-> Negate(cst.e), kind |-> "LT"]

NegateConstraint(cst) ==
  CASE cst.kind = "NE" -> [cst EXCEPT !.kind = "EQ"]
    [] cst.kind = "EQ" -> [cst EXCEPT !.kind = "NE"]
    [] cst.kind = "LT" -> [e |-> Negate(cst.e), kind |-> "LE"]
    [] cst.kind = "LE" -> [e |-> Negate(cst.e), kind |-> "LT"]

entail_aux(z, cst) == ~ add_constraint(z, NegateConstraint(cst)).ok

entail(z, cst) ==
  LET i == eval_interval(z, cst.e)
      ByInterval == CASE cst.kind = "EQ" -> i = Just(0)
                      [] cst.kind = "LE" -> BLeq(i.ub, Fin(0))
                      [] cst.kind = "LT" -> BLess(i.ub, Fin(0))
                      [] cst.kind = "NE" -> BLess(i.ub, Fin(0)) \/ BLess(Fin(0), i.lb)
  IN  IF cst.e.t = <<>> THEN HoldsFor(cst.kind, cst.e.c)
      ELSE \/ ByInterval
           \/ IF cst.kind = "EQ"
                THEN /\ entail_aux(z, [cst EXCEPT !.kind = "LE"])
                     /\ entail_aux(z, [e |-> Negate(cst.e), kind |-> "LE"])
                ELSE entail_aux(z, cst)

-----------------------------------------------------------------------------
(* SplitDBM: order, join, widening and meet                                 *)

(* Fault: only the relations that both zones have are compared.            *)
LeqOnCommonEdges(z, o) == \A e \in DOMAIN o.g \cap DOMAIN z.g : z.g[e] <= o.g[e]

(* Every edge of o is implied by an edge or by the bounds of z.             *)
leq(z, o) ==
  LET linked == {v \in LiveVars(o) : succs(o.g, v) \cup preds(o.g, v) # {}}
      ByBounds(s, d, w) == elem(z.g, s, 0) /\ elem(z.g, 0, d) /\ ThroughZero(z.g, s, d) <= w
  IN  \/ zone_is_top(o)
      \/ /\ ~ zone_is_top(z)
         /\ Cardinality(LiveVars(z)) >= Cardinality(LiveVars(o))
         /\ linked \subseteq LiveVars(z)
         /\ \A e \in DOMAIN o.g : (e \in DOMAIN z.g /\ z.g[e] <= o.g[e]) \/ ByBounds(e[1], e[2], o.g[e])

(* Potentials relative to that of zero, for the vertices S.                 *)
Rebased(z, S) == [v \in S |-> z.p[v] - z.p[0]]

(* The relations of gy that the bounds of gx imply, with the weight implied. *)
Deferred(gx, gy) ==
  [e \in {f \in DOMAIN SubGraph(gy, 0) : elem(gx, f[1], 0) /\ elem(gx, 0, f[2])} |->
     ThroughZero(gx, e[1], e[2])]

Reclosed(gx, implied, p) ==
  Let(SyntacticMeet(gx, implied),
      LAMBDA met : apply_delta(met, close_after_meet(SubGraph(met, 0), p, gx, implied)))

(* Fault: the relation of one operand only.                                *)
RelatedInTheLesser(gx, gy, S, D) ==
  [e \in {f \in S \X D : f[1] # f[2]} |->
     Min({ThroughZero(gx, e[1], e[2]), ThroughZero(gy, e[1], e[2])})]

(* Relations between a lower bound of S and an upper bound of D: both move  *)
(* the same way from one operand to the other, so they may be related.      *)
Related(gx, gy, S, D) ==
  [e \in {f \in S \X D : f[1] # f[2]} |->
     Max({ThroughZero(gx, e[1], e[2]), ThroughZero(gy, e[1], e[2])})]

IndependentRelations(gx, gy) ==
  LET common == DOMAIN gx \cap DOMAIN gy
      lbs == {e[1] : e \in {f \in common : f[2] = 0}}
      ubs == {e[2] : e \in {f \in common : f[1] = 0}}
      Lower(g, h) == {v \in lbs : edge_val(g, v, 0) < edge_val(h, v, 0)}
      Upper(g, h) == {v \in ubs : edge_val(g, 0, v) < edge_val(h, 0, v)}
  IN  <<Related(gx, gy, Lower(gy, gx), Upper(gx, gy)), Related(gx, gy, Lower(gx, gy), Upper(gy, gx))>>

JoinGraphs(gx, gy, px, py) ==
  FoldLeft(SyntacticMeet,
           SyntacticJoin(Reclosed(gx, Deferred(gx, gy), px), Reclosed(gy, Deferred(gy, gx), py)),
           IndependentRelations(gx, gy))

(* Vertices that no edge uses any more are collected.                       *)
Collected(g, p) ==
  [ok |-> TRUE, g |-> g, p |-> [v \in {u \in DOMAIN p : u = 0 \/ succs(g, u) \cup preds(g, u) # {}} |-> p[v]]]

zone_join(x, y) ==
  LET both == DOMAIN x.p \cap DOMAIN y.p
      px == Rebased(x, both)
      JoinOf(gx, gy) == Let(JoinGraphs(gx, gy, px, Rebased(y, both)), LAMBDA g : Collected(g, px))
  IN  IF ~ x.ok \/ (y.ok /\ zone_is_top(y)) THEN y
      ELSE IF ~ y.ok \/ zone_is_top(x) THEN x
      ELSE Let(<<GraphPerm(x.g, both), GraphPerm(y.g, both)>>, LAMBDA gs : JoinOf(gs[1], gs[2]))

(* normalize: restores the closure that widening lost, from the flags above. *)
normalize(z, unstable) ==
  IF unstable = {} THEN z
  ELSE Let([z EXCEPT !.g = apply_delta(@, close_after_widen(SubGraph(@, 0), z.p, unstable))], CloseBounds)

zone_widen(x, y) ==
  LET both == DOMAIN x.p \cap DOMAIN y.p
      gx == GraphPerm(x.g, both)
  IN  IF ~ x.ok THEN y
      ELSE IF ~ y.ok THEN x
      ELSE Let(SyntacticWiden(gx, GraphPerm(y.g, both)),
               LAMBDA g : normalize([ok |-> TRUE, g |-> g, p |-> Rebased(x, both)], Unstable(gx, g)))

zone_meet(x, y) ==
  LET Close(met, p) == [ok |-> TRUE, p |-> p,
                        g |-> apply_delta(met, close_after_meet(SubGraph(met, 0), p, x.g, y.g))]
      Select(met, sel) == IF sel.ok THEN Let(Close(met, sel.p), CloseBounds) ELSE BottomZone
  IN  IF ~ x.ok \/ ~ y.ok THEN BottomZone
      ELSE IF zone_is_top(x) THEN y
      ELSE IF zone_is_top(y) THEN x
      ELSE Let(SyntacticMeet(x.g, y.g), LAMBDA met :
             Let(select_potentials(met, Rebased(x, DOMAIN x.p) ++ Rebased(y, DOMAIN y.p)),
                 LAMBDA sel : Select(met, sel)))

zone_narrow(x, y) == IF ~ x.ok \/ ~ y.ok THEN BottomZone ELSE IF zone_is_top(x) THEN y ELSE x
=============================================================================
