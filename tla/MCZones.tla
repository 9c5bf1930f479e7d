----------------------------- MODULE MCZones -----------------------------
EXTENDS Zones

E(c, a, b, d) == [c |-> c, t |-> [v \in {u \in 1..3 : <<a, b, d>>[u] # 0} |-> <<a, b, d>>[v]]]
C(c, a, b, d, kind) == [e |-> E(c, a, b, d), kind |-> kind]

MCAssignments == {<<1, E(1, 0, 0, 0)>>, <<1, E(1, 1, 0, 0)>>, <<2, E(1, 1, 0, 0)>>, <<3, E(-1, 1, 1, 0)>>}
MCSettings == {<<1, <<-1, 2>>>>, <<2, <<0, 1>>>>}
MCHavocs == {2}
MCCsts == {C(0, 1, -1, 0, "LE"), C(0, 0, 1, -1, "LT"), C(0, 1, 0, -1, "EQ"), C(0, 1, 0, 0, "NE"),
           C(-1, 1, 1, 0, "LE")}
MCQueries == {C(0, 1, -1, 0, "LE"), C(0, 1, 0, 0, "NE"), C(0, 0, 1, -1, "EQ"), C(-1, 0, 0, 1, "LT")}
MCBox == -1..2
MCMaxUnary == <<2, 2>>
Observed == <<zone, widened, fuel, rounds>>
=============================================================================
