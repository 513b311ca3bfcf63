---------------------------- MODULE MCTraceroute ----------------------------
EXTENDS Traceroute

C(f, m, q) == [first_ttl |-> f, max_hops |-> m, nqueries |-> q]

\* Two hops with two probes each, the largest u8, a later start, ttl 0, a start
\* beyond the end, and no queries with a ttl of 0 and without
MCConfig == {C(1, 2, 2), C(1, U8 - 1, 1), C(2, 3, 1), C(0, 2, 1), C(3, 1, 1), C(0, 1, 0), C(1, 2, 0)}

\* The path changes at the first hop
MCRouter(ttl) == IF ttl = 1 THEN {"r", "s"} ELSE {}

MCStranger == {"x"}
=============================================================================
