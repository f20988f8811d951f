------------------------ MODULE MCStreamConnections ------------------------
(* StreamConnections for TLC: where the connections are accepted. *)
EXTENDS StreamConnections

CONSTANTS c1, c2, p1, p2

TwoConnections == {c1, c2}
TwoProcesses == {p1, p2}

\* Each connection reaches another API process behind the load balancer.
Apart == [c \in TwoConnections |-> IF c = c1 THEN p1 ELSE p2]

\* Both connections reach the same API process.
Together == [c \in TwoConnections |-> p1]
=============================================================================
