------------------------------- MODULE MCPorts -------------------------------
(* The files that PortAssignment is checked on.                             *)
EXTENDS PortAssignment, LayoutFiles

PortFiles ==
    Parsed({LongDiamond(2), BoundaryFlow, Parallel(2), TwoPools, EmptyLane, ForkJoin(1), ForkJoin(2)}
           \union {Fork(g, u, l) : g, u, l \in 1..3} \union {Join(u, l, g) : g, u, l \in 1..3}
           \union {BoundaryTo(m, t) : m, t \in 1..3}
           \union {BoundaryOver(b, x, d) : b, x, d \in 1..3}
           \union {Cross(lanes) : lanes \in [1..4 -> 1..2]}
           \union {TwoForks(<<1, l, 1, m>>) : l, m \in 1..2}
           \union {Messages(lane, sender) : lane \in 1..2, sender \in 2..3}
           \union OneData({Line, TwoPools}, 2))

(* Both branches end in the lane below the gateway.                         *)
GatewayFiles == Parsed({Fork(1, 2, 2)})
=============================================================================
