------------------------------ MODULE MCRouting ------------------------------
(* The gaps that EdgeRouting is checked on.                                 *)
EXTENDS EdgeRouting

Height == 1..4
Segment(from, to, kind) == [start |-> from, end |-> to, kind |-> kind]

Edges(heights) == {Segment(a, b, "edge") : <<a, b>> \in {p \in heights \X heights : p[1] # p[2]}}

(* Message flows come from above or below, or go there. *)
MessageFlows ==
    UNION {{Segment(h, far, "message"), Segment(far, h, "message"),
            Segment(h, far, "leftLoop"), Segment(far, h, "rightLoop")} : h \in Height, far \in {0, 5}}

(* Ports are at different heights. *)
PortsDiffer(S, heights) ==
    \A s, t \in S : s # t =>
        /\ s.start = t.start => s.start \notin heights
        /\ s.end = t.end => s.end \notin heights

Gap(S, w) == [segments |-> S, width |-> w]

MixedGaps ==
    LET all == Edges(Height) \union MessageFlows
    IN {Gap(S, 48) : S \in {S \in {{s, t, u} : s, t, u \in all} : PortsDiffer(S, Height)}}

(* Sets of edges, by the heights where they end. *)
EdgeSets(n) ==
    LET ends == {f \in [1..n -> 0..n] : \A i, j \in 1..n : i # j /\ f[i] # 0 => f[i] # f[j] /\ f[i] # i}
    IN {{Segment(i, f[i], "edge") : i \in {j \in 1..n : f[j] # 0}} : f \in ends}

EdgeGaps == {Gap(S, 48) : S \in EdgeSets(5)}
NarrowGaps == {Gap(S, 12) : S \in EdgeSets(5)}

AllGaps == MixedGaps \union EdgeGaps \union NarrowGaps
=============================================================================
