------------------------------ MODULE MCDrawing ------------------------------
(* The files that FlowDrawing is checked on.                                *)
EXTENDS FlowDrawing, LayoutFiles

Reader(n) == [outgoing |-> TRUE, node |-> n]
Writer(n) == [outgoing |-> FALSE, node |-> n]

(* A data node read by the last event, and one that it is made from.        *)
Derived == WithData(WithData(Line, <<Reader(3)>>), <<Reader(4), Writer(2)>>)

(* A message to a task that is entered from right above, too: what comes in *)
(* at the top could force the message to bend there.                        *)
FromAbove(from) == WithData(Talk(from, 5), <<Reader(5)>>)

DrawingFiles ==
    Parsed({LongDiamond(2), Fork(1, 1, 2), BoundaryFlow, ForkJoin(1), ForkJoin(2),
            BoundaryMessage(TRUE), Derived}
           \union {Talk(from, to) : from \in {1, 3}, to \in 4..6} \union {Talk(6, 1), Talk(5, 2)}
           \union {Stacked(1, 4), Stacked(3, 1)} \union {FromAbove(from) : from \in 1..3}
           \union {WithData(BoundaryMessage(TRUE), <<Reader(5)>>)}
           \union {WithData(Line, <<Reader(to), Writer(from)>>) : from, to \in 1..3})

(* A data node that the last event writes and the first one reads.          *)
TurnedFiles == Parsed({WithData(Line, <<Writer(3), Reader(1)>>)})
=============================================================================
