---------------------------- MODULE PortAssignment ----------------------------
(***************************************************************************)
(* port_assignment(), after the phases of CrossingMinimization.  Each edge *)
(* gets a port: a side of its node and a place on that side, counted from  *)
(* the left or the top.  An edge that leaves a node upwards or downwards   *)
(* and must turn gets a bend: a new node above or below in the same layer, *)
(* reached by a vertical edge.  Tasks, events, data and dummies come first,*)
(* gateways in a second loop.  Coordinates are left out.                   *)
(***************************************************************************)
EXTENDS ColumnWalks

CONSTANT Files

VARIABLES
    parsed, graph, phase, at, before, saved,
    vertical,   \* the edges with is_vertical
    origin,     \* the node that a bend belongs to
    ports       \* incoming_ports and outgoing_ports of the nodes

Crossing == INSTANCE CrossingMinimization

vars == <<parsed, graph, phase, at, before, saved, vertical, origin, ports>>

NoPorts == [incoming |-> <<>>, outgoing |-> <<>>]

Init == Crossing!CrossingInit /\ vertical = {} /\ origin = <<>> /\ ports = <<>>

LayOut ==
    /\ Crossing!LayOut \/ Crossing!CrossingWork
    /\ ports' = [n \in DOMAIN graph'.nodes |-> NoPorts]
    /\ UNCHANGED <<vertical, origin>>

(* What a handler works on; it fails by an assertion ("panic") or never     *)
(* comes back ("hang").                                                     *)
State == [graph |-> graph, vertical |-> vertical, origin |-> origin, ports |-> ports,
          end |-> "ok"]

Fail(s, how) == [s EXCEPT !.end = how]

-----------------------------------------------------------------------------
(* top_barrier(), bottom_barrier() *)

BarrierOn(node, end) ==
    CASE node # 0 -> [end |-> "found", node |-> node]
      [] node = 0 /\ end = "end" -> [end |-> "none"]
      [] node = 0 /\ end # "end" -> [end |-> end]

FirstBarrier(barriers) == IF barriers = <<>> THEN [end |-> "none"] ELSE barriers[1]

MetOn(g, walks) ==
    [i \in DOMAIN walks |-> BarrierOn(FirstReal(g, walks[i]), walks[i].end)]

Barrier(g, n, way) ==
    FirstBarrier(SelectSeq(MetOn(g, WalksOverPools(g, n, way)), LAMBDA b : b.end # "none"))

(* The real node that blocks the way: a bend stands for its own node. *)
Blocking(s, barrier) ==
    IF s.graph.nodes[barrier.node].kind = "Bend" THEN s.origin[barrier.node] ELSE barrier.node

-----------------------------------------------------------------------------
(* handle_nongateway_node(): what it gathers about a port *)

(* The node below is asked for only if nothing at all is above. *)
MustGoVertical(s, other, top, bottom) ==
    CASE top.end = "found" /\ Blocking(s, top) = other -> "above"
      [] top.end = "none" /\ bottom.end = "found" /\ Blocking(s, bottom) = other -> "below"
      [] OTHER -> "no"

(* interpool_y(): a message turns right after it has left the pool of its   *)
(* sender, below the pool with this number.                                 *)
InterpoolY(from, to) == IF from < to THEN from ELSE from - 1

(* attached_to_boundary_event() *)
AtBoundaryEvent(edge, n) ==
    edge.boundary /\ n = IF edge.reversed THEN edge.to ELSE edge.from

PortInfo(s, n, e, incoming, top, bottom) ==
    LET g == s.graph
        edge == g.edges[e]
        other == IF incoming THEN edge.from ELSE edge.to
        pool == g.nodes[other].pool
        turn == InterpoolY(g.nodes[edge.from].pool, g.nodes[edge.to].pool)
        kind == CASE edge.flow # "message" -> edge.flow
                  [] edge.flow = "message" /\ pool < g.nodes[n].pool -> "messageAbove"
                  [] edge.flow = "message" /\ pool >= g.nodes[n].pool -> "messageBelow"
    IN [edge |-> e, incoming |-> incoming, kind |-> kind,
        place |-> Place(g.nodes[other]), layer |-> g.nodes[other].layer,
        vertical |-> MustGoVertical(s, other, top, bottom),
        wouldLikeVertical |->
            CASE kind = "messageAbove" -> top.end = "none" \/ turn >= g.nodes[top.node].pool
              [] kind = "messageBelow" -> bottom.end = "none" \/ turn < g.nodes[bottom.node].pool
              [] OTHER -> FALSE,
        boundary |-> AtBoundaryEvent(edge, n)]

IsMessage(port) == port.kind \in {"messageAbove", "messageBelow"}

(* partition_ports(): the ports of a side go, clockwise, to the top, the    *)
(* upper side, its middle, the lower side and the bottom.                   *)
Partition(ps) ==
    LET pinned(p) == p.boundary \/ p.vertical # "no"
        sideways(p) == IsMessage(p) /\ ~p.wouldLikeVertical
        upwards(p) == \/ p.vertical = "above"
                      \/ /\ p.vertical = "no"
                         /\ p.kind = "messageAbove" \/ (p.kind = "sequence" /\ ~p.boundary)
        split == Max({i \in DOMAIN ps : upwards(ps[i])} \union {0})
        low == (split + 1)..Len(ps)
        lowPinned == {i \in low : pinned(ps[i])}
        lowSideways == {i \in low : sideways(ps[i])}
        lowFlows == {i \in low : ps[i].kind # "data"}
        lower == CASE lowPinned # {} -> Min(lowPinned) - 1
                   [] lowPinned = {} /\ lowSideways # {} -> Max(lowSideways)
                   [] lowPinned \union lowSideways = {} /\ lowFlows # {} -> Min(lowFlows) - 1
                   [] OTHER -> Len(ps)
        middle == IF split > 0 /\ ~pinned(ps[split]) /\ ps[split].kind = "sequence"
                  THEN split - 1 ELSE split
        high == 1..middle
        highPinned == {i \in high : pinned(ps[i])}
        highSideways == {i \in high : sideways(ps[i])}
        highFlows == {i \in high : ps[i].kind # "data"}
        upper == CASE highPinned # {} -> Max(highPinned)
                   [] highPinned = {} /\ highSideways # {} -> Min(highSideways) - 1
                   [] highPinned \union highSideways = {} /\ highFlows # {} -> Max(highFlows)
                   [] OTHER -> 0
        turns(p, kind) == p.boundary \/ (p.kind = kind /\ ~p.wouldLikeVertical)
        bends(i) == \/ i <= upper /\ \E j \in 1..i : turns(ps[j], "messageAbove")
                    \/ i > lower /\ \E j \in i..Len(ps) : turns(ps[j], "messageBelow")
        port(i) == ps[i] @@ [bend |-> bends(i)]
    IN [top |-> [i \in 1..upper |-> port(i)],
        side |-> [i \in 1..(lower - upper) |-> port(upper + i)],
        bottom |-> [i \in 1..(Len(ps) - lower) |-> port(lower + i)]]

(* The order on the top and the bottom: does incoming port p come before    *)
(* outgoing port q of node n?                                               *)
IncomingFirst(g, n, p, q) ==
    LET plain(r) == r.vertical = "no" /\ r.kind \in {"sequence", "data"}
        adjacent == g.nodes[n].pool - p.place[1] \in {-1, 1}
        layer == g.nodes[n].layer
        flow(e) == IF g.edges[e].type = "Dummy" THEN g.edges[e].original ELSE e
    IN \/ plain(p) \/ plain(q)
       \/ /\ ~plain(p) /\ ~plain(q) /\ (~IsMessage(p) \/ adjacent)
          /\ p.layer < q.layer \/ (p.layer = q.layer /\ flow(p.edge) < flow(q.edge))
       \/ /\ ~plain(p) /\ ~plain(q) /\ IsMessage(p) /\ ~adjacent
          /\ IF p.layer < layer THEN q.layer >= layer ELSE q.layer <= layer

(* Two flows to one layer are told apart by their statements, which only    *)
(* messages have.                                                           *)
Incomparable(g, n, p, q) ==
    /\ p.vertical # "no" \/ IsMessage(p)
    /\ q.vertical # "no" \/ IsMessage(q)
    /\ ~IsMessage(p) \/ g.nodes[n].pool - p.place[1] \in {-1, 1}
    /\ p.layer = q.layer
    /\ ~IsMessage(p) \/ ~IsMessage(q)

(* merge_by(): takes from one of the lists until both are used up. *)
Merge(g, n, ins, outs) ==
    LET step(m, k) ==
            LET i == m.i + 1
                j == k - m.i
                takeIn == /\ i <= Len(ins)
                          /\ j > Len(outs) \/ IncomingFirst(g, n, ins[i], outs[j])
                both == i <= Len(ins) /\ j <= Len(outs)
            IN [i |-> IF takeIn THEN i ELSE m.i,
                list |-> Append(m.list, IF takeIn THEN ins[i] ELSE outs[j]),
                ok |-> m.ok /\ ~(both /\ Incomparable(g, n, ins[i], outs[j]))]
    IN FoldLeft(step, [i |-> 0, list |-> <<>>, ok |-> TRUE],
                [k \in 1..(Len(ins) + Len(outs)) |-> k])

(* Mutant: incoming ports are not turned around. *)
TopPortsNotReversed(g, n, ins, outs) == Merge(g, n, ins.top, outs.top)

(* What is on the top and on the bottom, from left to right.                *)
TopPorts(g, n, ins, outs) == Merge(g, n, Reverse(ins.top), outs.top)
BottomPorts(g, n, ins, outs) == Merge(g, n, ins.bottom, Reverse(outs.bottom))

-----------------------------------------------------------------------------
(* add_bend_dummy_node() *)

(* Where a bend goes in the layer of a lane: to its top or bottom, or right *)
(* above or below one of its nodes.                                         *)
SpotBeside(g, node, where) ==
    CASE node = 0 -> [above |-> 0, below |-> 0]
      [] node # 0 /\ where \in {"top", "above"} -> [above |-> g.nodes[node].above, below |-> node]
      [] node # 0 /\ where \in {"bottom", "below"} -> [above |-> node, below |-> g.nodes[node].below]

BendSpot(g, lane, layer, where) ==
    SpotBeside(g, CASE where.at = "top" -> TopNode(g, lane, layer)
                    [] where.at = "bottom" -> BottomNode(g, lane, layer)
                    [] OTHER -> where.node, where.at)

(* A list of edges in which another one takes the place of e. *)
Substituted(es, e, new) == [i \in DOMAIN es |-> IF es[i] = e THEN new ELSE es[i]]

(* Mutant: off by one. *)
VerticalPartsOffByOne(edge, n, first) ==
    (IF edge.from = n THEN {first + 1} ELSE {}) \union (IF edge.to = n THEN {first + 2} ELSE {})

(* The part between the bend and its node is vertical. *)
VerticalParts(edge, n, first) ==
    (IF edge.from = n THEN {first} ELSE {}) \union (IF edge.to = n THEN {first + 1} ELSE {})

(* Edge e is replaced by one edge to the bend and one from it. *)
BentRegular(s, e, bend, n) ==
    LET g == s.graph
        edge == g.edges[e]
        first == Len(g.edges) + 1
        part(from, to, boundary) ==
            [DummyEdge(from, to, edge.flow, boundary, e) EXCEPT !.reversed = edge.reversed]
    IN [s EXCEPT
          !.graph.edges = Append(Append([@ EXCEPT ![e].type = "Replaced", ![e].first = first],
              part(edge.from, bend, edge.boundary /\ ~edge.reversed)),
              part(bend, edge.to, edge.boundary /\ edge.reversed)),
          !.graph.nodes[edge.from].outgoing = Substituted(@, e, first),
          !.graph.nodes[edge.to].incoming = Substituted(@, e, first + 1),
          !.graph.nodes[bend].incoming = <<first>>,
          !.graph.nodes[bend].outgoing = <<first + 1>>,
          !.vertical = @ \union VerticalParts(edge, n, first)]

(* Mutant: the edge that was replaced still starts with the bent part.      *)
BentDummyKeepsFirst(s, e, bend, n) ==
    LET g == s.graph
        edge == g.edges[e]
        new == Len(g.edges) + 1
    IN [s EXCEPT
          !.graph.edges = Append([@ EXCEPT ![e].from = bend,
                                           ![e].boundary = edge.boundary /\ edge.reversed],
              [DummyEdge(edge.from, bend, edge.flow, edge.boundary /\ ~edge.reversed,
                         edge.original) EXCEPT !.reversed = edge.reversed]),
          !.graph.nodes[edge.from].outgoing = Substituted(@, e, new),
          !.graph.nodes[bend].incoming = <<new>>,
          !.graph.nodes[bend].outgoing = <<e>>,
          !.vertical = @ \union {new} \union (IF edge.from = n THEN {} ELSE {e})]

(* Part e of a chain starts at the bend instead; what leads to the bend is  *)
(* new, and always marked vertical.                                         *)
BentDummy(s, e, bend, n) ==
    LET g == s.graph
        edge == g.edges[e]
        new == Len(g.edges) + 1
    IN [s EXCEPT
          !.graph.edges = Append([@ EXCEPT ![e].from = bend,
                                           ![e].boundary = edge.boundary /\ edge.reversed,
                                           ![edge.original].first = IF @ = e THEN new ELSE @],
              [DummyEdge(edge.from, bend, edge.flow, edge.boundary /\ ~edge.reversed,
                         edge.original) EXCEPT !.reversed = edge.reversed]),
          !.graph.nodes[edge.from].outgoing = Substituted(@, e, new),
          !.graph.nodes[bend].incoming = <<new>>,
          !.graph.nodes[bend].outgoing = <<e>>,
          !.vertical = @ \union {new} \union (IF edge.from = n THEN {} ELSE {e})]

Bent(s, e, bend, n) ==
    IF s.graph.edges[e].type = "Regular" THEN BentRegular(s, e, bend, n) ELSE BentDummy(s, e, bend, n)

WithBendNode(s, n, lane) ==
    [s EXCEPT !.graph = AddNode(@, "Bend", lane, @.nodes[n].layer),
              !.origin = @ @@ (Len(s.graph.nodes) + 1 :> n),
              !.ports = Append(@, [incoming |-> <<<<"centre", 1>>>>,
                                   outgoing |-> <<<<"centre", 1>>>>])]

Linked(s, bend, spot) ==
    IF ~CanInsert(s.graph, bend, spot) THEN Fail(s, "panic")
    ELSE [s EXCEPT !.graph = Inserted(@, bend, spot)]

(* Edge e of node n gets a bend in a lane. *)
AddBend(s, e, n, lane, where) ==
    IF s.end # "ok" THEN s
    ELSE Linked(Bent(WithBendNode(s, n, lane), e, Len(s.graph.nodes) + 1, n),
                Len(s.graph.nodes) + 1,
                BendSpot(s.graph, lane, s.graph.nodes[n].layer, where))

-----------------------------------------------------------------------------
(* handle_nongateway_node() *)

(* The ports that need a bend, those next to the middle first: what leads   *)
(* left is taken from right to left.                                        *)
BendOrder(ps, layer) ==
    LET right(p) == IF p.kind = "messageAbove" /\ ~p.incoming THEN p.layer > layer
                                                              ELSE p.layer >= layer
        split == Min({i \in DOMAIN ps : right(ps[i])} \union {Len(ps) + 1})
        order == Reverse(SubSeq(ps, 1, split - 1)) \o SubSeq(ps, split, Len(ps))
    IN SelectSeq(order, LAMBDA p : p.bend)

(* Mutant: the lane that is further away. *)
BendLaneBeyond(other, barrier, side) ==
    IF side = "top" THEN Higher(other, barrier) ELSE Lower(other, barrier)

(* A bend is in the lane of the other end, or in that of the barrier if     *)
(* this is nearer.                                                          *)
BendLane(other, barrier, side) ==
    IF side = "top" THEN Lower(other, barrier) ELSE Higher(other, barrier)

BendAtSide(s, n, p, side, barrier) ==
    LET lane == IF barrier.end = "none" THEN p.place
                ELSE BendLane(p.place, Place(s.graph.nodes[barrier.node]), side)
        own == lane = Place(s.graph.nodes[n])
        spot == CASE side = "top" /\ own -> "above"
                  [] side = "top" /\ ~own -> "bottom"
                  [] side = "bottom" /\ own -> "below"
                  [] side = "bottom" /\ ~own -> "top"
    IN AddBend(s, p.edge, n, lane, [at |-> spot, node |-> n])

(* The port of each edge of a list, where the sides say which goes where. *)
PortsOf(list, sides) ==
    LET places == UNION {{<<side, i>> : i \in DOMAIN sides[side]} : side \in DOMAIN sides}
    IN [k \in DOMAIN list |->
           CHOOSE place \in places : sides[place[1]][place[2]].edge = list[k]]

SidesOf(g, n, ins, outs) ==
    [top |-> TopPorts(g, n, ins, outs), bottom |-> BottomPorts(g, n, ins, outs),
     left |-> ins.side, right |-> outs.side]

Assigned(s, n, sides, top, bottom) ==
    LET node == s.graph.nodes[n]
        own == [top |-> sides.top.list, bottom |-> sides.bottom.list]
        with == [s EXCEPT !.ports[n] =
                    [incoming |-> PortsOf(node.incoming, own @@ [left |-> sides.left]),
                     outgoing |-> PortsOf(node.outgoing, own @@ [right |-> sides.right])]]
        atTop(t, p) == BendAtSide(t, n, p, "top", top)
        atBottom(t, p) == BendAtSide(t, n, p, "bottom", bottom)
    IN IF ~sides.top.ok \/ ~sides.bottom.ok THEN Fail(s, "panic")
       ELSE FoldLeft(atBottom,
                     FoldLeft(atTop, with, BendOrder(own.top, node.layer)),
                     BendOrder(own.bottom, node.layer))

BetweenBarriers(s, n, top, bottom) ==
    LET node == s.graph.nodes[n]
        partition(es, incoming) ==
            Partition([i \in DOMAIN es |-> PortInfo(s, n, es[i], incoming, top, bottom)])
        dangling == ToSet(node.incoming \o node.outgoing) \ DOMAIN s.graph.edges
    IN CASE "loop" \in {top.end, bottom.end} -> Fail(s, "hang")
         [] "loop" \notin {top.end, bottom.end}
            /\ ("panic" \in {top.end, bottom.end} \/ dangling # {}) -> Fail(s, "panic")
         [] OTHER -> Assigned(s, n, SidesOf(s.graph, n, partition(node.incoming, TRUE),
                                            partition(node.outgoing, FALSE)), top, bottom)

NonGateway(s, n) ==
    BetweenBarriers(s, n, Barrier(s.graph, n, "above"), Barrier(s.graph, n, "below"))

-----------------------------------------------------------------------------
(* handle_gateway_node_one_side(): the bends of a gateway are put in one    *)
(* after the other from the top; each is moved down as long as fewer edges  *)
(* cross then.                                                              *)

Other(g, e, outgoing) == IF outgoing THEN g.edges[e].to ELSE g.edges[e].from
EdgesOf(g, n, outgoing) == IF outgoing THEN g.nodes[n].outgoing ELSE g.nodes[n].incoming

AtTheTop == [at |-> "top", node |-> 0]
Below(n) == [at |-> "below", node |-> n]

(* Crossing one more node c: `above` is what is above `other`, the other    *)
(* end of the edge that is bent.                                            *)
Crossed(g, n, best, c, above, other, outgoing) ==
    LET lane == Place(g.nodes[c])
        edges == EdgesOf(g, c, outgoing)
        end == Other(g, edges[1], outgoing)
        moved == IF IsAbove(best.lane, lane)
                 THEN [best EXCEPT !.lane = lane, !.where = AtTheTop, !.least = best.count]
                 ELSE best
        count == CASE end \in above -> best.count - 1
                   [] end \notin above /\ end = other -> best.count
                   [] end \notin above /\ end # other -> best.count + 1
    IN CASE best.end # "ok" -> best
         [] best.end = "ok" /\ c = n -> moved
         [] best.end = "ok" /\ c # n /\ edges = <<>> -> [moved EXCEPT !.end = "panic"]
         [] best.end = "ok" /\ c # n /\ edges # <<>> ->
                IF count >= moved.least THEN [moved EXCEPT !.count = count]
                ELSE [moved EXCEPT !.count = count, !.least = count,
                                   !.lane = lane, !.where = Below(c)]

(* A place above `lane`, the last one, is not taken; the walk may have failed. *)
Chosen(best, lane, end) ==
    CASE best.end # "ok" -> best
      [] best.end = "ok" /\ end # "ok" -> [best EXCEPT !.end = end]
      [] best.end = "ok" /\ end = "ok" ->
            IF IsAbove(best.lane, lane) THEN [best EXCEPT !.lane = lane, !.where = AtTheTop]
            ELSE best

(* The walk for one bend: down from the bend before, or from the top lane,  *)
(* to the node that bars the way or to the lane of the other end.           *)
BestOn(g, n, e, start, above, last, outgoing, walk) ==
    LET other == Other(g, e, outgoing)
        lane == Place(g.nodes[other])
        stops == {i \in DOMAIN walk.path : \/ walk.path[i] = last
                                           \/ IsAbove(lane, Place(g.nodes[walk.path[i]]))}
        path == IF stops = {} THEN walk.path ELSE SubSeq(walk.path, 1, Min(stops) - 1)
        over(best, c) == Crossed(g, n, best, c, above, other, outgoing)
        end == CASE stops = {} /\ walk.end = "panic" -> "panic"
                 [] stops = {} /\ walk.end = "loop" -> "hang"
                 [] OTHER -> "ok"
        beyond == stops # {} /\ IsAbove(lane, Place(g.nodes[walk.path[Min(stops)]]))
        lastLane == IF ~beyond /\ last # 0 /\ ~IsAbove(lane, Place(g.nodes[last]))
                    THEN Place(g.nodes[last]) ELSE lane
        first == [end |-> "ok", count |-> 0, least |-> 0, lane |-> start.place,
                  where |-> IF start.node = 0 THEN AtTheTop ELSE Below(start.node)]
    IN Chosen(FoldLeft(over, first, path), lastLane, end)

BestPlace(g, n, e, start, above, last, bottomLane, outgoing) ==
    BestOn(g, n, e, start, above, last, outgoing,
           Walk(g, start, Lower(Place(g.nodes[n]), bottomLane), "below"))

(* A gateway that has bends in its own lane leaves its column. *)
WithoutNode(nodes, n) ==
    LET joined == [nodes EXCEPT ![n].above = 0, ![n].below = 0]
        upper == IF nodes[n].above = 0 THEN joined
                 ELSE [joined EXCEPT ![nodes[n].above].below = nodes[n].below]
    IN IF nodes[n].below = 0 THEN upper
       ELSE [upper EXCEPT ![nodes[n].below].above = nodes[n].above]

LeftColumn(t, n) ==
    IF t.s.end # "ok" \/ ~t.inLane THEN t.s
    ELSE [t.s EXCEPT !.graph.nodes = WithoutNode(@, n)]

BentAtBest(t, n, e, best) ==
    IF best.end # "ok" THEN [t EXCEPT !.s = Fail(@, best.end)]
    ELSE [s |-> AddBend(t.s, e, n, best.lane, best.where),
          top |-> Len(t.s.graph.nodes) + 1,
          inLane |-> t.inLane \/ best.lane = Place(t.s.graph.nodes[n])]

(* The bends of all edges on one side, between what is met on the walks up  *)
(* and down from the gateway.                                               *)
BentBetween(s, n, outgoing, up, down) ==
    LET g == s.graph
        edges == EdgesOf(g, n, outgoing)
        end(i) == Other(g, edges[i], outgoing)
        lane(i) == Place(g.nodes[end(i)])
        asks(walk) == FirstReal(g, walk) = 0 /\ walk.end = "panic"
        higher(i) == ToSet(Walk(g, StartAtNode(g, end(i)), <<1, 1>>, "above").path)
        \* The walk was cut off at the end before, so nothing is counted twice.
        above(i) == higher(1) \union UNION {higher(j) \union {end(j - 1)} : j \in 2..i}
        bendNext(t, i) ==
            IF t.s.end # "ok" THEN t
            ELSE BentAtBest(t, n, edges[i],
                     BestPlace(t.s.graph, n, edges[i],
                               IF t.top = 0 THEN StartAtLane(lane(1), g.nodes[n].layer)
                                            ELSE StartAtNode(t.s.graph, t.top),
                               above(i), FirstReal(g, down), lane(Len(edges)), outgoing))
    IN IF asks(up) \/ asks(down) THEN Fail(s, "panic")
       ELSE LeftColumn(FoldLeft(bendNext, [s |-> s, top |-> FirstReal(g, up), inLane |-> FALSE],
                                [i \in DOMAIN edges |-> i]), n)

GatewaySide(s, n, outgoing) ==
    LET g == s.graph
        edges == EdgesOf(g, n, outgoing)
        walk(e, way) == Walk(g, StartAtNode(g, n), Place(g.nodes[Other(g, e, outgoing)]), way)
    IN BentBetween(s, n, outgoing, walk(edges[1], "above"), walk(edges[Len(edges)], "below"))

(* A side with one edge needs no bend. *)
GatewayPorts(s, n, outgoing) ==
    LET edges == EdgesOf(s.graph, n, outgoing)
        own == CASE Len(edges) = 1 /\ outgoing -> <<<<"right", 1>>>>
                 [] Len(edges) = 1 /\ ~outgoing -> <<<<"left", 1>>>>
                 [] OTHER -> [i \in DOMAIN edges |-> <<"centre", 1>>]
        with == IF outgoing THEN [s EXCEPT !.ports[n].outgoing = own]
                            ELSE [s EXCEPT !.ports[n].incoming = own]
    IN CASE s.end # "ok" -> s
         [] s.end = "ok" /\ Len(edges) <= 1 -> with
         [] s.end = "ok" /\ Len(edges) > 1 -> GatewaySide(with, n, outgoing)

(* handle_gateway_node(): afterwards the gateway points to what was above   *)
(* and below it before, or to the node that this is a bend of.              *)
PointingBack(done, s, n) ==
    LET spaced(m) ==
            IF m \in DOMAIN s.origin /\ Place(s.graph.nodes[s.origin[m]]) = Place(s.graph.nodes[n])
            THEN s.origin[m] ELSE m
    IN IF done.end # "ok" THEN done
       ELSE [done EXCEPT !.graph.nodes[n].above = spaced(s.graph.nodes[n].above),
                         !.graph.nodes[n].below = spaced(s.graph.nodes[n].below)]

Gateway(s, n) ==
    LET side(t, outgoing) == GatewayPorts(t, n, outgoing)
    IN PointingBack(FoldLeft(side, s, <<TRUE, FALSE>>), s, n)

-----------------------------------------------------------------------------

Handled(s) ==
    /\ graph' = s.graph /\ vertical' = s.vertical /\ origin' = s.origin /\ ports' = s.ports
    /\ phase' = IF s.end = "ok" THEN phase ELSE s.end
    /\ at' = at + 1 /\ UNCHANGED <<parsed, before, saved>>

(* One step of a loop over the nodes; what is added meanwhile is not looked *)
(* at by the first loop, and is no gateway for the second.                  *)
HandleNode(loop, next) ==
    LET isGateway == graph.nodes[at].kind = "Gateway"
    IN \/ /\ phase = loop /\ at > Len(before.nodes)
          /\ phase' = next /\ at' = 1
          /\ UNCHANGED <<parsed, graph, before, saved, vertical, origin, ports>>
       \/ /\ phase = loop /\ at <= Len(before.nodes) /\ isGateway = (loop = "gateways")
          /\ Handled(IF isGateway THEN Gateway(State, at) ELSE NonGateway(State, at))
       \/ /\ phase = loop /\ at <= Len(before.nodes) /\ isGateway # (loop = "gateways")
          /\ at' = at + 1
          /\ UNCHANGED <<parsed, graph, phase, before, saved, vertical, origin, ports>>

HandleNonGateways == HandleNode("ports", "gateways")
HandleGateways == HandleNode("gateways", "coordinates")

Work == HandleNonGateways \/ HandleGateways

(* A walk that never ends keeps the process busy; nothing changes any more. *)
Terminated == phase \in {"coordinates", "panic", "hang"} /\ UNCHANGED vars

Next == LayOut \/ Work \/ Terminated

(* The phases run one after the other. *)
Spec == Init /\ [][Next]_vars /\ WF_vars(Next)

-----------------------------------------------------------------------------
(* Properties *)

Done == phase = "coordinates"

Bends == DOMAIN origin

(* Types: every node has a list of ports, every bend a node of its layer.   *)
Sides == {"top", "bottom", "left", "right", "centre"}

TypeOK ==
    /\ phase \in {"layers", "data", "dummies", "sort", "crossings", "order", "lone", "undo",
                  "edges", "ports", "gateways", "coordinates", "panic", "hang"}
    /\ vertical \subseteq DOMAIN graph.edges
    /\ ports \in Seq([incoming : Seq(Sides \X Nat), outgoing : Seq(Sides \X Nat)])
    /\ \A n \in DOMAIN origin :
          /\ graph.nodes[n].kind = "Bend"
          /\ graph.nodes[origin[n]].layer = graph.nodes[n].layer

(* The parts of a replaced edge, followed from `first` over the dummies and *)
(* bends.                                                                   *)
Parts(g, e) ==
    LET next(d) == IF d = 0 \/ g.edges[d].to = g.edges[e].to THEN 0
                   ELSE g.nodes[g.edges[d].to].outgoing[1]
        part[k \in 1..Len(g.edges)] == IF k = 1 THEN g.edges[e].first ELSE next(part[k - 1])
    IN SelectSeq([k \in 1..Len(g.edges) |-> part[k]], LAMBDA d : d # 0)

(* Ports change no flow: whatever bends were put into it, a replaced edge   *)
(* is still a chain from its start to its end that is found from `first`,   *)
(* goes through nodes of its own only, and has its boundary event at the    *)
(* end where it was.                                                        *)
FlowsSurviveBends ==
    phase \in {"ports", "gateways", "coordinates"} =>
        \A e \in DOMAIN graph.edges : graph.edges[e].type = "Replaced" =>
            LET edge == graph.edges[e]
                parts == Parts(graph, e)
                part(k) == graph.edges[parts[k]]
                hops == {d \in DOMAIN graph.edges : graph.edges[d].original = e}
            IN /\ <<edge.from, edge.to>> = <<parsed.edges[e].from, parsed.edges[e].to>>
                  \/ <<edge.to, edge.from>> = <<parsed.edges[e].from, parsed.edges[e].to>>
               /\ ToSet(parts) = hops /\ Len(parts) = Cardinality(hops)
               /\ part(1).from = edge.from /\ part(Len(parts)).to = edge.to
               /\ \A k \in 2..Len(parts) :
                     /\ part(k).from = part(k - 1).to
                     /\ graph.nodes[part(k).from].kind \in {"Dummy", "Bend"}
                     /\ graph.nodes[part(k).from].incoming = <<parts[k - 1]>>
                     /\ graph.nodes[part(k).from].outgoing = <<parts[k]>>
               /\ \A k \in DOMAIN parts :
                     part(k).boundary <=>
                         edge.boundary /\ k = IF edge.reversed THEN Len(parts) ELSE 1

(* Around a task, an event or a data node every edge has a port of its own, *)
(* clockwise in the order of the edges, which is their order in the layer   *)
(* next to it: no two edges of one list cross.                              *)
Before(n, p, q, outgoing) ==
    CASE p[1] # q[1] -> TRUE
      [] p[1] = q[1] /\ p[1] \in {"left", "right"} -> p[2] < q[2]
      [] p[1] = q[1] /\ p[1] = "top" -> IF outgoing THEN p[2] < q[2] ELSE p[2] > q[2]
      [] p[1] = q[1] /\ p[1] = "bottom" -> IF outgoing THEN p[2] > q[2] ELSE p[2] < q[2]

PortsFollowEdges ==
    Done => \A n \in DOMAIN graph.nodes : graph.nodes[n].kind \notin {"Gateway", "Bend"} =>
        LET in == ports[n].incoming
            out == ports[n].outgoing
        IN /\ Len(in) = Len(graph.nodes[n].incoming)
           /\ Len(out) = Len(graph.nodes[n].outgoing)
           /\ IsInjective(in \o out)
           /\ \A i, j \in DOMAIN in : i < j => Before(n, in[i], in[j], FALSE)
           /\ \A i, j \in DOMAIN out : i < j => Before(n, out[i], out[j], TRUE)

ColumnOf(n) == <<Place(graph.nodes[n]), graph.nodes[n].layer>>

(* A gateway with bends in its own lane is no longer in its column.         *)
HasLeft(n) ==
    /\ graph.nodes[n].kind = "Gateway"
    /\ \E b \in Bends : origin[b] = n /\ ColumnOf(b) = ColumnOf(n)

(* Both lists of every node and the edges stay in step, and the rest of a   *)
(* column is one list from top to bottom, bends included.                   *)
ListsStayWhole ==
    /\ phase \in {"gateways", "coordinates"} => Mirrored(graph)
    /\ Done => \A n \in DOMAIN graph.nodes :
          LET column == {m \in DOMAIN graph.nodes : ColumnOf(m) = ColumnOf(n) /\ ~HasLeft(m)}
              size == Cardinality(column)
              nth[k \in 1..size] == IF k = 1 THEN {m \in column : graph.nodes[m].above = 0}
                                    ELSE {graph.nodes[m].below : m \in nth[k - 1] \ {0}}
          IN /\ \A k \in 1..size : Cardinality(nth[k]) = 1
             /\ UNION {nth[k] : k \in 1..size} = column

(* The other end of the edge that was bent, as far as the next node.        *)
Beyond(b) ==
    LET in == graph.edges[graph.nodes[b].incoming[1]].from
        out == graph.edges[graph.nodes[b].outgoing[1]].to
    IN IF in = origin[b] THEN out ELSE in

(* A bend and its node are joined by a vertical edge, and no bend is above  *)
(* both ends of its edge or below both.  Messages bend at their sender      *)
(* only: at a receiver the flows that must be vertical are sorted further   *)
(* from its side than the messages that must turn, which stay there.        *)
BendsAreOnTheWay ==
    Done => \A b \in Bends :
        LET ends == {Place(graph.nodes[origin[b]]), Place(graph.nodes[Beyond(b)])}
            place == Place(graph.nodes[b])
        IN /\ \E e \in {graph.nodes[b].incoming[1], graph.nodes[b].outgoing[1]} \intersect vertical :
                 {graph.edges[e].from, graph.edges[e].to} = {b, origin[b]}
           /\ \E p \in ends : ~IsAbove(place, p)
           /\ \E p \in ends : ~IsAbove(p, place)
           /\ graph.edges[graph.nodes[b].outgoing[1]].flow = "message" =>
                 graph.edges[graph.nodes[b].incoming[1]].from = origin[b]

(* A node that reads and writes nodes of one layer, at least one of them    *)
(* not by a message; a gateway whose flows all lead to lanes above its own, *)
(* or all to lanes below it.                                                *)
TwoWays(g) ==
    \E d, e \in DOMAIN g.edges :
        /\ g.edges[d].to = g.edges[e].from
        /\ From(g, d).layer = To(g, e).layer
        /\ "data" \in {g.edges[d].flow, g.edges[e].flow}
        /\ "sequence" \notin {g.edges[d].flow, g.edges[e].flow}

LeavesLane(g, n) ==
    \E outgoing \in BOOLEAN :
        LET edges == ToSet(EdgesOf(g, n, outgoing))
            lane(e) == g.nodes[Other(g, e, outgoing)].lane
        IN /\ Cardinality(edges) > 1
           /\ \/ \A e \in edges : lane(e) < g.nodes[n].lane
              \/ \A e \in edges : lane(e) > g.nodes[n].lane

(* The assertions, indices and comparisons of the ports fail on such nodes  *)
(* only.  And the loops of the handlers end: walks over columns that        *)
(* gateways have left, or that start in a lane without nodes, do not go in  *)
(* circles.                                                                 *)
FailuresAreKnown ==
    /\ phase # "hang"
    /\ phase = "panic" =>
        \/ Crossing!Cyclic(parsed) \/ Crossing!SharedRemote(before) \/ Crossing!Entangled
        \/ TwoWays(before)
        \/ \E n \in DOMAIN before.nodes :
              before.nodes[n].kind = "Gateway" /\ LeavesLane(before, n)

(* The edges of a gateway with several flows go out at its top or bottom:   *)
(* the walks of handle_gateway_node_one_side() find no lane out of order.   *)
GatewaysAreHandled == [][phase = "gateways" => phase' # "panic"]_vars
=============================================================================
