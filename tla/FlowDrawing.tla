---------------------------- MODULE FlowDrawing ----------------------------
(***************************************************************************)
(* The phases of layout_graph() after the coordinates, which give every    *)
(* edge its line, and what generate_bpmn() makes of the result.  Vertical  *)
(* parts come first, then lines that need no turn, then the vertical       *)
(* segments of the rest, layer by layer and at last between the pools;     *)
(* replace_dummy_nodes() joins the parts.  Coordinates are left out: which *)
(* ends are level, or which way is free, is open.                          *)
(***************************************************************************)
EXTENDS BpmnGraph

CONSTANT Files

VARIABLES
    parsed, graph, phase, at, before, saved, vertical, origin, ports,
    points,     \* the bend points of the edges, none as long as they are not determined
    segments,   \* the vertical segments that have no place yet, with their layer or pool
    store,      \* MessageFlowBendPointStore: the message flows that are not finished
    exported    \* the flows in the output

Ports == INSTANCE PortAssignment

layout == <<parsed, before, saved, vertical, origin, ports>>
vars == <<parsed, graph, phase, at, before, saved, vertical, origin, ports,
          points, segments, store, exported>>

Init ==
    /\ Ports!Init
    /\ points = <<>> /\ segments = {} /\ store = <<>> /\ exported = {}

LayOut ==
    /\ Ports!LayOut \/ Ports!Work
    /\ points' = [e \in DOMAIN graph'.edges |-> <<>>]
    /\ UNCHANGED <<segments, store, exported>>

Panic ==
    /\ phase' = "panic"
    /\ UNCHANGED <<graph, at, layout, points, segments, store, exported>>

(* A bend point is the port at a node, or an end of a vertical segment: one  *)
(* that leaves the start (1), one that reaches the end (3), or the only one *)
(* or the one between the pools (2).                                        *)
At(n) == <<n>>
Turns(e, part) == <<<<e, part, 1>>, <<e, part, 2>>>>

(* The line of an edge, from where it started in the file. *)
Drawn(edge, line) == IF edge.reversed THEN Reverse(line) ELSE line

Straight(edge) == Drawn(edge, <<At(edge.from), At(edge.to)>>)

IsBend(g, n) == g.nodes[n].kind = "Bend"
IsDummy(g, n) == g.nodes[n].kind \in {"Dummy", "Bend"}

-----------------------------------------------------------------------------
(* postprocess_vertical_edges(): a vertical part turns at its dummy, unless  *)
(* the dummy is level with the node, as it may be with a gateway, which is  *)
(* not in the column of its bends.                                          *)

VerticalEdges == {e \in vertical : graph.edges[e].type = "Dummy"}

MayCollapse(e) ==
    /\ Place(From(graph, e)) = Place(To(graph, e))
    /\ "Gateway" \in {From(graph, e).kind, To(graph, e).kind}

BendPoint(e) ==
    IF IsDummy(graph, graph.edges[e].from) THEN At(graph.edges[e].from) ELSE At(graph.edges[e].to)

PostprocessVerticalEdges ==
    /\ phase = "coordinates"
    /\ \E collapsed \in SUBSET {e \in VerticalEdges : MayCollapse(e)} :
          IF \E e \in VerticalEdges \ collapsed :
                IsDummy(graph, graph.edges[e].from) = IsDummy(graph, graph.edges[e].to)
          THEN Panic
          ELSE /\ points' = [e \in DOMAIN points |-> IF e \in VerticalEdges \ collapsed
                                                     THEN <<BendPoint(e)>> ELSE points[e]]
               /\ phase' = "direct"
               /\ UNCHANGED <<graph, at, layout, segments, store, exported>>

-----------------------------------------------------------------------------
(* find_straight_edges() *)

(* data_edge_routing(): a data flow that nothing is in the way of, replaced *)
(* by dummies or not.  What is replaced stays in the lists of its ends.     *)
DrawDataFlows ==
    /\ phase = "direct"
    /\ \E free \in SUBSET {e \in DOMAIN graph.edges :
                              graph.edges[e].flow = "data" /\ graph.edges[e].type # "Dummy"} :
          /\ graph' = [graph EXCEPT !.edges = [e \in DOMAIN @ |->
                          IF e \in free THEN [@[e] EXCEPT !.type = "Regular"] ELSE @[e]]]
          /\ points' = [e \in DOMAIN points |->
                          IF e \in free THEN Straight(graph.edges[e]) ELSE points[e]]
    /\ phase' = "straight" /\ UNCHANGED <<at, layout, segments, store, exported>>

(* sequence_edge_routing() *)
RegularFlows ==
    {e \in DOMAIN graph.edges : graph.edges[e].flow = "sequence" /\ graph.edges[e].type = "Regular"}

DrawSequenceFlows ==
    /\ phase = "straight"
    /\ IF RegularFlows \intersect vertical # {} THEN Panic
       ELSE \E level \in SUBSET RegularFlows :
               /\ points' = [e \in DOMAIN points |->
                               IF e \in level THEN Straight(graph.edges[e]) ELSE points[e]]
               /\ phase' = "collect"
               /\ UNCHANGED <<graph, at, layout, segments, store, exported>>

-----------------------------------------------------------------------------
(* get_layered_edges() *)

Listed(g, e) ==
    e \in ToSet(g.nodes[g.edges[e].from].outgoing) /\ e \in ToSet(g.nodes[g.edges[e].to].incoming)

(* Mutant: only parts are looked at. *)
UnroutedParts == {e \in DOMAIN graph.edges \ vertical : graph.edges[e].type = "Dummy"}

(* The edges that still need a line of their own. *)
Unrouted ==
    {e \in DOMAIN graph.edges \ vertical :
        /\ graph.edges[e].type # "Replaced"
        /\ graph.edges[e].type = "Regular" => points[e] = <<>>}

(* Does the edge leave its start, or reach its end, at a side?              *)
LeavesSideways(e) ==
    LET n == graph.edges[e].from
        i == CHOOSE i \in DOMAIN graph.nodes[n].outgoing : graph.nodes[n].outgoing[i] = e
    IN IsBend(graph, n) \/ ports[n].outgoing[i][1] \in {"left", "right"}

EntersSideways(e) ==
    LET n == graph.edges[e].to
        i == CHOOSE i \in DOMAIN graph.nodes[n].incoming : graph.nodes[n].incoming[i] = e
    IN IsBend(graph, n) \/ ports[n].incoming[i][1] \in {"left", "right"}

(* The state of a message flow: 0 for `after` if it goes to the next layer  *)
(* directly, otherwise the pool after which it turns; then the bend points  *)
(* next to its ends, which are there from the beginning where it leaves or  *)
(* enters vertically.                                                       *)
MessageFlows == {e \in Unrouted : graph.edges[e].flow = "message" /\ ~SamePool(graph, e)}

NextLayer(e) ==
    LeavesSideways(e) /\ EntersSideways(e) /\ From(graph, e).layer + 1 = To(graph, e).layer

BendState(e) ==
    [after |-> IF NextLayer(e) THEN 0 ELSE Ports!InterpoolY(From(graph, e).pool, To(graph, e).pool),
     bends |-> <<LeavesSideways(e), EntersSideways(e)>>, found |-> <<<<>>, <<>>>>]

MessageSegments(e) ==
    LET segment(layer, part) == [place |-> layer, edge |-> e, part |-> part]
    IN CASE NextLayer(e) -> {segment(To(graph, e).layer, 2)}
         [] OTHER -> (IF LeavesSideways(e) THEN {segment(From(graph, e).layer + 1, 1)} ELSE {})
                     \union (IF EntersSideways(e) THEN {segment(To(graph, e).layer, 3)} ELSE {})

(* Message flows from top to bottom or back that need no turn at all. *)
MayBeVertical(e) ==
    ~LeavesSideways(e) /\ ~EntersSideways(e) /\ graph.edges[e].type = "Regular"

CollectSegments ==
    LET turned == {e \in Unrouted : graph.edges[e].flow # "message"}
        \* A sequence flow that is level has been drawn already.
        undecided == turned \ RegularFlows
    IN /\ phase = "collect"
       /\ \/ /\ \E e \in Unrouted : ~Listed(graph, e)
             /\ Panic
          \/ /\ \A e \in Unrouted : Listed(graph, e)
             /\ \E level \in SUBSET undecided, aligned \in SUBSET {e \in MessageFlows : MayBeVertical(e)} :
                   /\ segments' = {[place |-> From(graph, e).layer + 1, edge |-> e, part |-> 2] :
                                      e \in turned \ level}
                                  \union UNION {MessageSegments(e) : e \in MessageFlows \ aligned}
                   /\ store' = [e \in MessageFlows \ aligned |-> BendState(e)]
                   /\ points' = [e \in DOMAIN points |->
                                   IF e \in aligned THEN Straight(graph.edges[e]) ELSE points[e]]
             /\ phase' = "layerwise" /\ at' = 0
             /\ UNCHANGED <<graph, layout, exported>>

-----------------------------------------------------------------------------
(* determine_segment_layers(): the segments of a layer get their places     *)

(* What a segment changes: it may fail by an assertion. *)
State == [graph |-> graph, points |-> points, store |-> store, end |-> "ok"]

Without(s, e) == [d \in DOMAIN s \ {e} |-> s[d]]

(* The horizontal line between pools is a segment on its side, with its     *)
(* ends exchanged if it leads up.                                           *)
Transposed(turns, isDown) == IF isDown THEN turns ELSE Reverse(turns)

(* Mutant: a message flow is finished with its first segment. *)
CompleteAtOnce(state) == TRUE

Complete(state) == \A i \in 1..2 : state.bends[i] => state.found[i] # <<>>

(* Mutant: the bend point at the end is found first when the flow goes right. *)
NextBendBackwards(state, isRight) ==
    CASE state.bends # <<TRUE, TRUE>> -> IF state.bends[1] THEN 1 ELSE 2
      [] state.found[1] # <<>> -> 2
      [] state.found[2] # <<>> -> 1
      [] OTHER -> IF isRight THEN 2 ELSE 1

(* The bend point that is found next. *)
NextBend(state, isRight) ==
    CASE state.bends # <<TRUE, TRUE>> -> IF state.bends[1] THEN 1 ELSE 2
      [] state.found[1] # <<>> -> 2
      [] state.found[2] # <<>> -> 1
      [] OTHER -> IF isRight THEN 1 ELSE 2

(* The real nodes at the start and the end, if the flow has bends there.    *)
(* (port_assignment() puts them at the start only: BendsAreOnTheWay.)       *)
RealStart(g, n) ==
    IF IsBend(g, n) THEN <<At(g.edges[g.nodes[n].incoming[1]].from)>> ELSE <<>>

RealEnd(g, n) ==
    IF IsBend(g, n) THEN <<At(g.edges[g.nodes[n].outgoing[1]].to)>> ELSE <<>>

(* What finish_layer() asserts: a flow to the next layer leads right, a bend *)
(* joins two edges, and what a part belongs to has been replaced.           *)
MayFinish(g, e, state) ==
    LET edge == g.edges[e]
    IN /\ state.after = 0 => From(g, e).layer < To(g, e).layer
       /\ IsBend(g, edge.from) => Len(g.nodes[edge.from].incoming) = 1
       /\ IsBend(g, edge.to) => Len(g.nodes[edge.to].outgoing) = 1
       /\ edge.type = "Dummy" => g.edges[edge.original].type = "Replaced"

(* The whole line of a message, from real node to real node. *)
MessageLine(s, e, state, middle) ==
    LET edge == s.graph.edges[e]
    IN RealStart(s.graph, edge.from) \o <<At(edge.from)>> \o state.found[1] \o middle
       \o state.found[2] \o <<At(edge.to)>> \o RealEnd(s.graph, edge.to)

(* finish_layer() *)
FinishMessage(s, e, turns) ==
    LET edge == s.graph.edges[e]
        state == s.store[e]
        isRight == From(s.graph, e).layer < To(s.graph, e).layer
        isDown == From(s.graph, e).pool < To(s.graph, e).pool
        which == NextBend(state, isRight)
        found == [state EXCEPT !.found[which] = <<turns[which]>>]
        middle == IF state.after = 0 THEN turns ELSE Transposed(turns, isDown)
        original == IF edge.type = "Dummy" THEN edge.original ELSE e
    IN IF state.after # 0 /\ ~Complete(state) THEN [s EXCEPT !.store[e] = found]
       ELSE IF ~MayFinish(s.graph, e, state) THEN [s EXCEPT !.end = "panic"]
       ELSE [s EXCEPT !.store = Without(@, e),
                      !.points[original] = MessageLine(s, e, state, middle),
                      !.graph.edges[original].type = "Regular"]

(* add_bend_points_one_segment() *)
FinishSegment(s, segment) ==
    LET edge == s.graph.edges[segment.edge]
        turns == Turns(segment.edge, segment.part)
        given == IF segment.part = 2 /\ edge.flow = "message" /\ s.store[segment.edge].after # 0
                 THEN Transposed(turns, From(s.graph, segment.edge).pool < To(s.graph, segment.edge).pool)
                 ELSE turns
    IN CASE s.end # "ok" -> s
         [] s.end = "ok" /\ edge.flow = "message" -> FinishMessage(s, segment.edge, given)
         [] s.end = "ok" /\ edge.flow # "message" /\ edge.type = "Dummy" ->
                [s EXCEPT !.points[segment.edge] = turns]
         [] s.end = "ok" /\ edge.flow # "message" /\ edge.type # "Dummy" ->
                [s EXCEPT !.points[segment.edge] =
                             Drawn(edge, <<At(edge.from)>> \o turns \o <<At(edge.to)>>)]

Finished(there) == FoldLeft(FinishSegment, State, SetToSeq(there))

Took(s) == graph' = s.graph /\ points' = s.points /\ store' = s.store

RouteLayer ==
    LET there == {segment \in segments : segment.place = at}
        done == Finished(there)
    IN /\ phase = "layerwise" /\ at <= graph.numLayers
       /\ Took(done) /\ segments' = segments \ there /\ at' = at + 1
       /\ phase' = IF done.end = "ok" THEN phase ELSE done.end
       /\ UNCHANGED <<layout, exported>>

(* get_layered_mfs(): the message flows that turn between two pools; none   *)
(* may lack a bend point.                                                   *)
CollectMessages ==
    /\ phase = "layerwise" /\ at > graph.numLayers
    /\ IF \E e \in DOMAIN store : ~Complete(store[e]) THEN Panic
       ELSE /\ segments' = {[place |-> store[e].after, edge |-> e, part |-> 2] :
                               e \in {d \in DOMAIN store : store[d].after # 0}}
            /\ phase' = "between" /\ at' = 1
            /\ UNCHANGED <<graph, layout, points, store, exported>>

RouteBetweenPools ==
    LET there == {segment \in segments : segment.place = at}
        done == Finished(there)
        pools == Cardinality({place[1] : place \in DOMAIN graph.lanes})
    IN /\ phase = "between"
       /\ \/ /\ at > pools
             /\ phase' = "replace" /\ at' = 1
             /\ UNCHANGED <<graph, layout, points, segments, store, exported>>
          \/ /\ at <= pools
             /\ Took(done) /\ segments' = segments \ there /\ at' = at + 1
             /\ phase' = IF done.end = "ok" THEN phase ELSE done.end
             /\ UNCHANGED <<layout, exported>>

-----------------------------------------------------------------------------
(* replace_dummy_nodes() *)

(* The part of e after its part d: the only other edge where d ends.        *)
NextPart(g, e, d) ==
    LET to == g.edges[d].to
        others == SelectSeq(g.nodes[to].incoming \o g.nodes[to].outgoing, LAMBDA f : f # d)
    IN IF Len(others) = 1 /\ g.edges[others[1]].original = e THEN others[1] ELSE 0

PartsOf(g, e) ==
    LET part[k \in 1..Len(g.edges)] ==
            IF k = 1 THEN g.edges[e].first
            ELSE IF part[k - 1] = 0 THEN 0 ELSE NextPart(g, e, part[k - 1])
    IN SelectSeq([k \in 1..Len(g.edges) |-> part[k]], LAMBDA d : d # 0)

(* dedup() *)
Deduplicated(line) ==
    FoldLeft(LAMBDA done, point : IF done # <<>> /\ Last(done) = point THEN done
                                  ELSE Append(done, point),
             <<>>, line)

(* Mutant: the walk stops before it has looked at the last part. *)
JoinedWithoutLast(e) ==
    LET edge == graph.edges[e]
        parts == PartsOf(graph, e)
    IN Drawn(edge, <<At(edge.from)>> \o FlattenSeq([k \in 1..(Len(parts) - 1) |-> points[parts[k]]])
                   \o <<At(edge.to)>>)

(* The line of a replaced edge: the bend points of its parts, one after the *)
(* other.                                                                   *)
Joined(e) ==
    LET edge == graph.edges[e]
        parts == PartsOf(graph, e)
    IN Drawn(edge, Deduplicated(<<At(edge.from)>>
                                \o FlattenSeq([k \in DOMAIN parts |-> points[parts[k]]])
                                \o <<At(edge.to)>>))

ReplaceEdge ==
    /\ phase = "replace"
    /\ \/ /\ at > Len(graph.edges)
          /\ phase' = "cleanup" /\ at' = 1
          /\ UNCHANGED <<graph, layout, points, segments, store, exported>>
       \/ /\ at <= Len(graph.edges) /\ graph.edges[at].type # "Replaced"
          /\ at' = at + 1
          /\ UNCHANGED <<graph, phase, layout, points, segments, store, exported>>
       \/ /\ at <= Len(graph.edges) /\ graph.edges[at].type = "Replaced"
          /\ LET edge == graph.edges[at]
                 first == edge.first
                 last == Last(PartsOf(graph, at))
             IN IF \/ first \notin ToSet(graph.nodes[edge.from].outgoing)
                   \/ last \notin ToSet(graph.nodes[edge.to].incoming)
                THEN Panic
                ELSE /\ points' = [points EXCEPT ![at] = Joined(at)]
                     /\ graph' = [graph EXCEPT !.edges[at].type = "Regular"]
                     /\ at' = at + 1
                     /\ UNCHANGED <<phase, layout, segments, store, exported>>

(* Mutant: the lists of the nodes are left alone. *)
OriginalsUnchanged(g, es) == es

(* A list of edges with those that dummies have replaced. *)
Originals(g, es) ==
    [i \in DOMAIN es |-> IF g.edges[es[i]].type = "Dummy" THEN g.edges[es[i]].original ELSE es[i]]

(* Mutant: one dummy is popped. *)
KeptButOne(s, dummies) == IF dummies = {} THEN s ELSE SubSeq(s, 1, Len(s) - 1)

(* What is left of a list after popping dummies from its end. *)
Kept(s, dummies) == SubSeq(s, 1, Max((DOMAIN s \ dummies) \union {0}))

RemoveDummies ==
    LET dummyNodes == {n \in DOMAIN graph.nodes : IsDummy(graph, n)}
        dummyEdges == {e \in DOMAIN graph.edges : graph.edges[e].type = "Dummy"}
        nodes == Kept(graph.nodes, dummyNodes)
        listed(n) == [nodes[n] EXCEPT !.incoming = Originals(graph, @),
                                      !.outgoing = Originals(graph, @)]
        clean == [graph EXCEPT
                    !.nodes = [n \in DOMAIN nodes |-> listed(n)],
                    !.edges = Kept(graph.edges, dummyEdges),
                    !.lanes = [place \in DOMAIN @ |->
                                  SelectSeq(@[place], LAMBDA n : n <= Len(nodes))]]
    IN /\ phase = "cleanup"
       /\ IF \/ \E n \in DOMAIN clean.nodes : IsDummy(clean, n)
             \/ \E e \in DOMAIN clean.edges : clean.edges[e].type # "Regular"
          THEN Panic
          ELSE /\ graph' = clean
               /\ points' = SubSeq(points, 1, Len(clean.edges))
               /\ phase' = "export"
               /\ UNCHANGED <<at, layout, segments, store, exported>>

-----------------------------------------------------------------------------
(* generate_bpmn() *)

(* Mutant: source and target of an input are exchanged. *)
ExportedBackwards(e, as) ==
    [edge |-> e, from |-> IF as = "input" THEN graph.edges[e].to ELSE graph.edges[e].from,
     to |-> IF as = "input" THEN graph.edges[e].from ELSE graph.edges[e].to, as |-> as]

Exported(e, as) == [edge |-> e, from |-> graph.edges[e].from, to |-> graph.edges[e].to, as |-> as]

(* Message flows are written for the whole file, the others with the nodes; *)
(* only nodes other than data have associations.                            *)
Written ==
    LET written(n) == n \in UNION {ToSet(graph.lanes[place]) : place \in DOMAIN graph.lanes}
        boxes == {n \in DOMAIN graph.nodes : written(n) /\ ~IsData(graph.nodes[n])}
        of(es, flow) == {e \in ToSet(es) : graph.edges[e].flow = flow}
    IN {Exported(e, "message") : e \in {d \in DOMAIN graph.edges : graph.edges[d].flow = "message"}}
       \union UNION {{Exported(e, "sequence") : e \in of(graph.nodes[n].outgoing, "sequence")} :
                        n \in {m \in DOMAIN graph.nodes : written(m)}}
       \union UNION {{Exported(e, "input") : e \in of(graph.nodes[n].incoming, "data")} : n \in boxes}
       \union UNION {{Exported(e, "output") : e \in of(graph.nodes[n].outgoing, "data")} : n \in boxes}

Export ==
    /\ phase = "export"
    /\ exported' = Written
    /\ phase' = "done" /\ UNCHANGED <<graph, at, layout, points, segments, store>>

-----------------------------------------------------------------------------

Draw ==
    \/ PostprocessVerticalEdges \/ DrawDataFlows \/ DrawSequenceFlows
    \/ CollectSegments \/ RouteLayer \/ CollectMessages \/ RouteBetweenPools
    \/ ReplaceEdge \/ RemoveDummies

Terminated == phase \in {"done", "panic", "hang"} /\ UNCHANGED vars

Next == LayOut \/ Draw \/ Export \/ Terminated

(* The phases run one after the other. *)
Spec == Init /\ [][Next]_vars /\ WF_vars(Next)

-----------------------------------------------------------------------------
(* Properties *)

Flows == DOMAIN parsed.edges

LaneTotal == Cardinality(DOMAIN graph.lanes)

(* Types: bend points of existing nodes and edges; what is left to be       *)
(* routed belongs to a layer or a pool, and every message flow that has a   *)
(* segment to come is in the store.                                         *)
TypeOK ==
    /\ phase \in {"layers", "data", "dummies", "sort", "crossings", "order", "lone", "undo",
                  "edges", "ports", "gateways", "coordinates", "direct", "straight", "collect",
                  "layerwise", "between", "replace", "cleanup", "export", "done", "panic", "hang"}
    /\ phase # "panic" => Len(points) = Len(graph.edges) \/ points = <<>>
    /\ \A e \in DOMAIN points : \A i \in DOMAIN points[e] : Len(points[e][i]) \in {1, 3}
    /\ \A segment \in segments :
          /\ segment.place \in 0..Max({graph.numLayers, LaneTotal}) /\ segment.part \in 1..3
          /\ graph.edges[segment.edge].flow = "message" => segment.edge \in DOMAIN store
    /\ \A e \in DOMAIN store : store[e].after \in 0..LaneTotal

(* An original edge that has its line. *)
IsDrawn(e) ==
    /\ e \in DOMAIN points /\ points[e] # <<>>
    /\ graph.edges[e].type = "Regular"

(* An edge within a layer that is rerouted at the moment, as it was before. *)
Settled(e) ==
    LET own == {i \in DOMAIN saved : saved[i].id = e}
    IN IF phase \in {"crossings", "order", "lone", "undo"} /\ own # {} THEN saved[CHOOSE i \in own : TRUE].edge
       ELSE graph.edges[e]

(* Through all phases the flows join what they joined in the file; every    *)
(* one gets its line once; and only flows of data may have none in the end. *)
Drawing == INSTANCE DrawnFlows WITH
    flows <- [e \in Flows |-> [ends |-> {Settled(e).from, Settled(e).to}, kind |-> Settled(e).flow]],
    drawn <- {e \in Flows : IsDrawn(e)},
    state <- CASE phase = "done" -> "finished"
               [] phase \in {"panic", "hang"} -> "failed"
               [] OTHER -> "running"

EveryFlowIsDrawn == Drawing!Spec

AllDrawn == phase \in {"cleanup", "export", "done"}

(* Turned around once by either of its ends, a flow of data between two     *)
(* data nodes has its old direction but counts as reversed.                 *)
TurnedTwice(e) ==
    graph.edges[e].reversed /\ graph.edges[e].from = parsed.edges[e].from

(* How far to the right a bend point is: at the layer of its node, or       *)
(* before the layer of the segment.                                         *)
Position(point) ==
    IF Len(point) = 1 THEN 2 * graph.nodes[point[1]].layer
    ELSE 2 * From(graph, point[1]).layer + 1

(* Every line starts where its flow starts in the file and ends where it    *)
(* ends, whatever the phases did to the edge: the arrow is at its end.  The *)
(* line of a replaced edge takes all the turns of its parts, once each, and *)
(* none of another edge, and goes only one way.                             *)
LinesFollowFlows ==
    /\ AllDrawn =>
        \A e \in Flows : points[e] # <<>> /\ ~TurnedTwice(e) =>
            /\ points[e][1] = At(parsed.edges[e].from)
            /\ Last(points[e]) = At(parsed.edges[e].to)
    /\ phase = "cleanup" =>
        \A e \in Flows : graph.edges[e].first # 0 /\ graph.edges[e].flow = "sequence" =>
            LET line == points[e]
                parts == {d \in DOMAIN graph.edges : graph.edges[d].original = e}
            IN /\ ToSet(line) = {At(graph.edges[e].from), At(graph.edges[e].to)}
                                \union UNION {ToSet(points[d]) : d \in parts}
               /\ IsInjective(line)
               /\ \A i \in 1..(Len(line) - 1) : Position(line[i]) <= Position(line[i + 1])

(* A message flow goes through its segments in order: from its start to the *)
(* space between the pools, along it, and on to its end.  Where it uses a   *)
(* segment it uses one end that is level with what comes before and one     *)
(* that is level with what comes after.  And no message flow waits for a    *)
(* segment in the store when all segments have their places.                *)
Earlier(p, q) == p[2] < q[2] \/ (p[2] = q[2] /\ p[3] < q[3])

MessagesTurnInOrder ==
    /\ phase \in {"replace", "cleanup", "export", "done"} => store = <<>>
    /\ AllDrawn =>
        \A e \in {f \in Flows : graph.edges[f].flow = "message"} :
            LET turns == SelectSeq(points[e], LAMBDA point : Len(point) = 3)
                ends(part) == {turns[i][3] : i \in {j \in DOMAIN turns : turns[j][2] = part}}
            IN /\ \A i \in 1..(Len(turns) - 1) : Earlier(turns[i], turns[i + 1])
               /\ ends(1) \in {{}, {1}} /\ ends(3) \in {{}, {2}}
               /\ turns # <<>> => ends(2) = {1, 2}

(* Without its dummies the graph is the one that was parsed: each edge      *)
(* joins the same nodes, with the boundary event it had, both lists of all  *)
(* nodes follow, and the lanes have their nodes.                            *)
GraphIsRestored ==
    phase \in {"export", "done"} =>
        /\ Len(graph.nodes) = Len(parsed.nodes) /\ Len(graph.edges) = Len(parsed.edges)
        /\ \A e \in Flows :
              /\ {graph.edges[e].from, graph.edges[e].to} = {parsed.edges[e].from, parsed.edges[e].to}
              /\ graph.edges[e].boundary = parsed.edges[e].boundary
        /\ Mirrored(graph) /\ LanesSorted(graph)

(* Sequence and message flows are in the output once, as they were read;    *)
(* so is each flow of data that joins a data node with a task or an event   *)
(* and has not been turned around.                                          *)
OutputKeepsFlows ==
    phase = "done" =>
        \A e \in Flows :
            LET edge == parsed.edges[e]
                written == {flow \in exported : flow.edge = e}
                betweenData == \A n \in {edge.from, edge.to} : IsData(parsed.nodes[n])
            IN /\ Cardinality(written) = IF betweenData THEN 0 ELSE 1
               /\ edge.flow # "data" \/ ~graph.edges[e].reversed =>
                     \A flow \in written : flow.from = edge.from /\ flow.to = edge.to

(* The output says of every flow what the file says: replace_dummy_nodes()  *)
(* "reshapes the graph into the same thing which we got after parsing".     *)
OutputIsWhatWasRead ==
    phase = "done" =>
        \A flow \in exported :
            flow.from = parsed.edges[flow.edge].from /\ flow.to = parsed.edges[flow.edge].to

(* Drawing fails on a vertical part between two dummies, and on nothing     *)
(* else: every port that it asks for is there, no message flow lacks a bend *)
(* point or is finished twice, bends join two edges, and no dummy is left.  *)
DrawingPanicsAreKnown ==
    [][Draw /\ phase' = "panic" =>
          \E e \in VerticalEdges :
              IsDummy(graph, graph.edges[e].from) /\ IsDummy(graph, graph.edges[e].to)]_vars
=============================================================================
