--------------------------- MODULE LayerAssignment ---------------------------
(***************************************************************************)
(* The first layout phases: solve_layer_assignment(), which puts nodes     *)
(* into layers from left to right and turns data flows that would point to *)
(* the left around; generate_dummy_nodes(), which splits an edge over more *)
(* than one layer into a chain of edges over one; sort_lanes_by_layer().   *)
(* The layers of the flow nodes are an optimum of an integer program; the  *)
(* solver may return any of its optima.                                    *)
(***************************************************************************)
EXTENDS BpmnGraph

CONSTANT Files  \* nodes and edges that the parser can produce

(* What the parser makes sure of: sequence flows join events, gateways and  *)
(* tasks, only message flows cross pools, and a data flow joins a data node *)
(* with a node that was there before it: there is one, and if there are no other *)
(* edges the data node is in its lane.                                      *)
EdgesAt(file, n) == {e \in DOMAIN file.edges : n \in {file.edges[e].from, file.edges[e].to}}

IsParsed(file) ==
    /\ file.nodes \in Seq([kind : {"Event", "Gateway", "Task", "Data"}, pool : Nat, lane : Nat])
    /\ file.edges \in Seq([from : DOMAIN file.nodes, to : DOMAIN file.nodes,
                           flow : {"sequence", "message", "data"}, boundary : BOOLEAN])
    /\ \A n \in DOMAIN file.nodes : Place(file.nodes[n]) \in file.lanes
    /\ \A e \in DOMAIN file.edges :
          LET from == file.nodes[file.edges[e].from]
              to == file.nodes[file.edges[e].to]
          IN /\ file.edges[e].flow = "sequence" => ~IsData(from) /\ ~IsData(to)
             /\ file.edges[e].flow = "message" <=> from.pool # to.pool
             /\ file.edges[e].flow = "data" => /\ file.edges[e].from # file.edges[e].to
                                               /\ IsData(from) \/ IsData(to)
    /\ \A n \in DOMAIN file.nodes : IsData(file.nodes[n]) =>
          \E e \in EdgesAt(file, n) :
             LET recipient == OtherEnd(file.edges[e], n)
             IN /\ recipient < n
                /\ EdgesAt(file, n) = {e} => Place(file.nodes[recipient]) = Place(file.nodes[n])

ASSUME FilesAreParsed == \A file \in Files : IsParsed(file)

VARIABLES
    parsed,     \* the graph as the parser left it; no phase changes it
    graph,
    phase,      \* the phase that runs
    at          \* the node or edge that its loop has come to

vars == <<parsed, graph, phase, at>>

Init ==
    /\ parsed \in {Built(file) : file \in Files}
    /\ graph = parsed
    /\ phase = "layers" /\ at = 1

(* An assertion, an unwrap() or an index out of range ends the process. *)
Panic == phase' = "panic" /\ UNCHANGED <<parsed, graph, at>>

-----------------------------------------------------------------------------
(* solve_layers() *)

FlowNodes == {n \in DOMAIN graph.nodes : ~IsData(graph.nodes[n])}
SequenceFlows == {e \in DOMAIN graph.edges : graph.edges[e].flow = "sequence"}

Feasible(layer) ==
    \A e \in SequenceFlows : layer[graph.edges[e].to] >= layer[graph.edges[e].from] + 1

Layerings == {layer \in [FlowNodes -> 0..Len(graph.nodes)] : Feasible(layer)}

(* Ten times the objective: short edges, and a start node far to the left.  *)
Cost(layer) ==
    MapThenSumSet(
        LAMBDA e : 10 * (layer[graph.edges[e].to] - layer[graph.edges[e].from])
                   + IF From(graph, e).incoming = <<>> THEN layer[graph.edges[e].from] ELSE 0,
        SequenceFlows)

Optima ==
    LET layerings == Layerings
        least == Min({Cost(layer) : layer \in layerings})
    IN IF layerings = {} THEN {} ELSE {layer \in layerings : Cost(layer) = least}

SolveLayers ==
    /\ phase = "layers"
    /\ \/ Layerings = {} /\ Panic
       \/ /\ \E layer \in Optima :
                graph' = [graph EXCEPT
                    !.nodes = [n \in DOMAIN graph.nodes |->
                                  IF n \in FlowNodes
                                  THEN [graph.nodes[n] EXCEPT !.layer = layer[n]]
                                  ELSE graph.nodes[n]],
                    !.numLayers = Max({layer[n] + 1 : n \in FlowNodes} \union {0})]
          /\ phase' = "data" /\ UNCHANGED <<parsed, at>>

-----------------------------------------------------------------------------
(* solve_data_object_layers_via_arithmetic_mean() *)

(* The layers of the neighbours of n in its own lane, one per edge. *)
NeighbourLayers(n) ==
    LET node == graph.nodes[n]
        neighbours == [i \in DOMAIN node.incoming |-> graph.edges[node.incoming[i]].from]
                      \o [i \in DOMAIN node.outgoing |-> graph.edges[node.outgoing[i]].to]
        ownLane == Retained(neighbours, {m \in DOMAIN graph.nodes : graph.nodes[m].lane = node.lane})
    IN [i \in DOMAIN ownLane |-> graph.nodes[ownLane[i]].layer]

LayerSum(layers) ==
    LET sum[i \in 0..Len(layers)] == IF i = 0 THEN 0 ELSE sum[i - 1] + layers[i]
    IN sum[Len(layers)]

(* Mutant: half a layer is taken off instead of added. *)
MeanLayerToTheLeft(layers) ==
    LET count == Len(layers)
        floor == LayerSum(layers) \div count
        rest == LayerSum(layers) % count
    IN CASE count = 0 -> [layer |-> 0, half |-> FALSE]
         [] count > 0 /\ 4 * rest < count -> [layer |-> floor, half |-> FALSE]
         [] count > 0 /\ 4 * rest > 3 * count -> [layer |-> floor + 1, half |-> FALSE]
         [] OTHER -> [layer |-> floor - 1, half |-> TRUE]

(* Their mean: rounded to the layer, to half a layer, or to the next one.   *)
MeanLayer(layers) ==
    LET count == Len(layers)
        floor == LayerSum(layers) \div count
        rest == LayerSum(layers) % count
    IN CASE count = 0 -> [layer |-> 0, half |-> FALSE]
         [] count > 0 /\ 4 * rest < count -> [layer |-> floor, half |-> FALSE]
         [] count > 0 /\ 4 * rest > 3 * count -> [layer |-> floor + 1, half |-> FALSE]
         [] OTHER -> [layer |-> floor, half |-> TRUE]

(* Mutant: an edge within a layer stays although the data node is moved by  *)
(* half a layer.                                                            *)
PointLeftOfForgetsHalf(g, n) ==
    LET node == g.nodes[n]
    IN Retained(node.incoming, {e \in ToSet(node.incoming) : From(g, e).layer > node.layer})
       \o Retained(node.outgoing, {e \in ToSet(node.outgoing) : To(g, e).layer < node.layer})

(* The edges at data node n that point to the left of it. *)
PointLeftOf(g, n) ==
    LET node == g.nodes[n]
    IN Retained(node.incoming, {e \in ToSet(node.incoming) : From(g, e).layer > node.layer})
       \o Retained(node.outgoing,
                   {e \in ToSet(node.outgoing) :
                       \/ To(g, e).layer < node.layer
                       \/ To(g, e).layer = node.layer /\ node.half})

TurnedAround(g, es) ==
    LET turned[i \in 0..Len(es)] == IF i = 0 THEN g ELSE ReverseEdge(turned[i - 1], es[i])
    IN turned[Len(es)]

(* Data node n in its layer, and the edges at it turned to the right. *)
Placed(n) ==
    LET mean == MeanLayer(NeighbourLayers(n))
        moved == [graph EXCEPT !.nodes[n].layer = mean.layer, !.nodes[n].half = mean.half]
    IN TurnedAround(moved, PointLeftOf(moved, n))

PlaceDataNode ==
    /\ phase = "data"
    /\ IF at > Len(graph.nodes)
       THEN phase' = "dummies" /\ at' = 1 /\ UNCHANGED <<parsed, graph>>
       ELSE /\ at' = at + 1
            /\ UNCHANGED <<parsed, phase>>
            /\ graph' = IF IsData(graph.nodes[at]) THEN Placed(at) ELSE graph

-----------------------------------------------------------------------------
(* generate_dummy_nodes() *)

(* Mutant: flows between pools are split, too. *)
IsLongAcrossPools(e) ==
    /\ From(graph, e).layer + 1 # To(graph, e).layer
    /\ From(graph, e).layer # To(graph, e).layer

(* Not over one layer, not within one, and not between pools. *)
IsLong(e) ==
    /\ From(graph, e).layer + 1 # To(graph, e).layer
    /\ From(graph, e).layer # To(graph, e).layer
    /\ SamePool(graph, e)

(* Mutant: one dummy per layer that the edge is over. *)
DummyPlacesOneTooMany(e) ==
    LET total == To(graph, e).layer - From(graph, e).layer
    IN [i \in 1..total |-> IF i <= total \div 2 THEN Place(From(graph, e))
                                                ELSE Place(To(graph, e))]

(* The places of the dummies: the first half in the lane of the start, the  *)
(* rest in that of the end.                                                 *)
DummyPlaces(e) ==
    LET total == To(graph, e).layer - From(graph, e).layer - 1
    IN [i \in 1..total |-> IF i <= total \div 2 THEN Place(From(graph, e))
                                                ELSE Place(To(graph, e))]

(* The node that the i-th edge of the chain for e starts from. *)
ChainNode(e, i) == IF i = 1 THEN graph.edges[e].from ELSE Len(graph.nodes) + i - 1

(* One more dummy node, in this place, and the edge that leads to it. *)
WithDummy(g, e, i, place) ==
    LET edge == graph.edges[e]
    IN AddEdge(AddNode(g, "Dummy", place, From(graph, e).layer + i),
               DummyEdge(ChainNode(e, i), ChainNode(e, i + 1), edge.flow,
                         edge.boundary /\ ~edge.reversed /\ i = 1, e))

Replaced(e) ==
    [graph EXCEPT !.edges[e].type = "Replaced", !.edges[e].first = Len(graph.edges) + 1]

(* Edge e and, beside it, the chain of dummy nodes and edges for it. *)
WithChain(e) ==
    LET edge == graph.edges[e]
        places == DummyPlaces(e)
        chain[i \in 0..Len(places)] ==
            IF i = 0 THEN Replaced(e) ELSE WithDummy(chain[i - 1], e, i, places[i])
    IN AddEdge(chain[Len(places)],
               DummyEdge(ChainNode(e, Len(places) + 1), edge.to, edge.flow,
                         edge.boundary /\ edge.reversed, e))

(* Mutant: the replaced edge stays with its end. *)
SplitKeepsEnd(e) ==
    [WithChain(e) EXCEPT !.nodes[graph.edges[e].from].outgoing = Dropped(@, e)]

(* Edge e of the graph, replaced by a chain of dummy nodes and edges. *)
Split(e) ==
    [WithChain(e) EXCEPT !.nodes[graph.edges[e].from].outgoing = Dropped(@, e),
                         !.nodes[graph.edges[e].to].incoming = Dropped(@, e)]

SplitEdge ==
    /\ phase = "dummies"
    /\ \/ /\ at > Len(parsed.edges)
          /\ phase' = "sort" /\ at' = 1 /\ UNCHANGED <<parsed, graph>>
       \/ /\ at <= Len(parsed.edges) /\ ~IsLong(at)
          /\ at' = at + 1 /\ UNCHANGED <<parsed, graph, phase>>
       \/ /\ at <= Len(parsed.edges) /\ IsLong(at)
          /\ IF graph.edges[at].flow = "message" \/ From(graph, at).layer > To(graph, at).layer
             THEN Panic
             ELSE /\ graph' = Split(at)
                  /\ at' = at + 1 /\ UNCHANGED <<parsed, phase>>

(* sort_lanes_by_layer(): the unstable sort of the standard library is an   *)
(* insertion sort, which is stable, for up to twenty nodes.                 *)
InsertedInOrder(ns, n) ==
    InsertAt(ns, Cardinality({i \in DOMAIN ns : graph.nodes[ns[i]].layer <= graph.nodes[n].layer}) + 1, n)

InOrder(ns) ==
    LET sorted[i \in 0..Len(ns)] ==
            IF i = 0 THEN <<>> ELSE InsertedInOrder(sorted[i - 1], ns[i])
    IN sorted[Len(ns)]

SortLanes ==
    /\ phase = "sort"
    /\ graph' = [graph EXCEPT !.lanes = [place \in DOMAIN @ |-> InOrder(@[place])]]
    /\ phase' = "crossings" /\ UNCHANGED <<parsed, at>>

Work == SolveLayers \/ PlaceDataNode \/ SplitEdge \/ SortLanes

Terminated == phase \in {"crossings", "panic"} /\ UNCHANGED vars

Next == Work \/ Terminated

(* The phases run one after the other to their ends. *)
Spec == Init /\ [][Next]_vars /\ WF_vars(Next)

-----------------------------------------------------------------------------
(* Properties *)

(* Types: the graph keeps its shape, and no column is linked yet.           *)
TypeOK ==
    /\ phase \in {"layers", "data", "dummies", "sort", "crossings", "panic"}
    /\ at \in Nat
    /\ IsGraph(parsed) /\ IsGraph(graph)
    /\ DOMAIN graph.lanes = DOMAIN parsed.lanes
    /\ \A n \in DOMAIN graph.nodes : graph.nodes[n].above = 0 /\ graph.nodes[n].below = 0

(* Turning and splitting edges keeps `incoming` and `outgoing` in step with *)
(* `edges`: the later phases find every edge from both of its ends.  And    *)
(* the loops over the layers of a lane find its nodes sorted by layer.      *)
ListsMirrorGraph ==
    /\ Mirrored(graph)
    /\ phase = "crossings" => LanesSorted(graph)

(* Sequence flows that go round in a circle are what the solver, or         *)
(* strict_sub, panics on, and nothing else is; data flows may.              *)
Cyclic(g) ==
    \E S \in SUBSET DOMAIN g.nodes :
        /\ S # {}
        /\ \A n \in S : \E e \in DOMAIN g.edges :
              g.edges[e].flow = "sequence" /\ g.edges[e].to = n /\ g.edges[e].from \in S

PanicsOnCycles ==
    /\ phase = "panic" => Cyclic(parsed)
    /\ phase = "crossings" => ~Cyclic(parsed)

(* Once data nodes are placed, no edge of a pool points to the left, half   *)
(* layers included, although data nodes are placed one by one while those   *)
(* that come later are still in layer 0.                                    *)
HalfLayers(node) == 2 * node.layer + IF node.half THEN 1 ELSE 0

PointsRight(e) == SamePool(graph, e) => HalfLayers(From(graph, e)) <= HalfLayers(To(graph, e))

EdgesPointRight ==
    phase \in {"dummies", "sort", "crossings"} => \A e \in DOMAIN graph.edges : PointsRight(e)

(* When lanes are sorted, every edge within a pool that is not replaced is  *)
(* over at most one layer, and a replaced edge is a chain of edges, one for *)
(* each layer and `first` the first of them, that joins its ends and        *)
(* carries its boundary event at the end that has it.                       *)
HopsOf(g, e) == {d \in DOMAIN g.edges : g.edges[d].type = "Dummy" /\ g.edges[d].original = e}

IsChain(g, e) ==
    LET edge == g.edges[e]
        last == edge.first + To(g, e).layer - From(g, e).layer - 1
    IN /\ HopsOf(g, e) = edge.first..last
       /\ edge.first < last
       /\ \A d \in HopsOf(g, e) :
             /\ To(g, d).layer = From(g, e).layer + d - edge.first + 1
             /\ g.edges[d].from = IF d = edge.first THEN edge.from ELSE g.edges[d - 1].to
             /\ d = last => g.edges[d].to = edge.to
             /\ g.edges[d].boundary <=>
                   edge.boundary /\ d = IF edge.reversed THEN last ELSE edge.first

IsShortOrChain(e) ==
    /\ graph.edges[e].type = "Replaced" => IsChain(graph, e)
    /\ graph.edges[e].type # "Replaced" /\ SamePool(graph, e) =>
          To(graph, e).layer - From(graph, e).layer \in {0, 1}

LongEdgesAreChains ==
    phase = "crossings" => \A e \in DOMAIN graph.edges : IsShortOrChain(e)

-----------------------------------------------------------------------------
(* The inductive invariant *)

(* In every phase the graph hangs together.                                 *)
GraphInv == EndsExist(graph) /\ Mirrored(graph) /\ LanesComplete(graph)

(* Until edges are split, they are those of the file, turned around or not. *)
FlowsInv ==
    phase \in {"layers", "data"} =>
        /\ Len(graph.edges) = Len(parsed.edges)
        /\ \A e \in DOMAIN graph.edges :
              /\ graph.edges[e].type = "Regular"
              /\ graph.edges[e].flow = "sequence" => ~IsData(From(graph, e)) /\ ~IsData(To(graph, e))
              /\ graph.edges[e].flow = "message" <=> ~SamePool(graph, e)
              /\ graph.edges[e].flow = "data" => /\ graph.edges[e].from # graph.edges[e].to
                                                 /\ IsData(From(graph, e)) \/ IsData(To(graph, e))

(* Data nodes that have not been placed are at the left end.                *)
UnplacedInv ==
    /\ phase = "layers" => graph = parsed /\ at = 1
    /\ phase \in {"layers", "data"} => at >= 1
    /\ phase \in {"layers", "data"} =>
          \A n \in DOMAIN graph.nodes :
              /\ graph.nodes[n].half => IsData(graph.nodes[n])
              /\ IsData(graph.nodes[n]) /\ at <= n => graph.nodes[n].layer = 0 /\ ~graph.nodes[n].half

(* Only a flow from a flow node to a data node that has not been placed can *)
(* point to the left.                                                       *)
PlacedInv ==
    phase = "data" =>
        \A e \in DOMAIN graph.edges :
            (IsData(To(graph, e)) /\ at <= graph.edges[e].to => IsData(From(graph, e)))
                => PointsRight(e)

(* The solver has found layers, or it has panicked.                         *)
CyclesInv ==
    /\ phase = "panic" => Cyclic(parsed)
    /\ phase \notin {"layers", "panic"} => ~Cyclic(parsed)

(* The loop of generate_dummy_nodes() has split the edges before `at`.      *)
SplitInv ==
    /\ phase = "dummies" =>
          /\ at >= 1 /\ Len(parsed.edges) <= Len(graph.edges)
          /\ \A e \in DOMAIN graph.edges :
                /\ e < at \/ Len(parsed.edges) < e => IsShortOrChain(e)
                /\ at <= e /\ e <= Len(parsed.edges) =>
                      /\ graph.edges[e].type = "Regular"
                      /\ graph.edges[e].flow = "message" => ~SamePool(graph, e)
                /\ graph.edges[e].type = "Dummy" => graph.edges[e].original < at
    /\ phase \in {"sort", "crossings"} =>
          at = 1 /\ \A e \in DOMAIN graph.edges : IsShortOrChain(e)

(* No node is right of the last layer: that of data nodes without neighbours *)
(* in their lane is there because some flow node is.                        *)
BoundInv ==
    /\ phase = "layers" =>
          \A n \in DOMAIN graph.nodes : IsData(graph.nodes[n]) => FlowNodes # {}
    /\ phase \in {"data", "dummies", "sort", "crossings"} =>
          \A n \in DOMAIN graph.nodes : graph.nodes[n].layer < graph.numLayers

(* A data node with one edge is in the lane and, when it has been placed, in *)
(* the layer of its neighbour, which was there before it.                   *)
LoneInv ==
    \A n \in DOMAIN graph.nodes, e \in DOMAIN graph.edges :
        IsData(graph.nodes[n]) /\ IsOnlyEdge(graph, n, e) =>
            LET other == OtherEnd(graph.edges[e], n)
            IN /\ other < n /\ Place(graph.nodes[other]) = Place(graph.nodes[n])
               /\ (\/ phase \in {"dummies", "sort", "crossings"}
                   \/ phase = "data" /\ n < at)
                     => graph.nodes[other].layer = graph.nodes[n].layer

(* All of it, which every step keeps: the order of the phases is what the   *)
(* properties above rest on.                                                *)
LayersInv ==
    /\ TypeOK /\ GraphInv /\ FlowsInv /\ UnplacedInv /\ PlacedInv
    /\ EdgesPointRight /\ CyclesInv /\ SplitInv /\ BoundInv /\ LoneInv
    /\ phase = "crossings" => LanesSorted(graph)
=============================================================================
