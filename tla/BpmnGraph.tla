------------------------------ MODULE BpmnGraph ------------------------------
(***************************************************************************)
(* The graph of src/src/common that the layout phases work on, as a value. *)
(* An edge is in `outgoing` of its start and in `incoming` of its end; a   *)
(* lane lists its nodes.  Identifiers are positions, counted from 1, and 0 *)
(* stands for None.  Sizes, ports, texts and colours are left out.         *)
(***************************************************************************)
EXTENDS Integers, FiniteSets, SequencesExt

(* A node; the layer of a node that has not been laid out yet is 0. *)
NewNode(kind, place, layer) ==
    [kind |-> kind, pool |-> place[1], lane |-> place[2],
     layer |-> layer, half |-> FALSE, above |-> 0, below |-> 0,
     incoming |-> <<>>, outgoing |-> <<>>]

(* `type` is Regular, Replaced (by dummies, the first of them is `first`)   *)
(* or Dummy (which stands for a part of `original`).                        *)
RegularEdge(from, to, flow, boundary) ==
    [from |-> from, to |-> to, flow |-> flow, boundary |-> boundary,
     reversed |-> FALSE, type |-> "Regular", first |-> 0, original |-> 0]

DummyEdge(from, to, flow, boundary, original) ==
    [from |-> from, to |-> to, flow |-> flow, boundary |-> boundary,
     reversed |-> FALSE, type |-> "Dummy", first |-> 0, original |-> original]

Place(node) == <<node.pool, node.lane>>

GraphNodes ==
    [kind : {"Event", "Gateway", "Task", "Data", "Dummy"},
     pool : Nat, lane : Nat, layer : Nat, half : BOOLEAN, above : Nat, below : Nat,
     incoming : Seq(Nat), outgoing : Seq(Nat)]

GraphEdges ==
    [from : Nat, to : Nat, flow : {"sequence", "message", "data"},
     boundary : BOOLEAN, reversed : BOOLEAN, first : Nat, original : Nat,
     type : {"Regular", "Replaced", "Dummy"}]

IsGraph(g) ==
    g \in [nodes : Seq(GraphNodes), edges : Seq(GraphEdges),
           lanes : [DOMAIN g.lanes -> Seq(Nat)], numLayers : Nat]

-----------------------------------------------------------------------------
(* Lists *)

(* Vec::retain(): the elements of s that are in T. *)
Retained(s, T) ==
    LET retained[i \in 0..Len(s)] ==
            IF i = 0 THEN <<>>
            ELSE IF s[i] \in T THEN Append(retained[i - 1], s[i]) ELSE retained[i - 1]
    IN retained[Len(s)]

Dropped(s, x) == Retained(s, ToSet(s) \ {x})

-----------------------------------------------------------------------------
(* Operations *)

(* Pool::add_node() with a known layer: before the first node of the lane   *)
(* that is not further left.                                                *)
InsertedByLayer(g, ns, n, layer) ==
    LET notLeft == {i \in DOMAIN ns : g.nodes[ns[i]].layer >= layer}
    IN IF notLeft = {} THEN Append(ns, n) ELSE InsertAt(ns, Min(notLeft), n)

AddNode(g, kind, place, layer) ==
    [g EXCEPT !.nodes = Append(@, NewNode(kind, place, layer)),
              !.lanes[place] = InsertedByLayer(g, @, Len(g.nodes) + 1, layer)]

AddEdge(g, edge) ==
    LET e == Len(g.edges) + 1
        left == [g.nodes EXCEPT ![edge.from].outgoing = Append(@, e)]
    IN [g EXCEPT !.edges = Append(@, edge),
                 !.nodes = [left EXCEPT ![edge.to].incoming = Append(@, e)]]

ReverseEdge(g, e) ==
    LET from == g.edges[e].from
        to == g.edges[e].to
    IN [g EXCEPT !.nodes[from].outgoing = Dropped(@, e),
                 !.nodes[from].incoming = Append(@, e),
                 !.nodes[to].incoming = Dropped(@, e),
                 !.nodes[to].outgoing = Append(@, e),
                 !.edges[e].from = to,
                 !.edges[e].to = from,
                 !.edges[e].reversed = TRUE]

(* The assertions of adjust_above_and_below_for_new_inbetween(): node n can  *)
(* come between the two nodes of a spot, 0 for none.                        *)
CanInsert(g, n, spot) ==
    /\ spot.above # 0 => g.nodes[spot.above].below = spot.below
    /\ spot.below # 0 => g.nodes[spot.below].above = spot.above
    /\ n \notin {spot.above, spot.below}

(* Mutant: the node below is not told. *)
InsertedOneSided(g, n, spot) ==
    LET up == IF spot.above = 0 THEN g
              ELSE [g EXCEPT !.nodes[spot.above].below = n]
    IN [up EXCEPT !.nodes[n].above = spot.above, !.nodes[n].below = spot.below]

Inserted(g, n, spot) ==
    LET up == IF spot.above = 0 THEN g
              ELSE [g EXCEPT !.nodes[spot.above].below = n]
        down == IF spot.below = 0 THEN up
                ELSE [up EXCEPT !.nodes[spot.below].above = n]
    IN [down EXCEPT !.nodes[n].above = spot.above, !.nodes[n].below = spot.below]

(* The graph after parsing a file that has these nodes and edges: nodes go  *)
(* to the end of their lanes, edges are added in order.                     *)
Unconnected(file) ==
    [nodes |-> [n \in DOMAIN file.nodes |->
                   NewNode(file.nodes[n].kind, Place(file.nodes[n]), 0)],
     edges |-> <<>>,
     lanes |-> [place \in file.lanes |->
                   Retained([n \in DOMAIN file.nodes |-> n],
                            {n \in DOMAIN file.nodes : Place(file.nodes[n]) = place})],
     numLayers |-> 0]

ParsedEdge(edge) == RegularEdge(edge.from, edge.to, edge.flow, edge.boundary)

Built(file) ==
    LET built[e \in 0..Len(file.edges)] ==
            IF e = 0 THEN Unconnected(file)
            ELSE AddEdge(built[e - 1], ParsedEdge(file.edges[e]))
    IN built[Len(file.edges)]

-----------------------------------------------------------------------------
(* Observations *)

From(g, e) == g.nodes[g.edges[e].from]
To(g, e) == g.nodes[g.edges[e].to]
IsData(node) == node.kind = "Data"
SamePool(g, e) == From(g, e).pool = To(g, e).pool

(* data_with_only_one_edge() *)
IsLoneData(node) == IsData(node) /\ Len(node.incoming) + Len(node.outgoing) = 1

(* The node that an edge joins n with. *)
OtherEnd(edge, n) == IF edge.from = n THEN edge.to ELSE edge.from

(* Edge e is the only one at node n. *)
IsOnlyEdge(g, n, e) ==
    LET joins(d) == g.edges[d].type # "Replaced" /\ n \in {g.edges[d].from, g.edges[d].to}
    IN /\ joins(e) /\ g.edges[e].from # g.edges[e].to
       /\ \A d \in DOMAIN g.edges : joins(d) => d = e

(* How often x occurs in s. *)
Count(s, x) == Cardinality({i \in DOMAIN s : s[i] = x})

(* Every edge that is not replaced is listed once by either of its ends,    *)
(* and nothing else is listed.                                              *)
Mirrored(g) ==
    /\ \A n \in DOMAIN g.nodes :
          /\ ToSet(g.nodes[n].incoming) \subseteq DOMAIN g.edges
          /\ ToSet(g.nodes[n].outgoing) \subseteq DOMAIN g.edges
    /\ \A e \in DOMAIN g.edges, n \in DOMAIN g.nodes :
          LET listed == IF g.edges[e].type = "Replaced" THEN 0 ELSE 1
          IN /\ Count(g.nodes[n].outgoing, e) = IF g.edges[e].from = n THEN listed ELSE 0
             /\ Count(g.nodes[n].incoming, e) = IF g.edges[e].to = n THEN listed ELSE 0

(* Edges join nodes that exist, in lanes that exist. *)
EndsExist(g) ==
    /\ \A e \in DOMAIN g.edges : {g.edges[e].from, g.edges[e].to} \subseteq DOMAIN g.nodes
    /\ \A n \in DOMAIN g.nodes : Place(g.nodes[n]) \in DOMAIN g.lanes

(* The lanes list their own nodes once each.                                *)
LanesComplete(g) ==
    \A place \in DOMAIN g.lanes :
        /\ ToSet(g.lanes[place]) \subseteq DOMAIN g.nodes
        /\ \A n \in DOMAIN g.nodes :
              Count(g.lanes[place], n) = IF Place(g.nodes[n]) = place THEN 1 ELSE 0

(* They list them from left to right: the phases that walk over a lane stop *)
(* at the first node that is too far right.                                 *)
LanesSorted(g) ==
    /\ LanesComplete(g)
    /\ \A place \in DOMAIN g.lanes : \A i, j \in DOMAIN g.lanes[place] :
          i < j => g.nodes[g.lanes[place][i]].layer <= g.nodes[g.lanes[place][j]].layer
=============================================================================
