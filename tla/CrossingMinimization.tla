------------------------- MODULE CrossingMinimization -------------------------
(***************************************************************************)
(* reduce_all_crossings(), after the phases of LayerAssignment.  An edge   *)
(* within a layer is rerouted over temporary nodes in the layers beside    *)
(* it, so that the integer program sees edges over one layer only; the     *)
(* nodes of each layer of a lane are ordered and linked from top to        *)
(* bottom; a data node with one edge is put beside its neighbour; the      *)
(* rerouting is undone; the edges of each node are sorted around it.       *)
(* Which order has the fewest crossings is left open: any order may be it. *)
(***************************************************************************)
EXTENDS LayerAssignment

VARIABLES
    before,   \* the graph when the phase began
    saved     \* Undo::original_edges: rerouted edges with their old values

crossingVars == <<parsed, graph, phase, at, before, saved>>

CrossingInit == Init /\ before = graph /\ saved = <<>>

LayOut == Work /\ before' = graph' /\ UNCHANGED saved

CrossingPanic == Panic /\ UNCHANGED <<before, saved>>

-----------------------------------------------------------------------------
(* temporarily_add_dummy_nodes_for_edges_within_same_layer() *)

IsRerouted(e) ==
    /\ From(graph, e).layer = To(graph, e).layer
    /\ SamePool(graph, e)
    /\ ~IsLoneData(From(graph, e)) /\ ~IsLoneData(To(graph, e))

(* Edge e, which is listed once at its end, gets another end. *)
Redirected(g, e, n) ==
    [g EXCEPT !.edges[e].to = n,
              !.nodes[g.edges[e].to].incoming = Dropped(@, e),
              !.nodes[n].incoming = Append(@, e)]

(* Edge e leads to a new node on the right, which a second edge reaches     *)
(* from the old end; right of layer 0, a node on the left leads to both.    *)
ReroutedRight(g, e) ==
    LET edge == g.edges[e]
        right == Len(g.nodes) + 1
        withRight == AddNode(g, "Dummy", Place(From(g, e)), From(g, e).layer + 1)
    IN AddEdge(Redirected(withRight, e, right), DummyEdge(edge.to, right, edge.flow, FALSE, e))

WithLeftNode(g, e, from, to) ==
    LET left == Len(g.nodes) + 1
        flow == g.edges[e].flow
        withLeft == AddNode(g, "Dummy", Place(g.nodes[from]), g.nodes[from].layer - 1)
    IN AddEdge(AddEdge(withLeft, DummyEdge(left, from, flow, FALSE, e)),
               DummyEdge(left, to, flow, FALSE, e))

Rerouted(g, e) ==
    IF From(g, e).layer = 0 THEN ReroutedRight(g, e)
    ELSE WithLeftNode(ReroutedRight(g, e), e, g.edges[e].from, g.edges[e].to)

Reroute ==
    /\ phase = "crossings"
    /\ \/ /\ at > Len(before.edges)
          /\ phase' = "order" /\ at' = 1 /\ UNCHANGED <<parsed, graph, before, saved>>
       \/ /\ at <= Len(before.edges)
          /\ at' = at + 1 /\ UNCHANGED <<parsed, phase, before>>
          /\ IF IsRerouted(at)
             THEN /\ saved' = Append(saved, [id |-> at, edge |-> graph.edges[at]])
                  /\ graph' = Rerouted(graph, at)
             ELSE UNCHANGED <<graph, saved>>

-----------------------------------------------------------------------------
(* The order of the nodes *)

(* The nodes of the integer program: lone data nodes come later, and what   *)
(* is right of the last layer stays out.                                    *)
InProgram(n) == ~IsLoneData(graph.nodes[n]) /\ graph.nodes[n].layer < graph.numLayers

ProgramEdges ==
    {e \in DOMAIN graph.edges :
        /\ graph.edges[e].type # "Replaced" /\ graph.edges[e].flow # "message"
        /\ InProgram(graph.edges[e].from) /\ InProgram(graph.edges[e].to)}

(* There are variables for pairs of nodes of one layer only. *)
VariableMissing ==
    \E d, e \in ProgramEdges :
        /\ graph.edges[d].from # graph.edges[e].from
        /\ From(graph, d).layer = From(graph, e).layer
        /\ To(graph, d).layer # To(graph, e).layer

(* handle_message_flows() compares the remote ends of the message flows of  *)
(* two nodes in one column, and asserts that they are two.                  *)
SharedRemote(g) ==
    LET messages == {e \in DOMAIN g.edges : g.edges[e].flow = "message"}
        ends(e) == {<<g.edges[e].from, g.edges[e].to>>, <<g.edges[e].to, g.edges[e].from>>}
        neighbours(m, n) == /\ m # n /\ g.nodes[m].layer = g.nodes[n].layer
                            /\ Place(g.nodes[m]) = Place(g.nodes[n])
    IN \E d, e \in messages : \E p \in ends(d), q \in ends(e) :
          p[2] = q[2] /\ neighbours(p[1], q[1])

Group(place, layer) ==
    {n \in ToSet(graph.lanes[place]) : InProgram(n) /\ graph.nodes[n].layer = layer}

(* The ways to number the nodes of a layer from the top of their lanes. *)
Orders(layer) ==
    LET nodes == UNION {Group(place, layer) : place \in DOMAIN graph.lanes}
    IN {order \in [nodes -> 1..Cardinality(nodes)] :
           \A place \in DOMAIN graph.lanes :
              LET group == Group(place, layer)
              IN {order[n] : n \in group} = 1..Cardinality(group)}

(* The node in place p of the order of n's lane, or 0. *)
NodeAt(order, n, p) ==
    LET s == {m \in DOMAIN order : Place(graph.nodes[m]) = Place(graph.nodes[n]) /\ order[m] = p}
    IN IF s = {} THEN 0 ELSE CHOOSE m \in s : TRUE

(* The nodes of a layer get the neighbours that the solution gives them. *)
Linked(order) ==
    [graph EXCEPT !.nodes = [n \in DOMAIN @ |->
        IF n \in DOMAIN order
        THEN [@[n] EXCEPT !.above = NodeAt(order, n, order[n] - 1),
                          !.below = NodeAt(order, n, order[n] + 1)]
        ELSE @[n]]]

OrderLayer ==
    /\ phase = "order"
    /\ \/ /\ at <= graph.numLayers
          /\ IF at = 1 /\ (VariableMissing \/ SharedRemote(graph)) THEN CrossingPanic
             ELSE /\ \E order \in Orders(at - 1) : graph' = Linked(order)
                  /\ at' = at + 1 /\ UNCHANGED <<parsed, phase, before, saved>>
       \/ /\ at > graph.numLayers
          /\ phase' = "lone" /\ at' = 1 /\ UNCHANGED <<parsed, graph, before, saved>>

(* process_data_nodes_which_should_become_immediate_neighbors()             *)

(* Mutant: an output goes above the node that writes it. *)
SpotOutputAbove(n) ==
    LET node == graph.nodes[n]
        isOutput == node.outgoing = <<>>
        reference == IF isOutput THEN graph.edges[node.incoming[1]].from
                                 ELSE graph.edges[node.outgoing[1]].to
    IN [above |-> graph.nodes[reference].above, below |-> reference]

(* An output goes below the node that writes it, an input above the node    *)
(* that reads it.                                                           *)
Spot(n) ==
    LET node == graph.nodes[n]
        isOutput == node.outgoing = <<>>
        reference == IF isOutput THEN graph.edges[node.incoming[1]].from
                                 ELSE graph.edges[node.outgoing[1]].to
    IN IF isOutput THEN [above |-> reference, below |-> graph.nodes[reference].below]
                   ELSE [above |-> graph.nodes[reference].above, below |-> reference]

(* When the last one is placed the undo begins: lanes drop the temporary     *)
(* nodes, which stay linked in their columns.                               *)
PlaceLoneData ==
    /\ phase = "lone"
    /\ \/ /\ at > Len(graph.nodes)
          /\ phase' = "undo" /\ at' = 1
          /\ graph' = [graph EXCEPT !.lanes = [place \in DOMAIN @ |->
                          Retained(@[place], DOMAIN before.nodes)]]
          /\ UNCHANGED <<parsed, before, saved>>
       \/ /\ at <= Len(graph.nodes) /\ ~IsLoneData(graph.nodes[at])
          /\ at' = at + 1 /\ UNCHANGED <<parsed, graph, phase, before, saved>>
       \/ /\ at <= Len(graph.nodes) /\ IsLoneData(graph.nodes[at])
          /\ IF ~CanInsert(graph, at, Spot(at)) THEN CrossingPanic
             ELSE /\ graph' = Inserted(graph, at, Spot(at))
                  /\ at' = at + 1 /\ UNCHANGED <<parsed, phase, before, saved>>

-----------------------------------------------------------------------------
(* remove_temporarily_added_dummy_nodes_for_edges_within_same_layer() *)

Popped(s) == IF s = <<>> THEN s ELSE Front(s)

(* Mutant: the start stays reached from the node on the left. *)
LeftPoppedAtEndOnly(g, edge) == [g EXCEPT !.nodes[edge.to].incoming = Popped(@)]

(* The first rerouted edge is undone first, and what is popped is taken to  *)
(* be what the rerouting pushed: the edges from the node on the left, and   *)
(* the one to the node on the right.                                        *)
LeftPopped(g, edge) ==
    LET to == [g EXCEPT !.nodes[edge.to].incoming = Popped(@)]
    IN [to EXCEPT !.nodes[edge.from].incoming = Popped(@)]

ListedAgain(g, id, n) ==
    [g EXCEPT !.nodes[n].outgoing = Popped(@), !.nodes[n].incoming = Append(@, id)]

Restored(g, id, edge) ==
    LET old == [g EXCEPT !.edges[id] = edge]
        popped == IF g.nodes[edge.to].layer = 0 THEN old ELSE LeftPopped(old, edge)
    IN ListedAgain(popped, id, edge.to)

(* A temporary node leaves the column: its neighbours are linked if they    *)
(* are in one lane.                                                         *)
Unlinked(g, n) ==
    LET above == g.nodes[n].above
        below == g.nodes[n].below
        joined == \/ above = 0 \/ below = 0
                  \/ Place(g.nodes[above]) = Place(g.nodes[below])
        up == IF above = 0 THEN g
              ELSE [g EXCEPT !.nodes[above].below = IF joined THEN below ELSE 0]
    IN IF below = 0 THEN up
       ELSE [up EXCEPT !.nodes[below].above = IF joined THEN above ELSE 0]

WithoutTemporaries ==
    LET count == Len(graph.nodes) - Len(before.nodes)
        unlinked[i \in 0..count] ==
            IF i = 0 THEN graph ELSE Unlinked(unlinked[i - 1], Len(before.nodes) + i)
    IN unlinked[count]

(* Mutant: one edge left of a rerouted edge is forgotten. *)
TruncatedTooLate(g) ==
    LET toLeft == {i \in DOMAIN saved : g.nodes[saved[i].edge.to].layer > 0}
        retain == Len(g.edges) - Len(saved) - Cardinality(toLeft)
    IN [g EXCEPT !.nodes = SubSeq(@, 1, Len(before.nodes)),
                 !.edges = SubSeq(@, 1, retain)]

(* Temporary nodes and edges are the last ones. *)
Truncated(g) ==
    LET toLeft == {i \in DOMAIN saved : g.nodes[saved[i].edge.to].layer > 0}
        retain == Len(g.edges) - Len(saved) - 2 * Cardinality(toLeft)
    IN [g EXCEPT !.nodes = SubSeq(@, 1, Len(before.nodes)),
                 !.edges = SubSeq(@, 1, retain)]

Undo ==
    /\ phase = "undo"
    /\ IF at <= Len(saved)
       THEN /\ graph' = Restored(graph, saved[at].id, saved[at].edge)
            /\ at' = at + 1 /\ UNCHANGED <<parsed, phase, before, saved>>
       ELSE /\ graph' = Truncated(WithoutTemporaries)
            /\ phase' = "edges" /\ at' = 1 /\ UNCHANGED <<parsed, before, saved>>

-----------------------------------------------------------------------------
(* sort_incoming_and_outgoing() *)

(* How many nodes are above n in its column. *)
Rank(g) ==
    LET rank[n \in DOMAIN g.nodes] ==
            IF g.nodes[n].above = 0 THEN 0 ELSE rank[g.nodes[n].above] + 1
    IN rank

KeyLess(k, l) == \E i \in DOMAIN k : k[i] < l[i] /\ \A j \in 1..(i - 1) : k[j] = l[j]

(* Mutant: lanes do not count. *)
AboveInLane(rank, m, n) == rank[m] < rank[n]

(* Lanes are numbered from the top. *)
Above(rank, m, n) ==
    KeyLess(<<graph.nodes[m].lane, rank[m]>>, <<graph.nodes[n].lane, rank[n]>>)

(* Where around its end an edge arrives: clockwise from the top, starting   *)
(* with flows from above in the same layer; group 8 is not covered.         *)
IncomingKey(rank, e) ==
    LET from == From(graph, e)
        to == To(graph, e)
        above == Above(rank, graph.edges[e].from, graph.edges[e].to)
        below == Above(rank, graph.edges[e].to, graph.edges[e].from)
        height == rank[graph.edges[e].from]
    IN CASE SamePool(graph, e) /\ from.layer = to.layer /\ above ->
                <<1, 0, 0, -from.lane, -height>>
         [] from.pool < to.pool /\ from.layer >= to.layer ->
                <<2, -from.pool, -from.layer, from.lane, height>>
         [] from.pool < to.pool /\ from.layer < to.layer ->
                <<3, from.pool, -from.layer, from.lane, height>>
         [] SamePool(graph, e) /\ from.layer + 1 = to.layer ->
                <<4, 0, 0, from.lane, height>>
         [] from.pool > to.pool /\ from.layer < to.layer ->
                <<5, from.pool, from.layer, from.lane, height>>
         [] from.pool > to.pool /\ from.layer >= to.layer ->
                <<6, -from.pool, from.layer, from.lane, height>>
         [] SamePool(graph, e) /\ from.layer = to.layer /\ below ->
                <<7, 0, 0, -from.lane, -height>>
         [] OTHER -> <<8, 0, 0, 0, 0>>

OutgoingKey(rank, e) ==
    LET from == From(graph, e)
        to == To(graph, e)
        above == Above(rank, graph.edges[e].to, graph.edges[e].from)
        below == Above(rank, graph.edges[e].from, graph.edges[e].to)
        height == rank[graph.edges[e].to]
    IN CASE SamePool(graph, e) /\ from.layer = to.layer /\ above ->
                <<1, 0, 0, -to.lane, -height>>
         [] to.pool < from.pool -> <<3, to.layer, to.pool, to.lane, height>>
         [] SamePool(graph, e) /\ to.layer = from.layer + 1 -> <<4, 0, 0, to.lane, height>>
         [] to.pool > from.pool -> <<5, -to.layer, to.pool, to.lane, height>>
         [] SamePool(graph, e) /\ from.layer = to.layer /\ below ->
                <<7, 0, 0, -to.lane, -height>>
         [] OTHER -> <<8, 0, 0, 0, 0>>

InsertedByKey(s, e, key) ==
    InsertAt(s, Cardinality({i \in DOMAIN s : ~KeyLess(key[e], key[s[i]])}) + 1, e)

SortedByKey(s, key) ==
    LET sorted[i \in 0..Len(s)] ==
            IF i = 0 THEN <<>> ELSE InsertedByKey(sorted[i - 1], s[i], key)
    IN sorted[Len(s)]

(* A list of one edge is not looked at. *)
Unsortable(s, key) ==
    Len(s) > 1 /\ ~ \A i \in DOMAIN s : s[i] \in DOMAIN key /\ key[s[i]][1] # 8

SortEdges ==
    /\ phase = "edges"
    /\ LET rank == Rank(graph)
           in == [e \in DOMAIN graph.edges |-> IncomingKey(rank, e)]
           out == [e \in DOMAIN graph.edges |-> OutgoingKey(rank, e)]
           node == graph.nodes[at]
       IN \/ /\ at > Len(graph.nodes)
             /\ phase' = "ports" /\ at' = 1 /\ UNCHANGED <<parsed, graph, before, saved>>
          \/ /\ at <= Len(graph.nodes)
             /\ Unsortable(node.incoming, in) \/ Unsortable(node.outgoing, out)
             /\ CrossingPanic
          \/ /\ at <= Len(graph.nodes)
             /\ ~Unsortable(node.incoming, in) /\ ~Unsortable(node.outgoing, out)
             /\ graph' = [graph EXCEPT
                    !.nodes[at].incoming = IF Len(@) > 1 THEN SortedByKey(@, in) ELSE @,
                    !.nodes[at].outgoing = IF Len(@) > 1 THEN SortedByKey(@, out) ELSE @]
             /\ at' = at + 1 /\ UNCHANGED <<parsed, phase, before, saved>>

-----------------------------------------------------------------------------

CrossingWork == Reroute \/ OrderLayer \/ PlaceLoneData \/ Undo \/ SortEdges

CrossingTerminated == phase \in {"ports", "panic"} /\ UNCHANGED crossingVars

CrossingNext == LayOut \/ CrossingWork \/ CrossingTerminated

(* The phases run one after the other to their ends. *)
CrossingSpec == CrossingInit /\ [][CrossingNext]_crossingVars /\ WF_crossingVars(CrossingNext)

-----------------------------------------------------------------------------
(* Properties *)

Done == phase \in {"edges", "ports"}

SameBag(s, t) == \A x \in ToSet(s) \union ToSet(t) : Count(s, x) = Count(t, x)

(* What rerouting does to the edges is undone: edges and their lists are    *)
(* those of before, but for the order of the lists.                         *)
UndoRestores ==
    Done => /\ graph.edges = before.edges
            /\ \A n \in DOMAIN before.nodes :
                  /\ SameBag(graph.nodes[n].incoming, before.nodes[n].incoming)
                  /\ SameBag(graph.nodes[n].outgoing, before.nodes[n].outgoing)

(* Right of layer 0 an edge that is listed again is popped by a later edge  *)
(* with the same end.                                                       *)
Entangled ==
    \E i, j \in DOMAIN saved :
        LET end == saved[i].edge.to
        IN /\ i < j /\ before.nodes[end].layer > 0
           /\ end \in {saved[j].edge.from, saved[j].edge.to}

(* Nothing else gets lost: the undo works if, and only if, no edge that is  *)
(* undone shares its end with one that is undone later.                     *)
OnlyEntangledEdgesAreLost == Done => (UndoRestores <=> ~Entangled)

(* The assertions, unwraps and indices of the layout up to here fail on     *)
(* three kinds of files only: with sequence flows in a circle, with         *)
(* entangled edges, and with neighbours that have one remote end.           *)
PanicsAreKnown ==
    phase = "panic" => Cyclic(parsed) \/ SharedRemote(before) \/ Entangled

(* At the end every column is one list from top to bottom: a node and the  *)
(* one below it name each other, and nothing else is in it; the temporary   *)
(* nodes have left it.                                                      *)
Column(g, n) == <<Place(g.nodes[n]), g.nodes[n].layer>>

InColumn(g, n) == {m \in DOMAIN g.nodes : Column(g, m) = Column(g, n)}

IsLinkedList(g, S) ==
    /\ \A n \in S : {g.nodes[n].above, g.nodes[n].below} \subseteq S \union {0}
    /\ \E position \in [S -> 1..Cardinality(S)] :
          \A m, n \in S :
              /\ position[m] = position[n] => m = n
              /\ g.nodes[m].below = n <=> position[n] = position[m] + 1
              /\ g.nodes[n].above = m <=> position[n] = position[m] + 1

ColumnsAreLinkedLists ==
    Done => \A n \in DOMAIN graph.nodes : IsLinkedList(graph, InColumn(graph, n))

(* A lone data node is in the column of its neighbour, inputs above and     *)
(* outputs below it, with nothing but other such data between them.         *)
IsOutput(b, n) == b.nodes[n].outgoing = <<>>

OnlyNeighbour(b, n) ==
    IF IsOutput(b, n) THEN b.edges[b.nodes[n].incoming[1]].from
                      ELSE b.edges[b.nodes[n].outgoing[1]].to

LoneDataBesideNeighbour ==
    Done => LET rank == Rank(graph)
                lone == {n \in DOMAIN before.nodes : IsLoneData(before.nodes[n])}
            IN \A n \in lone :
                  LET next == OnlyNeighbour(before, n)
                      between == {m \in DOMAIN graph.nodes :
                                     /\ Column(graph, m) = Column(graph, n)
                                     /\ rank[m] \in (rank[n] + 1)..(rank[next] - 1)
                                                     \union (rank[next] + 1)..(rank[n] - 1)}
                  IN /\ Column(graph, n) = Column(graph, next)
                     /\ IsOutput(before, n) <=> rank[n] > rank[next]
                     /\ \A m \in between : m \in lone /\ OnlyNeighbour(before, m) = next

-----------------------------------------------------------------------------
(* The inductive invariant *)

Phases == {"layers", "data", "dummies", "sort"}
CrossingPhases == {"crossings", "order", "lone", "undo", "edges", "ports"}

(* Types: links and saved edges name what exists.                           *)
CrossingTypeOK ==
    /\ phase \in Phases \union CrossingPhases \union {"panic"}
    /\ at \in Nat
    /\ IsGraph(graph) /\ IsGraph(before)
    /\ \A n \in DOMAIN graph.nodes :
          {graph.nodes[n].above, graph.nodes[n].below} \subseteq 0..Len(graph.nodes)
    /\ saved \in Seq([id : DOMAIN before.edges, edge : ToSet(before.edges)])

(* Up to the phase the graph is that of LayerAssignment.                    *)
StartInv == phase \in Phases => LayersInv /\ before = graph /\ saved = <<>>

(* Nodes that were there before are in layers of the program, and all others *)
(* are temporary and go when the rerouting is undone.                        *)
KeptInv ==
    phase \in CrossingPhases =>
        /\ at >= 1 /\ EndsExist(before)
        /\ Len(before.nodes) <= Len(graph.nodes)
        /\ Done => Len(graph.nodes) = Len(before.nodes)
        /\ \A n \in DOMAIN graph.nodes :
              IF n \in DOMAIN before.nodes THEN graph.nodes[n].layer < graph.numLayers
              ELSE graph.nodes[n].kind = "Dummy"

(* Edges that the rerouting has not come to are as they were; those within   *)
(* a layer are listed.                                                       *)
ReroutingInv ==
    phase = "crossings" =>
        /\ Len(before.edges) <= Len(graph.edges)
        /\ \A e \in at..Len(before.edges) :
              /\ graph.edges[e] = before.edges[e]
              /\ From(graph, e).layer = To(graph, e).layer => graph.edges[e].type # "Replaced"

(* Until it is undone the graph hangs together, and lone data nodes are in   *)
(* the columns of their neighbours.                                          *)
WholeInv ==
    phase \in {"crossings", "order", "lone"} =>
        /\ EndsExist(graph) /\ Mirrored(graph) /\ LanesComplete(graph)
        /\ \A n \in DOMAIN graph.nodes, e \in DOMAIN graph.edges :
              IsData(graph.nodes[n]) /\ IsOnlyEdge(graph, n, e) =>
                  LET other == OtherEnd(graph.edges[e], n)
                  IN other < n /\ Column(graph, other) = Column(graph, n)

(* The nodes that have got their neighbours, layer by layer and then lone    *)
(* data by lone data, are linked in their columns; the others are not.       *)
LinkedNodes ==
    {n \in DOMAIN graph.nodes :
        /\ phase # "crossings" /\ graph.nodes[n].layer < graph.numLayers
        /\ phase = "order" => ~IsLoneData(graph.nodes[n]) /\ graph.nodes[n].layer + 1 < at
        /\ phase = "lone" /\ IsLoneData(graph.nodes[n]) => n < at}

LinksInv ==
    phase \in CrossingPhases =>
        /\ \A S \in {InColumn(graph, n) \intersect LinkedNodes : n \in LinkedNodes} :
              IsLinkedList(graph, S)
        /\ \A n \in DOMAIN graph.nodes \ LinkedNodes :
              graph.nodes[n].above = 0 /\ graph.nodes[n].below = 0

CrossingInv ==
    CrossingTypeOK /\ StartInv /\ KeptInv /\ ReroutingInv /\ WholeInv /\ LinksInv

-----------------------------------------------------------------------------
(* How much of the rerouting stands: the edges saved in s are rerouted in g, *)
(* which was b before, but for those in the positions U, which are undone.   *)

(* An edge within a layer that its ends list.                               *)
RunsWithin(b, e) ==
    b.edges[e].type # "Replaced" /\ From(b, e).layer = To(b, e).layer /\ SamePool(b, e)

SavedFit(s, b) ==
    /\ \A i \in DOMAIN s :
          /\ s[i].id \in DOMAIN b.edges /\ s[i].edge = b.edges[s[i].id] /\ RunsWithin(b, s[i].id)
    /\ \A i, j \in DOMAIN s : i < j => s[i].id < s[j].id

(* Those that have got a node on the left, too; those that lead to node n;  *)
(* and those that have it reached from a node on the left.                  *)
HasLeftIn(b, s, i) == b.nodes[s[i].edge.to].layer > 0

WithLeftIn(b, s) == {i \in DOMAIN s : HasLeftIn(b, s, i)}

LeavesIn(s, U, n) == {i \in DOMAIN s \ U : s[i].edge.to = n}

FromLeftIn(b, s, U, n) ==
    {i \in DOMAIN s \ U : HasLeftIn(b, s, i) /\ n \in {s[i].edge.from, s[i].edge.to}}

(* Rerouting adds an edge, or three, and changes no edge but the one it is  *)
(* for.                                                                     *)
EdgesFit(g, b, s, U) ==
    /\ Len(g.edges) = Len(b.edges) + Len(s) + 2 * Cardinality(WithLeftIn(b, s))
    /\ \A e \in DOMAIN b.edges \ {s[i].id : i \in DOMAIN s \ U} : g.edges[e] = b.edges[e]

(* A node is left by c more edges, which end its list.                      *)
OutgoingFits(out, old, c) ==
    /\ out \in Seq(Nat) /\ old \in Seq(Nat) /\ c \in Nat /\ Len(out) = Len(old) + c
    /\ \A p \in DOMAIN old : out[p] = old[p]

(* Of m edges those of T do not reach it, and q others end its list: unless *)
(* edges are entangled, in which case what is popped may be any edge.       *)
OnTop(s, q, m) ==
    /\ s \in Seq(Nat) /\ q \in Nat /\ q <= Len(s)
    /\ \A p \in DOMAIN s : s[p] \in 1..m <=> p <= Len(s) - q

IncomingFits(in, old, T, q, m) ==
    /\ OnTop(in, q, m)
    /\ \A e \in 1..m : Count(in, e) = IF e \in T THEN 0 ELSE Count(old, e)

EntangledIn(b, s) ==
    \E i, j \in DOMAIN s :
        i < j /\ HasLeftIn(b, s, i) /\ s[i].edge.to \in {s[j].edge.from, s[j].edge.to}

ListsFit(g, b, s, U, n) ==
    /\ OutgoingFits(g.nodes[n].outgoing, b.nodes[n].outgoing, Cardinality(LeavesIn(s, U, n)))
    /\ ~EntangledIn(b, s) =>
          IncomingFits(g.nodes[n].incoming, b.nodes[n].incoming, {s[i].id : i \in LeavesIn(s, U, n)},
                       Cardinality(FromLeftIn(b, s, U, n)), Len(b.edges))

(* An edge that is undone is the last at its end until another one there is *)
(* undone, which takes it away.                                             *)
LaterIn(s, i) == {j \in DOMAIN s : i < j /\ s[i].edge.to \in {s[j].edge.from, s[j].edge.to}}

LostFits(g, b, s, U, i) ==
    LET in == g.nodes[s[i].edge.to].incoming
        id == s[i].id
    IN /\ i \notin U => Count(in, id) = 0
       /\ i \in U /\ HasLeftIn(b, s, i) =>
             IF LaterIn(s, i) \intersect U # {} THEN Count(in, id) = 0
             ELSE in # <<>> /\ Last(in) = id /\ Count(in, id) = 1

Fits(g, b, s, U) ==
    /\ SavedFit(s, b) /\ EdgesFit(g, b, s, U)
    /\ \A n \in DOMAIN b.nodes : ListsFit(g, b, s, U, n)
    /\ \A i \in DOMAIN s : LostFits(g, b, s, U, i)

(* When all are undone and what was added is gone.                          *)
FinallyFits(g, b, s) ==
    /\ SavedFit(s, b) /\ g.edges = b.edges
    /\ \A n \in DOMAIN b.nodes :
          /\ SameBag(g.nodes[n].outgoing, b.nodes[n].outgoing)
          /\ ~EntangledIn(b, s) => SameBag(g.nodes[n].incoming, b.nodes[n].incoming)
    /\ \A i \in WithLeftIn(b, s) :
          LaterIn(s, i) # {} => Count(g.nodes[s[i].edge.to].incoming, s[i].id) = 0

(* Edges join two nodes.                                                    *)
EndsDiffer(b) == \A e \in DOMAIN b.edges : b.edges[e].from # b.edges[e].to

(* Nodes stay where they were.                                              *)
NodesStay(g, b) ==
    \A n \in DOMAIN b.nodes :
        /\ g.nodes[n].kind = b.nodes[n].kind /\ g.nodes[n].layer = b.nodes[n].layer
        /\ Place(g.nodes[n]) = Place(b.nodes[n])

UndoInv ==
    /\ phase \notin {"layers", "panic"} => EndsDiffer(before)
    /\ phase \in CrossingPhases =>
          /\ Mirrored(before) /\ NodesStay(graph, before)
          /\ phase = "crossings" => \A i \in DOMAIN saved : saved[i].id < at
          /\ phase = "undo" => at <= Len(saved) + 1
          /\ IF Done THEN FinallyFits(graph, before, saved)
             ELSE Fits(graph, before, saved, IF phase = "undo" THEN 1..(at - 1) ELSE {})

(* Lone data nodes are in the columns of their neighbours, and their edges   *)
(* are not rerouted.                                                        *)
HasLoneEnd(b, edge) == IsLoneData(b.nodes[edge.from]) \/ IsLoneData(b.nodes[edge.to])

LoneBesideOthers(b) ==
    \A n \in DOMAIN b.nodes : IsLoneData(b.nodes[n]) =>
        LET next == OnlyNeighbour(b, n)
        IN next \in DOMAIN b.nodes /\ ~IsLoneData(b.nodes[next]) /\ Column(b, next) = Column(b, n)

LoneListsKept(g, b) ==
    \A n \in DOMAIN b.nodes : IsLoneData(g.nodes[n]) \/ IsLoneData(b.nodes[n]) =>
        g.nodes[n].incoming = b.nodes[n].incoming /\ g.nodes[n].outgoing = b.nodes[n].outgoing

(* What is next to a lone data node on the side of its neighbour is this     *)
(* neighbour, or another one that is there for the same reason.             *)
Alike(b, n) ==
    {m \in DOMAIN b.nodes :
        /\ IsLoneData(b.nodes[m])
        /\ OnlyNeighbour(b, m) = OnlyNeighbour(b, n) /\ (IsOutput(b, m) <=> IsOutput(b, n))}

IsBesideAlike(g, b, n) ==
    (IF IsOutput(b, n) THEN g.nodes[n].above ELSE g.nodes[n].below)
        \in {OnlyNeighbour(b, n)} \union Alike(b, n)

LoneDataInv ==
    phase \in CrossingPhases =>
        /\ LoneBesideOthers(before)
        /\ \A i \in DOMAIN saved : ~HasLoneEnd(before, saved[i].edge)
        /\ phase \in {"crossings", "order", "lone"} => LoneListsKept(graph, before)
        /\ \A n \in LinkedNodes \intersect DOMAIN before.nodes :
              IsLoneData(before.nodes[n]) => IsBesideAlike(graph, before, n)

(* Only message flows join pools, and dummy edges are over one layer.       *)
KnownFlows(b) ==
    \A e \in DOMAIN b.edges :
        /\ b.edges[e].flow = "message" => b.edges[e].type = "Regular"
        /\ b.edges[e].type = "Regular" => (b.edges[e].flow = "message" <=> ~SamePool(b, e))
        /\ b.edges[e].type = "Dummy" => To(b, e).layer = From(b, e).layer + 1

IsShort(b, e) ==
    b.edges[e].type # "Replaced" /\ SamePool(b, e) => To(b, e).layer - From(b, e).layer \in {0, 1}

(* An edge that the rerouting has come to is over one layer, if it is in the *)
(* integer program.                                                         *)
IsSettled(g, b, e) ==
    IF g.edges[e].flow = "message" THEN e \in DOMAIN b.edges /\ g.edges[e] = b.edges[e]
    ELSE \/ g.edges[e].type = "Replaced"
         \/ To(g, e).layer = From(g, e).layer + 1
         \/ e \in DOMAIN b.edges /\ g.edges[e] = b.edges[e] /\ HasLoneEnd(b, b.edges[e])

ShortInv ==
    /\ phase \notin {"layers", "data", "panic"} => KnownFlows(before)
    /\ phase \in CrossingPhases => \A e \in DOMAIN before.edges : IsShort(before, e)
    /\ phase \in {"crossings", "order"} =>
          \A e \in DOMAIN graph.edges :
              \/ IsSettled(graph, before, e)
              \/ phase = "crossings" /\ e \in at..Len(before.edges)

OutcomeInv == CrossingInv /\ UndoInv /\ LoneDataInv /\ ShortInv /\ PanicsAreKnown
=============================================================================
