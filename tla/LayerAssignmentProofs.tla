------------------------ MODULE LayerAssignmentProofs ------------------------
(***************************************************************************)
(* The first layout phases keep the invariant LayersInv, for every set of  *)
(* files: the lists of edges and the lanes stay complete, sequence flows   *)
(* in a circle are the only reason to panic, data nodes are placed so that *)
(* no edge of a pool points to the left, and long edges become chains.     *)
(***************************************************************************)
EXTENDS LayerAssignment, BpmnGraphProofs

-----------------------------------------------------------------------------
(* The graph of a file *)

(* The graphs whose lanes are P.                                            *)
GraphsOn(P) ==
    [nodes : Seq(GraphNodes), edges : Seq(GraphEdges), lanes : [P -> Seq(Nat)], numLayers : Nat]

(* They are the graphs with these lanes.                                     *)
LEMMA GraphsOnLanes ==
    ASSUME NEW P, NEW g
    PROVE  g \in GraphsOn(P) <=> IsGraph(g) /\ DOMAIN g.lanes = P
<1>1. PICK N, E, L : N = Seq(GraphNodes) /\ E = Seq(GraphEdges) /\ L = Seq(Nat)
  OBVIOUS
<1>2. GraphsOn(P) = [nodes : N, edges : E, lanes : [P -> L], numLayers : Nat]
  BY <1>1 DEF GraphsOn
<1>3. IsGraph(g) <=> g \in [nodes : N, edges : E, lanes : [DOMAIN g.lanes -> L], numLayers : Nat]
  BY <1>1 DEF IsGraph
<1>4. ASSUME g \in GraphsOn(P)
      PROVE  IsGraph(g) /\ DOMAIN g.lanes = P
  <2>1. DOMAIN g.lanes = P
    BY <1>2, <1>4
  <2> QED
    BY <1>2, <1>3, <1>4, <2>1
<1>5. ASSUME IsGraph(g), DOMAIN g.lanes = P
      PROVE  g \in GraphsOn(P)
  BY <1>2, <1>3, <1>5
<1> QED
  BY <1>4, <1>5

(* The graph after the first i edges of a file were added to it.            *)
PartlyBuilt(file, g, i) ==
    /\ EndsExist(g) /\ LanesComplete(g) /\ MirroredBut(g, 0)
    /\ Len(g.edges) = i /\ \A e \in 1..i : g.edges[e] = ParsedEdge(file.edges[e])
    /\ DOMAIN g.nodes = DOMAIN file.nodes
    /\ \A n \in DOMAIN file.nodes :
          SameNode(g.nodes[n], NewNode(file.nodes[n].kind, Place(file.nodes[n]), 0))

(* What parsing makes sure of, in parts.                                    *)
LEMMA ParsedParts ==
    ASSUME NEW file, IsParsed(file)
    PROVE  /\ DOMAIN file.nodes = 1..Len(file.nodes) /\ Len(file.nodes) \in Nat
           /\ DOMAIN file.edges = 1..Len(file.edges) /\ Len(file.edges) \in Nat
           /\ \A n \in DOMAIN file.nodes :
                 /\ file.nodes[n].kind \in {"Event", "Gateway", "Task", "Data"}
                 /\ Place(file.nodes[n]) \in Nat \X Nat
                 /\ Place(file.nodes[n]) \in file.lanes
           /\ \A e \in DOMAIN file.edges :
                 /\ file.edges[e].from \in DOMAIN file.nodes /\ file.edges[e].to \in DOMAIN file.nodes
                 /\ file.edges[e].flow \in {"sequence", "message", "data"}
                 /\ file.edges[e].boundary \in BOOLEAN
<1>1. PICK N, F : /\ N = [kind : {"Event", "Gateway", "Task", "Data"}, pool : Nat, lane : Nat]
                  /\ F = [from : DOMAIN file.nodes, to : DOMAIN file.nodes,
                          flow : {"sequence", "message", "data"}, boundary : BOOLEAN]
  OBVIOUS
<1>2. file.nodes \in Seq(N) /\ file.edges \in Seq(F)
  BY <1>1 DEF IsParsed
<1>3. /\ DOMAIN file.nodes = 1..Len(file.nodes) /\ Len(file.nodes) \in Nat
      /\ DOMAIN file.edges = 1..Len(file.edges) /\ Len(file.edges) \in Nat
      /\ \A n \in DOMAIN file.nodes : file.nodes[n] \in N
      /\ \A e \in DOMAIN file.edges : file.edges[e] \in F
  BY <1>2
<1>4. \A n \in DOMAIN file.nodes :
         /\ file.nodes[n].kind \in {"Event", "Gateway", "Task", "Data"}
         /\ Place(file.nodes[n]) \in Nat \X Nat
  BY <1>1, <1>3 DEF Place
<1>5. \A e \in DOMAIN file.edges :
         /\ file.edges[e].from \in DOMAIN file.nodes /\ file.edges[e].to \in DOMAIN file.nodes
         /\ file.edges[e].flow \in {"sequence", "message", "data"}
         /\ file.edges[e].boundary \in BOOLEAN
  BY <1>1, <1>3
<1>6. \A n \in DOMAIN file.nodes : Place(file.nodes[n]) \in file.lanes
  BY DEF IsParsed
<1> QED
  BY <1>3, <1>4, <1>5, <1>6

(* A parsed edge is an edge of a graph.                                     *)
LEMMA ParsedEdgeIsEdge ==
    ASSUME NEW edge, edge.from \in Nat, edge.to \in Nat,
           edge.flow \in {"sequence", "message", "data"}, edge.boundary \in BOOLEAN
    PROVE  /\ ParsedEdge(edge) \in GraphEdges
           /\ ParsedEdge(edge).from = edge.from /\ ParsedEdge(edge).to = edge.to
           /\ ParsedEdge(edge).flow = edge.flow /\ ParsedEdge(edge).boundary = edge.boundary
           /\ ParsedEdge(edge).type = "Regular" /\ ParsedEdge(edge).reversed = FALSE
BY DEF ParsedEdge, RegularEdge, GraphEdges

(* The first k numbers, each once.                                          *)
LEMMA CountFirst ==
    ASSUME NEW k \in Nat, NEW s, s = [n \in 1..k |-> n]
    PROVE  s \in Seq(Nat) /\ \A n \in 1..k : Count(s, n) = 1
<1>1. s \in [1..k -> Nat] /\ DOMAIN s = 1..k
  OBVIOUS
<1>2. s \in Seq(Nat)
  BY <1>1, FunctionIsSeq
<1>3. ASSUME NEW n \in 1..k
      PROVE  Count(s, n) = 1
  <2>1. {i \in DOMAIN s : s[i] = n} = {n}
    OBVIOUS
  <2> QED
    BY <2>1, FS_Singleton DEF Count
<1> QED
  BY <1>2, <1>3

(* The nodes of a file, before there are edges.                             *)
LEMMA UnconnectedIsBuilt ==
    ASSUME NEW file, IsParsed(file)
    PROVE  Unconnected(file) \in GraphsOn(file.lanes) /\ PartlyBuilt(file, Unconnected(file), 0)
<1>1. PICK k \in Nat : k = Len(file.nodes) /\ DOMAIN file.nodes = 1..k
  BY ParsedParts
<1>2. PICK nodes : nodes = [n \in 1..k |-> NewNode(file.nodes[n].kind, Place(file.nodes[n]), 0)]
  OBVIOUS
<1>3. PICK lanes : lanes = [place \in file.lanes |->
                              Retained([n \in 1..k |-> n], {n \in 1..k : Place(file.nodes[n]) = place})]
  OBVIOUS
<1>4. Unconnected(file) = [nodes |-> nodes, edges |-> <<>>, lanes |-> lanes, numLayers |-> 0]
  BY <1>1, <1>2, <1>3 DEF Unconnected
<1>5. ASSUME NEW n \in 1..k
      PROVE  /\ nodes[n] \in GraphNodes /\ Place(nodes[n]) = Place(file.nodes[n])
             /\ nodes[n].incoming = <<>> /\ nodes[n].outgoing = <<>>
  <2>1. nodes[n] = NewNode(file.nodes[n].kind, Place(file.nodes[n]), 0)
    BY <1>2
  <2>2. PICK kind \in {"Event", "Gateway", "Task", "Data", "Dummy"}, place \in Nat \X Nat :
           kind = file.nodes[n].kind /\ place = Place(file.nodes[n])
    BY <1>1, ParsedParts
  <2>3. PICK layer \in Nat : layer = 0
    OBVIOUS
  <2>4. nodes[n] = NewNode(kind, place, layer)
    BY <2>1, <2>2, <2>3
  <2>5. IsNewNode(nodes[n], kind, place, layer)
    BY <2>4, NewNodeIsNode
  <2> QED
    BY <2>2, <2>5 DEF IsNewNode
<1>6. nodes \in Seq(GraphNodes) /\ DOMAIN nodes = 1..k /\ Len(nodes) = k
  <2>1. PICK N : N = GraphNodes
    OBVIOUS
  <2>2. nodes \in [1..k -> N]
    BY <1>2, <1>5, <2>1
  <2> QED
    BY <2>1, <2>2, FunctionIsSeq
<1>7. ASSUME NEW place \in file.lanes
      PROVE  /\ lanes[place] \in Seq(Nat) /\ ToSet(lanes[place]) \subseteq 1..k
             /\ \A n \in 1..k : Count(lanes[place], n) = IF Place(nodes[n]) = place THEN 1 ELSE 0
  <2>1. PICK all, T : all = [n \in 1..k |-> n] /\ T = {n \in 1..k : Place(file.nodes[n]) = place}
    OBVIOUS
  <2>2. all \in Seq(Nat) /\ \A n \in 1..k : Count(all, n) = 1
    BY <2>1, CountFirst
  <2>3. lanes[place] = Retained(all, T)
    BY <1>3, <2>1
  <2>4. Retained(all, T) \in Seq(Nat) /\ \A n : Count(Retained(all, T), n) = IF n \in T THEN Count(all, n) ELSE 0
    BY <2>2, CountRetained
  <2>5. ToSet(Retained(all, T)) = ToSet(all) \cap T
    BY <2>2, RetainedMembers
  <2> QED
    BY <1>5, <2>1, <2>2, <2>3, <2>4, <2>5
<1>8. lanes \in [file.lanes -> Seq(Nat)]
  <2>1. PICK L : L = Seq(Nat)
    OBVIOUS
  <2>2. \A place \in file.lanes : lanes[place] \in L
    BY <1>7, <2>1
  <2>3. lanes \in [file.lanes -> L]
    BY <1>3, <2>2
  <2> QED
    BY <2>1, <2>3
<1>9. PICK g : g = Unconnected(file)
  OBVIOUS
<1>10. g.nodes = nodes /\ g.edges = <<>> /\ g.lanes = lanes /\ g.numLayers = 0
  BY <1>4, <1>9
<1>11. <<>> \in Seq(GraphEdges) /\ Len(<<>>) = 0 /\ DOMAIN <<>> = {}
  OBVIOUS
<1>12. g \in GraphsOn(file.lanes)
  <2>1. PICK N, E, L : N = Seq(GraphNodes) /\ E = Seq(GraphEdges) /\ L = [file.lanes -> Seq(Nat)]
    OBVIOUS
  <2>2. g \in [nodes : N, edges : E, lanes : L, numLayers : Nat]
    BY <1>4, <1>6, <1>8, <1>9, <1>11, <2>1
  <2> QED
    BY <2>1, <2>2 DEF GraphsOn
<1>13. EndsExist(g)
  <2>1. \A n \in DOMAIN nodes : Place(nodes[n]) \in file.lanes
    BY <1>1, <1>5, <1>6, ParsedParts
  <2>2. DOMAIN lanes = file.lanes
    BY <1>3
  <2> QED
    BY <1>10, <1>11, <2>1, <2>2 DEF EndsExist
<1>14. LanesComplete(g)
  <2>1. DOMAIN lanes = file.lanes
    BY <1>3
  <2> QED
    BY <1>6, <1>7, <1>10, <2>1 DEF LanesComplete
<1>15. MirroredBut(g, 0)
  <2>1. ToSet(<<>>) = {}
    BY DEF ToSet
  <2> QED
    BY <1>5, <1>6, <1>10, <1>11, <2>1 DEF MirroredBut
<1>16. PartlyBuilt(file, g, 0)
  <2>1. \A n \in DOMAIN file.nodes :
           SameNode(g.nodes[n], NewNode(file.nodes[n].kind, Place(file.nodes[n]), 0))
    BY <1>1, <1>2, <1>10 DEF SameNode
  <2>2. DOMAIN g.nodes = DOMAIN file.nodes /\ Len(g.edges) = 0
    BY <1>1, <1>6, <1>10, <1>11
  <2> QED
    BY <1>13, <1>14, <1>15, <2>1, <2>2 DEF PartlyBuilt
<1> QED
  BY <1>9, <1>12, <1>16

(* Adding the next edge of the file.                                        *)
LEMMA AddParsedEdge ==
    ASSUME NEW file, IsParsed(file), NEW i \in 1..Len(file.edges),
           NEW g, g \in GraphsOn(file.lanes), PartlyBuilt(file, g, i - 1),
           NEW r, r = AddEdge(g, ParsedEdge(file.edges[i]))
    PROVE  r \in GraphsOn(file.lanes) /\ PartlyBuilt(file, r, i)
<1>1. IsGraph(g) /\ DOMAIN g.lanes = file.lanes
  BY GraphsOnLanes
<1>2. PICK edge : edge = ParsedEdge(file.edges[i])
  OBVIOUS
<1>3. /\ edge \in GraphEdges /\ edge.from \in DOMAIN g.nodes /\ edge.to \in DOMAIN g.nodes
      /\ edge.type = "Regular"
  <2>1. PICK new : new = file.edges[i]
    OBVIOUS
  <2>2. i \in DOMAIN file.edges
    BY ParsedParts
  <2>3. /\ new.from \in DOMAIN file.nodes /\ new.to \in DOMAIN file.nodes
        /\ new.flow \in {"sequence", "message", "data"} /\ new.boundary \in BOOLEAN
    BY <2>1, <2>2, ParsedParts
  <2>4. DOMAIN g.nodes = DOMAIN file.nodes /\ DOMAIN file.nodes \subseteq Nat
    BY ParsedParts DEF PartlyBuilt
  <2> QED
    BY <1>2, <2>1, <2>3, <2>4, ParsedEdgeIsEdge
<1>4. IsGraph(r) /\ EdgeAdded(r, g, edge)
  BY <1>1, <1>2, <1>3, AddEdgeEffect
<1>5. EndsExist(r) /\ SamePlaces(r, g) /\ LanesComplete(r)
  <2>1. EndsExist(g) /\ LanesComplete(g)
    BY DEF PartlyBuilt
  <2>2. EndsExist(r) /\ SamePlaces(r, g)
    BY <1>1, <1>3, <1>4, <2>1, AddEdgeEnds
  <2> QED
    BY <2>1, <2>2, SamePlacesKeepLanes
<1>6. MirroredBut(r, 0)
  <2>1. MirroredBut(g, 0) /\ edge.type # "Replaced"
    BY <1>3 DEF PartlyBuilt
  <2> QED
    BY <1>1, <1>3, <1>4, <2>1, AddEdgeMirrored
<1>7. Len(r.edges) = i /\ \A e \in 1..i : r.edges[e] = ParsedEdge(file.edges[e])
  <2>1. PICK E : E = GraphEdges
    OBVIOUS
  <2>2. g.edges \in Seq(E) /\ edge \in E /\ r.edges = Append(g.edges, edge)
    BY <1>1, <1>3, <1>4, <2>1, GraphParts DEF EdgeAdded
  <2>3. Len(g.edges) = i - 1 /\ \A e \in 1..(i - 1) : g.edges[e] = ParsedEdge(file.edges[e])
    BY DEF PartlyBuilt
  <2>4. Len(file.edges) \in Nat
    BY ParsedParts
  <2> QED
    BY <1>2, <2>2, <2>3, <2>4
<1>8. DOMAIN r.nodes = DOMAIN file.nodes
  BY <1>5 DEF PartlyBuilt, SamePlaces
<1>9. \A n \in DOMAIN file.nodes :
         SameNode(r.nodes[n], NewNode(file.nodes[n].kind, Place(file.nodes[n]), 0))
  BY <1>5 DEF PartlyBuilt, SamePlaces, SameNode
<1>10. r \in GraphsOn(file.lanes)
  <2>1. DOMAIN r.lanes = file.lanes
    BY <1>1, <1>5 DEF SamePlaces
  <2> QED
    BY <1>4, <2>1, GraphsOnLanes
<1> QED
  BY <1>5, <1>6, <1>7, <1>8, <1>9, <1>10 DEF PartlyBuilt

(* The graph of a file has its nodes, its edges and its lanes.              *)
LEMMA BuiltIsBuilt ==
    ASSUME NEW file, IsParsed(file)
    PROVE  Built(file) \in GraphsOn(file.lanes) /\ PartlyBuilt(file, Built(file), Len(file.edges))
<1>1. PICK m \in Nat : m = Len(file.edges)
  BY ParsedParts
<1> DEFINE add(i, g) == AddEdge(g, ParsedEdge(file.edges[i]))
           G == [i \in 0..m |-> {g \in GraphsOn(file.lanes) : PartlyBuilt(file, g, i)}]
           Is(built) == built = [e \in 0..m |-> IF e = 0 THEN Unconnected(file)
                                                ELSE AddEdge(built[e - 1], ParsedEdge(file.edges[e]))]
           next == [i \in 1..m |-> [g \in GraphsOn(file.lanes) |-> add(i, g)]]
<1>2. /\ \A i \in 0..m : \A g : g \in G[i] <=> g \in GraphsOn(file.lanes) /\ PartlyBuilt(file, g, i)
      /\ \A i \in 1..m : i \in 0..m /\ i - 1 \in 0..m /\ i # 0
  OBVIOUS
<1>3. \A i \in 1..m : \A g \in G[i - 1] : g \in GraphsOn(file.lanes) /\ next[i][g] = add(i, g)
  BY <1>2
<1> HIDE DEF G, next
<1>4. Unconnected(file) \in G[0]
  BY <1>2, UnconnectedIsBuilt
<1>5. \A i \in 1..m : \A g \in G[i - 1] : add(i, g) \in G[i]
  <2> SUFFICES ASSUME NEW i \in 1..m, NEW g, g \in G[i - 1]
               PROVE  add(i, g) \in G[i]
    OBVIOUS
  <2>1. g \in GraphsOn(file.lanes) /\ PartlyBuilt(file, g, i - 1) /\ i \in 1..Len(file.edges)
    BY <1>1, <1>2
  <2>2. PICK r : r = add(i, g)
    OBVIOUS
  <2>3. r \in GraphsOn(file.lanes) /\ PartlyBuilt(file, r, i)
    BY <2>1, <2>2, AddParsedEdge
  <2> QED
    BY <1>2, <2>2, <2>3
<1>6. \E built : Is(built)
  <2>1. Stages(m, G, Unconnected(file), next)
    BY <1>3, <1>4, <1>5 DEF Stages
  <2>2. PICK built : built \in UnfoldedIn(m, G, Unconnected(file), next)
    BY <2>1, StagesUnfold
  <2>3. /\ DOMAIN built = 0..m /\ built = [i \in 0..m |-> built[i]]
        /\ \A i \in 0..m : /\ built[i] \in G[i]
                           /\ built[i] = IF i = 0 THEN Unconnected(file) ELSE next[i][built[i - 1]]
    BY <2>2 DEF UnfoldedIn
  <2>4. \A i \in 0..m : built[i] = IF i = 0 THEN Unconnected(file) ELSE add(i, built[i - 1])
    <3>1. \A i \in 0..m : i # 0 => i \in 1..m /\ i - 1 \in 0..m
      OBVIOUS
    <3> HIDE DEF add
    <3> QED
      BY <1>3, <2>3, <3>1
  <2>5. Is(built)
    BY <2>3, <2>4
  <2> HIDE DEF Is
  <2> QED
    BY <2>5
<1>7. PICK built : Is(built) /\ Built(file) = built[m]
  <2>1. Built(file) = (CHOOSE built : Is(built))[m]
    BY <1>1 DEF Built
  <2> HIDE DEF Is
  <2> QED
    BY <1>6, <2>1
<1>8. built[0] = Unconnected(file) /\ \A i \in 1..m : built[i] = add(i, built[i - 1])
  <2>1. \A i \in 0..m : built[i] = IF i = 0 THEN Unconnected(file) ELSE add(i, built[i - 1])
    BY <1>7
  <2> HIDE DEF add
  <2> QED
    BY <1>2, <2>1
<1> HIDE DEF add, Is
<1>9. \A i \in 0..m : built[i] \in G[i]
  <2>1. \A i \in 1..m : built[i - 1] \in G[i - 1] => built[i] \in G[i]
    BY <1>5, <1>8
  <2>2. built[0] \in G[0]
    BY <1>4, <1>8
  <2> QED
    BY <2>1, <2>2, StagesHold
<1>10. m \in 0..m
  OBVIOUS
<1> QED
  BY <1>1, <1>2, <1>7, <1>9, <1>10

-----------------------------------------------------------------------------
(* The initial states *)

(* What is known of an edge before edges are split.                         *)
FlowFits(g, e) ==
    /\ g.edges[e].type = "Regular"
    /\ g.edges[e].flow = "sequence" => ~IsData(From(g, e)) /\ ~IsData(To(g, e))
    /\ g.edges[e].flow = "message" <=> ~SamePool(g, e)
    /\ g.edges[e].flow = "data" => /\ g.edges[e].from # g.edges[e].to
                                   /\ IsData(From(g, e)) \/ IsData(To(g, e))

(* The edges of a file are of one of three kinds, and nothing is placed.    *)
LEMMA BuiltFlowsFit ==
    ASSUME NEW file, IsParsed(file), NEW g, g = Built(file)
    PROVE  /\ \A e \in DOMAIN g.edges : FlowFits(g, e)
           /\ \A n \in DOMAIN g.nodes : /\ g.nodes[n].layer = 0 /\ ~g.nodes[n].half
                                        /\ g.nodes[n].above = 0 /\ g.nodes[n].below = 0
<1>1. g \in GraphsOn(file.lanes) /\ PartlyBuilt(file, g, Len(file.edges))
  BY BuiltIsBuilt
<1>2. ASSUME NEW n \in DOMAIN g.nodes
      PROVE  /\ g.nodes[n].kind = file.nodes[n].kind /\ g.nodes[n].pool = file.nodes[n].pool
             /\ g.nodes[n].layer = 0 /\ ~g.nodes[n].half
             /\ g.nodes[n].above = 0 /\ g.nodes[n].below = 0
  <2>1. n \in DOMAIN file.nodes
    BY <1>1 DEF PartlyBuilt
  <2>2. PICK kind \in {"Event", "Gateway", "Task", "Data", "Dummy"}, place \in Nat \X Nat, layer \in Nat :
           kind = file.nodes[n].kind /\ place = Place(file.nodes[n]) /\ layer = 0
    <3>1. 0 \in Nat
      OBVIOUS
    <3> QED
      BY <2>1, <3>1, ParsedParts
  <2>3. PICK node : node = NewNode(kind, place, layer)
    OBVIOUS
  <2>4. IsNewNode(node, kind, place, layer)
    BY <2>3, NewNodeIsNode
  <2>5. SameNode(g.nodes[n], node)
    BY <1>1, <2>1, <2>2, <2>3 DEF PartlyBuilt
  <2>6. place[1] = file.nodes[n].pool
    BY <2>2 DEF Place
  <2> QED
    BY <2>2, <2>4, <2>5, <2>6 DEF IsNewNode, SameNode
<1>3. ASSUME NEW e \in DOMAIN g.edges
      PROVE  FlowFits(g, e)
  <2>1. e \in DOMAIN file.edges /\ g.edges[e] = ParsedEdge(file.edges[e])
    <3>1. PICK E : E = GraphEdges
      OBVIOUS
    <3>2. IsGraph(g)
      BY <1>1, GraphsOnLanes
    <3>3. DOMAIN g.edges = 1..Len(g.edges)
      BY <3>2, GraphParts
    <3> QED
      BY <1>1, <3>3, ParsedParts DEF PartlyBuilt
  <2>2. PICK edge : edge = file.edges[e]
    OBVIOUS
  <2>3. /\ edge.from \in DOMAIN file.nodes /\ edge.to \in DOMAIN file.nodes
        /\ edge.flow \in {"sequence", "message", "data"} /\ edge.boundary \in BOOLEAN
    BY <2>1, <2>2, ParsedParts
  <2>4. edge.from \in Nat /\ edge.to \in Nat
    BY <2>3, ParsedParts
  <2>5. /\ g.edges[e].from = edge.from /\ g.edges[e].to = edge.to
        /\ g.edges[e].flow = edge.flow /\ g.edges[e].type = "Regular"
    BY <2>1, <2>2, <2>3, <2>4, ParsedEdgeIsEdge
  <2>6. edge.from \in DOMAIN g.nodes /\ edge.to \in DOMAIN g.nodes
    BY <1>1, <2>3 DEF PartlyBuilt
  <2>7. /\ From(g, e).kind = file.nodes[edge.from].kind /\ To(g, e).kind = file.nodes[edge.to].kind
        /\ From(g, e).pool = file.nodes[edge.from].pool /\ To(g, e).pool = file.nodes[edge.to].pool
    BY <1>2, <2>5, <2>6 DEF From, To
  <2>8. LET from == file.nodes[edge.from]
            to == file.nodes[edge.to]
        IN /\ edge.flow = "sequence" => ~IsData(from) /\ ~IsData(to)
           /\ edge.flow = "message" <=> from.pool # to.pool
           /\ edge.flow = "data" => edge.from # edge.to /\ (IsData(from) \/ IsData(to))
    BY <2>1, <2>2 DEF IsParsed
  <2> QED
    BY <2>5, <2>7, <2>8 DEF FlowFits, IsData, SamePool
<1> QED
  BY <1>2, <1>3

(* What is known of data node n if its only edge is e; `placed` says that   *)
(* the data node has its layer.                                             *)
LoneFits(g, placed, n, e) ==
    IsData(g.nodes[n]) /\ IsOnlyEdge(g, n, e) =>
        LET other == OtherEnd(g.edges[e], n)
        IN /\ other < n /\ Place(g.nodes[other]) = Place(g.nodes[n])
           /\ placed => g.nodes[other].layer = g.nodes[n].layer

HasLayer(n) ==
    \/ phase \in {"dummies", "sort", "crossings"}
    \/ phase = "data" /\ n < at

(* It is the invariant about lone data, also in the next state.             *)
LEMMA LoneInvIn ==
    /\ LoneInv <=> \A n \in DOMAIN graph.nodes, e \in DOMAIN graph.edges :
                      LoneFits(graph, HasLayer(n), n, e)
    /\ LoneInv' <=> \A n \in DOMAIN graph'.nodes, e \in DOMAIN graph'.edges :
                       LoneFits(graph', HasLayer(n)', n, e)
BY DEF LoneInv, LoneFits, HasLayer, IsData, IsOnlyEdge, OtherEnd, Place

(* Every data node of a file is joined with one that was there before.      *)
LEMMA InitDataNodes ==
    ASSUME Init
    PROVE  BoundInv /\ LoneInv
<1>1. PICK file \in Files : graph = Built(file)
  BY DEF Init
<1>2. IsParsed(file) /\ phase = "layers" /\ at = 1
  BY FilesAreParsed DEF Init
<1>3. graph \in GraphsOn(file.lanes) /\ PartlyBuilt(file, graph, Len(file.edges))
  BY <1>1, <1>2, BuiltIsBuilt
<1>4. /\ DOMAIN graph.nodes = DOMAIN file.nodes /\ DOMAIN graph.edges = DOMAIN file.edges
      /\ DOMAIN graph.nodes \subseteq Nat
      /\ \A e \in DOMAIN graph.edges : graph.edges[e] = ParsedEdge(file.edges[e])
  <2>1. IsGraph(graph)
    BY <1>3, GraphsOnLanes
  <2>2. DOMAIN graph.edges = 1..Len(graph.edges) /\ DOMAIN graph.nodes = 1..Len(graph.nodes)
    BY <2>1, GraphParts
  <2> QED
    BY <1>2, <1>3, <2>2, ParsedParts DEF PartlyBuilt
<1>5. ASSUME NEW n \in DOMAIN graph.nodes
      PROVE  /\ IsData(graph.nodes[n]) <=> IsData(file.nodes[n])
             /\ Place(graph.nodes[n]) = Place(file.nodes[n])
  <2>1. SameNode(graph.nodes[n], NewNode(file.nodes[n].kind, Place(file.nodes[n]), 0))
    BY <1>3, <1>4 DEF PartlyBuilt
  <2> QED
    BY <2>1 DEF SameNode, NewNode, Place, IsData
<1>6. ASSUME NEW e \in DOMAIN graph.edges
      PROVE  /\ graph.edges[e].from = file.edges[e].from /\ graph.edges[e].to = file.edges[e].to
             /\ graph.edges[e].type # "Replaced"
             /\ file.edges[e].from \in DOMAIN graph.nodes /\ file.edges[e].to \in DOMAIN graph.nodes
  <2>1. file.edges[e].from \in DOMAIN graph.nodes /\ file.edges[e].to \in DOMAIN graph.nodes
    BY <1>2, <1>4, ParsedParts
  <2>2. PICK edge : edge = file.edges[e] /\ graph.edges[e] = ParsedEdge(edge)
    BY <1>4
  <2> QED
    BY <2>1, <2>2 DEF ParsedEdge, RegularEdge
<1>7. ASSUME NEW n \in DOMAIN graph.nodes, IsData(graph.nodes[n])
      PROVE  \E e \in EdgesAt(file, n) :
                LET recipient == OtherEnd(file.edges[e], n)
                IN /\ recipient < n /\ recipient \in DOMAIN graph.nodes
                   /\ EdgesAt(file, n) = {e} => Place(file.nodes[recipient]) = Place(file.nodes[n])
  <2>1. PICK e \in EdgesAt(file, n) :
           LET recipient == OtherEnd(file.edges[e], n)
           IN /\ recipient < n
              /\ EdgesAt(file, n) = {e} => Place(file.nodes[recipient]) = Place(file.nodes[n])
    BY <1>2, <1>4, <1>5, <1>7 DEF IsParsed
  <2>2. OtherEnd(file.edges[e], n) \in DOMAIN graph.nodes
    BY <1>4, <1>6 DEF EdgesAt, OtherEnd
  <2> QED
    BY <2>1, <2>2
<1>8. ASSUME NEW n \in DOMAIN graph.nodes, NEW e \in DOMAIN graph.edges
      PROVE  LoneFits(graph, HasLayer(n), n, e)
  <2> SUFFICES ASSUME IsData(graph.nodes[n]), IsOnlyEdge(graph, n, e)
               PROVE  LoneFits(graph, HasLayer(n), n, e)
    BY DEF LoneFits
  <2>1. EdgesAt(file, n) = {e}
    BY <1>4, <1>6 DEF EdgesAt, IsOnlyEdge
  <2>2. LET recipient == OtherEnd(file.edges[e], n)
        IN /\ recipient < n /\ recipient \in DOMAIN graph.nodes
           /\ Place(file.nodes[recipient]) = Place(file.nodes[n])
    BY <1>7, <2>1
  <2>3. OtherEnd(graph.edges[e], n) = OtherEnd(file.edges[e], n)
    BY <1>6 DEF OtherEnd
  <2>4. ~HasLayer(n)
    BY <1>2 DEF HasLayer
  <2> QED
    BY <1>5, <2>2, <2>3, <2>4 DEF LoneFits
<1>9. ASSUME NEW n \in DOMAIN graph.nodes, IsData(graph.nodes[n])
      PROVE  FlowNodes # {}
  <2>1. PICK T : T = {m \in DOMAIN graph.nodes : IsData(graph.nodes[m])}
    OBVIOUS
  <2>2. T \in SUBSET Nat /\ T # {}
    BY <1>4, <1>9, <2>1
  <2>3. PICK m \in T : \A x \in T : m <= x
    BY <2>2, LeastElement
  <2>4. PICK x \in DOMAIN graph.nodes : x < m
    BY <1>7, <2>1, <2>3
  <2>5. x \notin T
    BY <1>4, <2>2, <2>3, <2>4
  <2> QED
    BY <2>1, <2>5 DEF FlowNodes
<1> QED
  BY <1>2, <1>8, <1>9, LoneInvIn DEF BoundInv

(* The invariant holds when the parser is done.                             *)
LEMMA InitLayers ==
    ASSUME Init
    PROVE  LayersInv
<1>1. PICK file \in Files : parsed = Built(file)
  BY DEF Init
<1>2. IsParsed(file)
  BY FilesAreParsed
<1>3. graph = parsed /\ phase = "layers" /\ at = 1
  BY DEF Init
<1>4. parsed \in GraphsOn(file.lanes) /\ PartlyBuilt(file, parsed, Len(file.edges))
  BY <1>1, <1>2, BuiltIsBuilt
<1>5. IsGraph(parsed)
  BY <1>4, GraphsOnLanes
<1>6. /\ \A e \in DOMAIN parsed.edges : FlowFits(parsed, e)
      /\ \A n \in DOMAIN parsed.nodes : /\ parsed.nodes[n].layer = 0 /\ ~parsed.nodes[n].half
                                        /\ parsed.nodes[n].above = 0 /\ parsed.nodes[n].below = 0
  BY <1>1, <1>2, BuiltFlowsFit
<1>7. TypeOK
  BY <1>3, <1>5, <1>6 DEF TypeOK
<1>8. GraphInv
  BY <1>3, <1>4, <1>5, MirroredButNone DEF GraphInv, PartlyBuilt
<1>9. FlowsInv
  BY <1>3, <1>6 DEF FlowsInv, FlowFits
<1>10. UnplacedInv
  BY <1>3, <1>6 DEF UnplacedInv
<1>11. PlacedInv /\ EdgesPointRight /\ CyclesInv /\ SplitInv
  BY <1>3 DEF PlacedInv, EdgesPointRight, CyclesInv, SplitInv
<1> QED
  BY <1>3, <1>7, <1>8, <1>9, <1>10, <1>11, InitDataNodes DEF LayersInv

-----------------------------------------------------------------------------
(* Layers *)

(* The same graph, apart from the layers of its nodes.                      *)
Relayered(r, g) ==
    /\ r.edges = g.edges /\ r.lanes = g.lanes /\ DOMAIN r.nodes = DOMAIN g.nodes
    /\ \A n \in DOMAIN g.nodes :
          /\ r.nodes[n].kind = g.nodes[n].kind
          /\ r.nodes[n].pool = g.nodes[n].pool /\ r.nodes[n].lane = g.nodes[n].lane
          /\ r.nodes[n].above = g.nodes[n].above /\ r.nodes[n].below = g.nodes[n].below
          /\ r.nodes[n].incoming = g.nodes[n].incoming /\ r.nodes[n].outgoing = g.nodes[n].outgoing

(* Layers do not matter for what the lists and the lanes hold.              *)
LEMMA RelayeredKeeps ==
    ASSUME NEW g, EndsExist(g), NEW r, Relayered(r, g)
    PROVE  /\ EndsExist(r)
           /\ Mirrored(g) => Mirrored(r)
           /\ LanesComplete(g) => LanesComplete(r)
           /\ \A e \in DOMAIN g.edges : FlowFits(g, e) => FlowFits(r, e)
<1>1. \A n \in DOMAIN g.nodes : Place(r.nodes[n]) = Place(g.nodes[n])
  BY DEF Relayered, Place
<1>2. EndsExist(r)
  BY <1>1 DEF Relayered, EndsExist
<1>3. Mirrored(g) => Mirrored(r)
  BY DEF Relayered, Mirrored
<1>4. LanesComplete(g) => LanesComplete(r)
  BY <1>1 DEF Relayered, LanesComplete
<1>5. ASSUME NEW e \in DOMAIN g.edges, FlowFits(g, e)
      PROVE  FlowFits(r, e)
  <2>1. g.edges[e].from \in DOMAIN g.nodes /\ g.edges[e].to \in DOMAIN g.nodes /\ r.edges = g.edges
    BY DEF EndsExist, Relayered
  <2>2. /\ From(r, e).kind = From(g, e).kind /\ To(r, e).kind = To(g, e).kind
        /\ From(r, e).pool = From(g, e).pool /\ To(r, e).pool = To(g, e).pool
    BY <2>1 DEF From, To, Relayered
  <2> QED
    BY <1>5, <2>1, <2>2 DEF FlowFits, IsData, SamePool
<1> QED
  BY <1>2, <1>3, <1>4, <1>5

(* An edge of a pool that does not point to the left, as PointsRight.       *)
RightIn(g, e) == SamePool(g, e) => HalfLayers(From(g, e)) <= HalfLayers(To(g, e))

(* They are the same, also in the next state.                               *)
LEMMA PointsRightIn ==
    \A e : /\ PointsRight(e) <=> RightIn(graph, e)
           /\ PointsRight(e)' <=> RightIn(graph', e)
BY DEF PointsRight, RightIn, SamePool, From, To, HalfLayers

(* The largest of numbers up to k is one of them.                           *)
LEMMA MaxIsGreatest ==
    ASSUME NEW k \in Nat, NEW T \in SUBSET (0..k), T # {}
    PROVE  Max(T) \in T /\ \A y \in T : Max(T) >= y
<1> DEFINE U == {k - x : x \in T}
<1>1. U \in SUBSET Nat /\ U # {}
  OBVIOUS
<1>2. PICK u \in U : \A y \in U : u <= y
  <2> HIDE DEF U
  <2> QED
    BY <1>1, LeastElement
<1>3. PICK x \in T : u = k - x
  BY <1>2
<1>4. \A y \in T : x >= y
  <2> SUFFICES ASSUME NEW y \in T
               PROVE  x >= y
    OBVIOUS
  <2>1. u <= k - y
    BY <1>2
  <2> QED
    BY <1>3, <2>1
<1>5. \E z \in T : \A y \in T : z >= y
  BY <1>4
<1> QED
  BY <1>5 DEF Max

-----------------------------------------------------------------------------
(* solve_layers() *)

(* Sequence flows in a circle have no layers: one of the nodes in it would  *)
(* be the leftmost.                                                         *)
LEMMA LayersExcludeCycles ==
    ASSUME IsGraph(graph), \A e \in DOMAIN graph.edges : FlowFits(graph, e),
           NEW layer \in [FlowNodes -> 0..Len(graph.nodes)], Feasible(layer)
    PROVE  ~Cyclic(graph)
<1> SUFFICES ASSUME NEW S \in SUBSET DOMAIN graph.nodes, S # {},
                    \A n \in S : \E e \in DOMAIN graph.edges :
                       /\ graph.edges[e].flow = "sequence"
                       /\ graph.edges[e].to = n /\ graph.edges[e].from \in S
             PROVE  FALSE
  BY DEF Cyclic
<1>1. ASSUME NEW n \in S
      PROVE  n \in FlowNodes
  <2>1. PICK e \in DOMAIN graph.edges : graph.edges[e].flow = "sequence" /\ graph.edges[e].to = n
    OBVIOUS
  <2>2. FlowFits(graph, e)
    OBVIOUS
  <2> QED
    BY <2>1, <2>2 DEF FlowFits, FlowNodes, To
<1>2. Len(graph.nodes) \in Nat
  BY GraphParts
<1>3. \A n \in S : layer[n] \in Nat
  BY <1>1, <1>2
<1> DEFINE T == {layer[n] : n \in S}
<1>4. PICK x \in T : \A y \in T : x <= y
  <2>1. T \in SUBSET Nat /\ T # {}
    BY <1>3
  <2> HIDE DEF T
  <2> QED
    BY <2>1, LeastElement
<1>5. PICK n \in S : x = layer[n]
  BY <1>4
<1>6. PICK e \in DOMAIN graph.edges : /\ graph.edges[e].flow = "sequence"
                                      /\ graph.edges[e].to = n /\ graph.edges[e].from \in S
  OBVIOUS
<1>7. layer[n] >= layer[graph.edges[e].from] + 1
  BY <1>6 DEF Feasible, SequenceFlows
<1>8. layer[n] <= layer[graph.edges[e].from]
  BY <1>4, <1>5, <1>6
<1> QED
  BY <1>3, <1>5, <1>6, <1>7, <1>8

(* Without such a circle, a layering exists: in every turn, all nodes whose *)
(* predecessors have been reached are reached, and the layer of a node is   *)
(* the turn in which it is.                                                 *)
LEMMA AcyclicHasLayers ==
    ASSUME IsGraph(graph), EndsExist(graph), \A e \in DOMAIN graph.edges : FlowFits(graph, e),
           ~Cyclic(graph)
    PROVE  Layerings # {}
<1>1. PICK m \in Nat : m = Len(graph.nodes) /\ DOMAIN graph.nodes = 1..m
  BY GraphParts
<1>2. PICK U, Q : U = FlowNodes /\ Q = SequenceFlows
  OBVIOUS
<1>3. U \subseteq 1..m /\ IsFiniteSet(U) /\ Cardinality(U) <= m
  <2>1. U \subseteq 1..m
    BY <1>1, <1>2 DEF FlowNodes
  <2>2. IsFiniteSet(1..m) /\ Cardinality(1..m) = m
    BY FS_Interval
  <2> QED
    BY <2>1, <2>2, FS_Subset
<1> DEFINE source(e) == graph.edges[e].from
           target(e) == graph.edges[e].to
<1>4. \A e \in Q : e \in DOMAIN graph.edges /\ source(e) \in U /\ target(e) \in U
  BY <1>2 DEF SequenceFlows, FlowNodes, FlowFits, From, To, EndsExist
<1>5. \A e \in DOMAIN graph.edges : e \in Q <=> graph.edges[e].flow = "sequence"
  BY <1>2 DEF SequenceFlows
<1> HIDE DEF source, target
<1> DEFINE ready(S) == {n \in U : \A e \in Q : target(e) = n => source(e) \in S}
           grow == [S \in SUBSET U |-> S \union ready(S)]
           start == ready({})
<1>6. /\ grow \in [SUBSET U -> SUBSET U] /\ start \in SUBSET U
      /\ \A S \in SUBSET U : grow[S] = S \union ready(S)
  OBVIOUS
<1>7. ASSUME NEW F \in SUBSET U, ready(F) \subseteq F
      PROVE  F = U
  <2> SUFFICES ASSUME U \ F # {}
               PROVE  FALSE
    OBVIOUS
  <2>1. U \ F \in SUBSET DOMAIN graph.nodes
    BY <1>1, <1>3
  <2>2. ASSUME NEW n \in U \ F
        PROVE  \E e \in DOMAIN graph.edges :
                  graph.edges[e].flow = "sequence" /\ graph.edges[e].to = n /\ graph.edges[e].from \in U \ F
    <3>1. PICK e \in Q : target(e) = n /\ source(e) \notin F
      BY <1>7
    <3> QED
      BY <1>4, <1>5, <3>1 DEF source, target
  <2> QED
    BY <2>1, <2>2 DEF Cyclic
<1>8. PICK g : g \in [0..m -> SUBSET U] /\ g[0] = start /\ \A i \in 1..m : g[i] = grow[g[i - 1]]
  <2>1. PICK next : next = [i \in 1..m |-> grow]
    OBVIOUS
  <2>2. next \in [1..m -> [SUBSET U -> SUBSET U]] /\ \A i \in 1..m : next[i] = grow
    BY <1>6, <2>1
  <2> HIDE DEF grow, start
  <2>3. PICK V, base : V = SUBSET U /\ base = start
    OBVIOUS
  <2>4. \E g : g \in Recursions(m, V, base, next)
    BY <1>6, <2>2, <2>3, RecursionExists
  <2> QED
    BY <2>2, <2>3, <2>4 DEF Recursions
<1>9. g[m] = U
  <2>1. CASE start = {}
    <3>1. ready({}) \subseteq {} /\ {} \in SUBSET U
      BY <2>1
    <3>2. U = {}
      BY <1>7, <3>1
    <3>3. g[m] \in SUBSET U
      BY <1>8
    <3> QED
      BY <3>2, <3>3
  <2>2. CASE start # {}
    <3>1. Grows(grow, U)
      BY <1>6 DEF Grows
    <3>2. Grown(g, m, U, grow)
      <4> HIDE DEF grow, start
      <4> QED
        BY <1>8, <2>2 DEF Grown
    <3>3. grow[g[m]] = g[m]
      <4> HIDE DEF grow, start
      <4> QED
        BY <1>3, <3>1, <3>2, GrowthEnds
    <3>4. g[m] \in SUBSET U
      BY <1>8
    <3>5. ready(g[m]) \subseteq g[m]
      BY <1>6, <3>3, <3>4
    <3> QED
      BY <1>7, <3>4, <3>5
  <2> QED
    BY <2>1, <2>2
<1>10. /\ g[0] = ready({})
       /\ \A i \in 1..m : i - 1 \in 0..m /\ g[i - 1] \in SUBSET U /\ g[i] = g[i - 1] \union ready(g[i - 1])
  <2>1. g[0] = ready({})
    BY <1>8
  <2>2. ASSUME NEW i \in 1..m
        PROVE  i - 1 \in 0..m /\ g[i - 1] \in SUBSET U /\ g[i] = g[i - 1] \union ready(g[i - 1])
    <3> HIDE DEF grow, ready
    <3>1. i - 1 \in 0..m
      OBVIOUS
    <3>2. g[i - 1] \in SUBSET U
      BY <1>8, <3>1
    <3> QED
      BY <1>6, <1>8, <3>1, <3>2
  <2> QED
    BY <2>1, <2>2
<1> HIDE DEF ready, grow, start
<1> DEFINE First(n, i) == n \in g[i] /\ \A j \in 0..m : n \in g[j] => i <= j
           layer == [n \in U |-> CHOOSE i \in 0..m : First(n, i)]
<1>11. ASSUME NEW n \in U
       PROVE  layer[n] \in 0..m /\ First(n, layer[n])
  <2>1. \E i \in 0..m : First(n, i)
    <3> DEFINE T == {i \in 0..m : n \in g[i]}
    <3>1. T \in SUBSET Nat /\ m \in T
      BY <1>9
    <3>2. PICK i \in T : \A j \in T : i <= j
      <4> HIDE DEF T
      <4> QED
        BY <3>1, LeastElement
    <3> QED
      BY <3>2
  <2> HIDE DEF First
  <2> QED
    BY <2>1
<1>12. layer \in [U -> 0..m]
  <2> HIDE DEF First
  <2> QED
    BY <1>11
<1>13. ASSUME NEW e \in Q
       PROVE  layer[target(e)] >= layer[source(e)] + 1
  <2>1. PICK i \in 0..m : i = layer[target(e)] /\ First(target(e), i)
    BY <1>4, <1>11
  <2>2. target(e) \in g[i] /\ target(e) \in U /\ source(e) \in U
    BY <1>4, <2>1
  <2>3. PICK j \in 0..m : j = layer[source(e)] /\ First(source(e), j)
    BY <1>4, <1>11
  <2> HIDE DEF layer
  <2>4. i # 0
    BY <1>10, <2>2 DEF ready
  <2>5. i \in 1..m /\ i - 1 \in 0..m
    BY <2>4
  <2>6. target(e) \notin g[i - 1]
    <3>1. ~(i <= i - 1)
      OBVIOUS
    <3> QED
      BY <2>1, <2>5, <3>1
  <2>7. source(e) \in g[i - 1]
    BY <1>10, <2>2, <2>5, <2>6 DEF ready
  <2>8. j <= i - 1
    BY <2>3, <2>5, <2>7
  <2> QED
    BY <2>1, <2>3, <2>8
<1> HIDE DEF layer
<1>14. Feasible(layer)
  BY <1>2, <1>13 DEF Feasible, source, target
<1>15. layer \in Layerings
  BY <1>1, <1>2, <1>12, <1>14 DEF Layerings
<1> QED
  BY <1>15

(* The optima are layerings.                                                *)
LEMMA OptimaAreLayerings ==
    ASSUME NEW layer, layer \in Optima
    PROVE  layer \in [FlowNodes -> 0..Len(graph.nodes)] /\ Feasible(layer)
<1>1. layer \in Layerings
  <2>1. PICK L : L = Layerings
    OBVIOUS
  <2>2. layer \in L
    BY <2>1 DEF Optima
  <2> QED
    BY <2>1, <2>2
<1> QED
  BY <1>1 DEF Layerings

(* The nodes with their layers.                                             *)
Layered(layer) ==
    [n \in DOMAIN graph.nodes |-> IF n \in FlowNodes THEN [graph.nodes[n] EXCEPT !.layer = layer[n]]
                                                     ELSE graph.nodes[n]]

LayeredAs(r, layer) ==
    \A n \in DOMAIN graph.nodes :
       /\ r.nodes[n].half = graph.nodes[n].half
       /\ r.nodes[n].layer = IF n \in FlowNodes THEN layer[n] ELSE graph.nodes[n].layer

(* Giving the flow nodes layers makes a graph of a graph.                   *)
LEMMA LayeredEffect ==
    ASSUME IsGraph(graph), NEW layer \in [FlowNodes -> 0..Len(graph.nodes)],
           NEW count \in Nat, NEW r,
           r = [graph EXCEPT !.nodes = Layered(layer), !.numLayers = count]
    PROVE  IsGraph(r) /\ Relayered(r, graph) /\ LayeredAs(r, layer)
<1>1. PICK N, E, P, L : /\ N = GraphNodes /\ E = Seq(GraphEdges) /\ P = DOMAIN graph.lanes /\ L = Seq(Nat)
  OBVIOUS
<1>2. graph \in [nodes : Seq(N), edges : E, lanes : [P -> L], numLayers : Nat]
  BY <1>1 DEF IsGraph
<1>3. PICK k \in Nat : k = Len(graph.nodes) /\ DOMAIN graph.nodes = 1..k
  BY GraphParts
<1>4. PICK nodes : nodes = Layered(layer)
  OBVIOUS
<1>5. ASSUME NEW n \in 1..k
      PROVE  /\ nodes[n] \in N
             /\ nodes[n].layer = IF n \in FlowNodes THEN layer[n] ELSE graph.nodes[n].layer
             /\ nodes[n].half = graph.nodes[n].half
             /\ nodes[n].kind = graph.nodes[n].kind
             /\ nodes[n].pool = graph.nodes[n].pool /\ nodes[n].lane = graph.nodes[n].lane
             /\ nodes[n].above = graph.nodes[n].above /\ nodes[n].below = graph.nodes[n].below
             /\ nodes[n].incoming = graph.nodes[n].incoming /\ nodes[n].outgoing = graph.nodes[n].outgoing
  <2>1. PICK node : node = graph.nodes[n] /\ node \in GraphNodes
    BY <1>3, GraphParts
  <2>2. nodes[n] = IF n \in FlowNodes THEN [node EXCEPT !.layer = layer[n]] ELSE node
    BY <1>3, <1>4, <2>1 DEF Layered
  <2>3. n \in FlowNodes => layer[n] \in Nat
    BY <1>3
  <2>4. PICK S : S = Seq(Nat)
    OBVIOUS
  <2>5. CASE n \in FlowNodes
    <3>1. PICK i \in Nat : i = layer[n] /\ nodes[n] = [node EXCEPT !.layer = i]
      BY <2>2, <2>3, <2>5
    <3> QED
      BY <1>1, <2>1, <2>4, <2>5, <3>1 DEF GraphNodes
  <2>6. CASE n \notin FlowNodes
    BY <1>1, <2>1, <2>2, <2>6
  <2> QED
    BY <2>5, <2>6
<1>6. DOMAIN nodes = 1..k /\ nodes = [n \in 1..k |-> nodes[n]]
  BY <1>3, <1>4 DEF Layered
<1>7. nodes \in Seq(N)
  <2>1. nodes \in [1..k -> N]
    BY <1>5, <1>6
  <2> QED
    BY <2>1, FunctionIsSeq
<1>8. r = [graph EXCEPT !.nodes = nodes, !.numLayers = count]
  BY <1>4
<1>9. /\ r \in [nodes : Seq(N), edges : E, lanes : [P -> L], numLayers : Nat]
      /\ r.nodes = nodes /\ r.edges = graph.edges /\ r.lanes = graph.lanes
  BY <1>2, <1>7, <1>8
<1>10. IsGraph(r)
  BY <1>1, <1>9 DEF IsGraph
<1>11. Relayered(r, graph)
  BY <1>3, <1>5, <1>6, <1>9 DEF Relayered
<1>12. LayeredAs(r, layer)
  BY <1>3, <1>5, <1>9 DEF LayeredAs
<1> QED
  BY <1>10, <1>11, <1>12

(* The number of layers is a number.                                        *)
LEMMA NumLayersType ==
    ASSUME IsGraph(graph), NEW layer \in [FlowNodes -> 0..Len(graph.nodes)]
    PROVE  Max({layer[n] + 1 : n \in FlowNodes} \union {0}) \in Nat
<1>1. PICK T : T = {layer[n] + 1 : n \in FlowNodes} \union {0}
  OBVIOUS
<1>2. PICK k \in Nat : k = Len(graph.nodes) + 1
  BY GraphParts
<1>3. T \in SUBSET (0..k) /\ T # {}
  BY <1>1, <1>2
<1>4. Max(T) \in T
  BY <1>3, MaxIsGreatest
<1> QED
  BY <1>1, <1>3, <1>4

(* The parts of the invariant before data nodes are placed.                 *)
LEMMA LayersInvParts ==
    ASSUME LayersInv
    PROVE  /\ IsGraph(graph) /\ IsGraph(parsed) /\ at \in Nat
           /\ EndsExist(graph) /\ Mirrored(graph) /\ LanesComplete(graph)
           /\ phase \in {"layers", "data"} =>
                 /\ Len(graph.edges) = Len(parsed.edges)
                 /\ \A e \in DOMAIN graph.edges : FlowFits(graph, e)
BY DEF LayersInv, TypeOK, GraphInv, FlowsInv, FlowFits

(* Flow nodes are left of the number of layers, data nodes still at the     *)
(* left end, and lone data nodes in the lanes of their neighbours.          *)
LEMMA SolveLayersDataNodes ==
    ASSUME LayersInv, SolveLayers
    PROVE  BoundInv' /\ LoneInv'
<1>1. /\ IsGraph(graph) /\ EndsExist(graph) /\ phase = "layers" /\ graph = parsed /\ at = 1 /\ at' = at
      /\ DOMAIN graph.nodes = 1..Len(graph.nodes) /\ Len(graph.nodes) \in Nat
  BY LayersInvParts, GraphParts DEF SolveLayers, Panic, LayersInv, UnplacedInv
<1>2. \A n \in DOMAIN graph.nodes, e \in DOMAIN graph.edges : LoneFits(graph, HasLayer(n), n, e)
  BY LoneInvIn DEF LayersInv
<1>3. CASE Layerings = {} /\ Panic
  <2>1. phase' = "panic" /\ graph' = graph
    BY <1>3 DEF Panic
  <2>2. \A n \in DOMAIN graph'.nodes, e \in DOMAIN graph'.edges : LoneFits(graph', HasLayer(n)', n, e)
    BY <1>2, <2>1 DEF LoneFits, HasLayer
  <2> QED
    BY <2>1, <2>2, LoneInvIn DEF BoundInv
<1>4. ASSUME NEW layer \in Optima, phase' = "data",
             graph' = [graph EXCEPT
                          !.nodes = [n \in DOMAIN graph.nodes |->
                                        IF n \in FlowNodes
                                        THEN [graph.nodes[n] EXCEPT !.layer = layer[n]]
                                        ELSE graph.nodes[n]],
                          !.numLayers = Max({layer[n] + 1 : n \in FlowNodes} \union {0})]
      PROVE  BoundInv' /\ LoneInv'
  <2>1. layer \in [FlowNodes -> 0..Len(graph.nodes)] /\ Feasible(layer)
    BY OptimaAreLayerings
  <2>2. PICK T : T = {layer[n] + 1 : n \in FlowNodes} \union {0}
    OBVIOUS
  <2>3. PICK k \in Nat : k = Len(graph.nodes) + 1
    BY <1>1
  <2>4. T \in SUBSET (0..k) /\ T # {}
    BY <1>1, <2>1, <2>2, <2>3
  <2>5. PICK count \in Nat : count = Max(T) /\ \A y \in T : count >= y
    <3>1. Max(T) \in T /\ \A y \in T : Max(T) >= y
      BY <2>4, MaxIsGreatest
    <3>2. PICK count : count = Max(T)
      OBVIOUS
    <3>3. count \in T /\ \A y \in T : count >= y
      BY <3>1, <3>2
    <3>4. count \in Nat
      BY <2>4, <3>3
    <3> QED
      BY <3>2, <3>3, <3>4
  <2>6. graph' = [graph EXCEPT !.nodes = Layered(layer), !.numLayers = count]
    BY <1>4, <2>2, <2>5 DEF Layered
  <2>7. IsGraph(graph') /\ Relayered(graph', graph) /\ LayeredAs(graph', layer)
    BY <1>1, <2>1, <2>6, LayeredEffect
  <2>8. graph'.numLayers = count
    <3>1. "numLayers" \in DOMAIN graph
      BY <1>1 DEF IsGraph
    <3> QED
      BY <2>6, <3>1
  <2>9. DOMAIN graph'.nodes = DOMAIN graph.nodes /\ DOMAIN graph'.edges = DOMAIN graph.edges
    BY <2>7 DEF Relayered
  <2>10. ASSUME NEW n \in DOMAIN graph.nodes
         PROVE  graph'.nodes[n].layer < count
    <3>1. CASE n \in FlowNodes
      <4>1. layer[n] + 1 \in T /\ layer[n] \in Nat
        BY <1>1, <2>1, <2>2, <3>1
      <4>2. graph'.nodes[n].layer = layer[n]
        BY <2>7, <3>1 DEF LayeredAs
      <4> QED
        BY <2>5, <4>1, <4>2
    <3>2. CASE n \notin FlowNodes
      <4>1. IsData(graph.nodes[n])
        BY <3>2 DEF FlowNodes
      <4>2. graph.nodes[n].layer = 0
        BY <1>1, <4>1 DEF LayersInv, UnplacedInv
      <4>3. PICK f : f \in FlowNodes
        BY <1>1, <4>1 DEF LayersInv, BoundInv
      <4>4. layer[f] + 1 \in T /\ layer[f] \in Nat
        BY <1>1, <2>1, <2>2, <4>3
      <4>5. graph'.nodes[n].layer = 0
        BY <2>7, <3>2, <4>2 DEF LayeredAs
      <4> QED
        BY <2>5, <4>4, <4>5
    <3> QED
      BY <3>1, <3>2
  <2>11. ASSUME NEW n \in DOMAIN graph.nodes, NEW e \in DOMAIN graph.edges
         PROVE  LoneFits(graph', HasLayer(n)', n, e)
    <3>1. LoneFits(graph, HasLayer(n), n, e)
      BY <1>2
    <3>2. ~HasLayer(n)'
      BY <1>1, <1>4 DEF HasLayer
    <3>3. graph'.edges = graph.edges
      BY <2>7 DEF Relayered
    <3>4. OtherEnd(graph.edges[e], n) \in DOMAIN graph.nodes
      BY <1>1 DEF EndsExist, OtherEnd
    <3>5. \A m \in DOMAIN graph.nodes : /\ Place(graph'.nodes[m]) = Place(graph.nodes[m])
                                        /\ IsData(graph'.nodes[m]) <=> IsData(graph.nodes[m])
      BY <2>7 DEF Relayered, Place, IsData
    <3>6. IsOnlyEdge(graph', n, e) <=> IsOnlyEdge(graph, n, e)
      BY <3>3 DEF IsOnlyEdge
    <3> QED
      BY <3>1, <3>2, <3>3, <3>4, <3>5, <3>6 DEF LoneFits
  <2> QED
    BY <1>4, <2>8, <2>9, <2>10, <2>11, LoneInvIn DEF BoundInv
<1> QED
  BY <1>3, <1>4 DEF SolveLayers

(* The solver's step keeps the invariant.                                   *)
LEMMA SolveLayersKeeps ==
    ASSUME LayersInv, SolveLayers
    PROVE  LayersInv'
<1>1. /\ IsGraph(graph) /\ EndsExist(graph) /\ Mirrored(graph) /\ LanesComplete(graph)
      /\ \A e \in DOMAIN graph.edges : FlowFits(graph, e)
      /\ phase = "layers" /\ graph = parsed /\ at = 1
      /\ Len(graph.edges) = Len(parsed.edges)
      /\ parsed' = parsed /\ at' = at
  BY LayersInvParts DEF SolveLayers, Panic, LayersInv, UnplacedInv
<1>2. CASE Layerings = {} /\ Panic
  <2>1. phase' = "panic" /\ graph' = graph /\ parsed' = parsed /\ at' = at
    BY <1>2 DEF Panic
  <2>2. Cyclic(parsed)
    BY <1>1, <1>2, AcyclicHasLayers
  <2>3. TypeOK' /\ GraphInv'
    BY <2>1 DEF LayersInv, TypeOK, GraphInv
  <2>4. CyclesInv'
    BY <2>1, <2>2 DEF CyclesInv
  <2> QED
    BY <2>1, <2>3, <2>4, SolveLayersDataNodes
       DEF LayersInv, FlowsInv, UnplacedInv, PlacedInv, EdgesPointRight, SplitInv
<1>3. ASSUME NEW layer \in Optima, phase' = "data",
             graph' = [graph EXCEPT
                          !.nodes = [n \in DOMAIN graph.nodes |->
                                        IF n \in FlowNodes
                                        THEN [graph.nodes[n] EXCEPT !.layer = layer[n]]
                                        ELSE graph.nodes[n]],
                          !.numLayers = Max({layer[n] + 1 : n \in FlowNodes} \union {0})]
      PROVE  LayersInv'
  <2>1. layer \in [FlowNodes -> 0..Len(graph.nodes)] /\ Feasible(layer)
    BY OptimaAreLayerings
  <2>2. PICK count \in Nat : count = Max({layer[n] + 1 : n \in FlowNodes} \union {0})
    BY <1>1, <2>1, NumLayersType
  <2>3. graph' = [graph EXCEPT !.nodes = Layered(layer), !.numLayers = count]
    BY <1>3, <2>2 DEF Layered
  <2>4. /\ IsGraph(graph') /\ Relayered(graph', graph)
        /\ \A n \in DOMAIN graph.nodes :
              /\ graph'.nodes[n].half = graph.nodes[n].half
              /\ graph'.nodes[n].layer = IF n \in FlowNodes THEN layer[n] ELSE graph.nodes[n].layer
    <3>1. IsGraph(graph') /\ Relayered(graph', graph) /\ LayeredAs(graph', layer)
      BY <1>1, <2>1, <2>3, LayeredEffect
    <3> QED
      BY <3>1 DEF LayeredAs
  <2>5. /\ EndsExist(graph') /\ Mirrored(graph') /\ LanesComplete(graph')
        /\ \A e \in DOMAIN graph.edges : FlowFits(graph', e)
    BY <1>1, <2>4, RelayeredKeeps
  <2>6. ~Cyclic(parsed)
    BY <1>1, <2>1, LayersExcludeCycles
  <2>7. graph'.edges = graph.edges /\ graph'.lanes = graph.lanes /\ DOMAIN graph'.nodes = DOMAIN graph.nodes
    BY <2>4 DEF Relayered
  <2>8. TypeOK'
    BY <1>1, <1>3, <2>4, <2>7 DEF LayersInv, TypeOK, Relayered
  <2>9. GraphInv'
    BY <2>5 DEF GraphInv
  <2>10. FlowsInv'
    BY <1>1, <1>3, <2>5, <2>7 DEF FlowsInv, FlowFits
  <2>11. \A n \in DOMAIN graph.nodes :
           /\ IsData(graph'.nodes[n]) <=> IsData(graph.nodes[n])
           /\ n \in FlowNodes <=> ~IsData(graph.nodes[n])
    BY <2>4 DEF Relayered, IsData, FlowNodes
  <2>12. \A n \in DOMAIN graph.nodes :
           /\ graph.nodes[n].half => IsData(graph.nodes[n])
           /\ IsData(graph.nodes[n]) => graph.nodes[n].layer = 0 /\ ~graph.nodes[n].half
    <3>1. \A n \in DOMAIN graph.nodes : at <= n
      BY <1>1, GraphParts
    <3> QED
      BY <1>1, <3>1 DEF LayersInv, UnplacedInv
  <2>13. UnplacedInv'
    BY <1>1, <1>3, <2>4, <2>7, <2>11, <2>12 DEF UnplacedInv
  <2>14. ASSUME NEW e \in DOMAIN graph.edges, IsData(To(graph', e)) => IsData(From(graph', e))
         PROVE  RightIn(graph', e)
    <3>1. PICK from, to : from = graph.edges[e].from /\ to = graph.edges[e].to
      OBVIOUS
    <3>2. /\ from \in DOMAIN graph.nodes /\ to \in DOMAIN graph.nodes
          /\ From(graph', e) = graph'.nodes[from] /\ To(graph', e) = graph'.nodes[to]
          /\ From(graph, e) = graph.nodes[from] /\ To(graph, e) = graph.nodes[to]
      BY <1>1, <2>7, <3>1 DEF EndsExist, From, To
    <3>3. FlowFits(graph', e) /\ graph'.edges[e].flow \in {"sequence", "message", "data"}
      <4>1. e \in DOMAIN graph'.edges /\ graph'.edges[e] \in GraphEdges
        BY <2>4, <2>7, GraphParts
      <4> QED
        BY <2>5, <4>1 DEF GraphEdges
    <3>4. \A n \in DOMAIN graph.nodes :
             /\ n \in FlowNodes => graph'.nodes[n].layer \in Nat
             /\ HalfLayers(graph'.nodes[n]) = IF n \in FlowNodes THEN 2 * graph'.nodes[n].layer ELSE 0
      <4> SUFFICES ASSUME NEW n \in DOMAIN graph.nodes
                   PROVE  /\ n \in FlowNodes => graph'.nodes[n].layer \in Nat
                          /\ HalfLayers(graph'.nodes[n]) =
                                IF n \in FlowNodes THEN 2 * graph'.nodes[n].layer ELSE 0
        OBVIOUS
      <4>1. Len(graph.nodes) \in Nat
        BY <1>1, GraphParts
      <4>2. CASE n \in FlowNodes
        <5>1. graph'.nodes[n].layer \in Nat /\ ~graph'.nodes[n].half
          BY <2>1, <2>4, <2>11, <2>12, <4>1, <4>2
        <5> QED
          BY <4>2, <5>1 DEF HalfLayers
      <4>3. CASE n \notin FlowNodes
        BY <2>4, <2>11, <2>12, <4>3 DEF HalfLayers
      <4> QED
        BY <4>2, <4>3
    <3>5. CASE graph'.edges[e].flow = "sequence"
      <4>1. from \in FlowNodes /\ to \in FlowNodes
        BY <2>11, <3>2, <3>3, <3>5 DEF FlowFits
      <4>2. layer[to] >= layer[from] + 1
        BY <2>1, <2>7, <3>1, <3>5 DEF Feasible, SequenceFlows
      <4>3. layer[from] = graph'.nodes[from].layer /\ layer[to] = graph'.nodes[to].layer
        BY <2>4, <3>2, <4>1
      <4> QED
        BY <3>2, <3>4, <4>1, <4>2, <4>3 DEF RightIn
    <3>6. CASE graph'.edges[e].flow = "message"
      BY <3>3, <3>6 DEF FlowFits, RightIn
    <3>7. CASE graph'.edges[e].flow = "data"
      <4>1. IsData(From(graph', e))
        BY <2>14, <3>3, <3>7 DEF FlowFits
      <4>2. HalfLayers(From(graph', e)) = 0
        BY <2>11, <3>2, <3>4, <4>1
      <4> QED
        BY <3>2, <3>4, <4>2 DEF RightIn
    <3> QED
      BY <3>3, <3>5, <3>6, <3>7
  <2>15. PlacedInv'
    <3>1. \A e \in DOMAIN graph.edges : at' <= graph'.edges[e].to
      <4>1. \A e \in DOMAIN graph.edges : graph.edges[e].to \in DOMAIN graph.nodes
        BY <1>1 DEF EndsExist
      <4>2. \A n \in DOMAIN graph.nodes : 1 <= n
        BY <1>1, GraphParts
      <4> QED
        BY <1>1, <2>7, <4>1, <4>2
    <3>2. \A e : /\ IsData(To(graph, e))' <=> IsData(To(graph', e))
                 /\ IsData(From(graph, e))' <=> IsData(From(graph', e))
      BY DEF IsData, To, From
    <3> QED
      BY <2>7, <2>14, <3>1, <3>2, PointsRightIn DEF PlacedInv
  <2>16. CyclesInv'
    BY <1>1, <1>3, <2>6 DEF CyclesInv
  <2> QED
    BY <1>3, <2>8, <2>9, <2>10, <2>13, <2>15, <2>16, SolveLayersDataNodes
       DEF LayersInv, EdgesPointRight, SplitInv
<1> QED
  BY <1>2, <1>3 DEF SolveLayers

-----------------------------------------------------------------------------
(* solve_data_object_layers_via_arithmetic_mean() *)

(* The layers of the neighbours are numbers.                                *)
LEMMA NeighbourLayersType ==
    ASSUME IsGraph(graph), EndsExist(graph), Mirrored(graph), NEW n \in DOMAIN graph.nodes
    PROVE  NeighbourLayers(n) \in Seq(Nat)
<1>1. PICK D, in, out : D = DOMAIN graph.nodes /\ in = graph.nodes[n].incoming /\ out = graph.nodes[n].outgoing
  OBVIOUS
<1>2. /\ in \in Seq(Nat) /\ out \in Seq(Nat)
      /\ ToSet(in) \subseteq DOMAIN graph.edges /\ ToSet(out) \subseteq DOMAIN graph.edges
  BY <1>1, NodeLists DEF Mirrored
<1>3. /\ DOMAIN in = 1..Len(in) /\ Len(in) \in Nat /\ \A i \in DOMAIN in : in[i] \in DOMAIN graph.edges
      /\ DOMAIN out = 1..Len(out) /\ Len(out) \in Nat /\ \A i \in DOMAIN out : out[i] \in DOMAIN graph.edges
  BY <1>2 DEF ToSet
<1>4. PICK froms, tos : /\ froms = [i \in DOMAIN in |-> graph.edges[in[i]].from]
                        /\ tos = [i \in DOMAIN out |-> graph.edges[out[i]].to]
  OBVIOUS
<1>5. froms \in [1..Len(in) -> D] /\ tos \in [1..Len(out) -> D]
  BY <1>1, <1>3, <1>4 DEF EndsExist
<1>6. froms \in Seq(D) /\ tos \in Seq(D)
  BY <1>3, <1>5, FunctionIsSeq
<1>7. PICK neighbours \in Seq(D) : neighbours = froms \o tos
  BY <1>6, ConcatProperties
<1>8. PICK ownLane : ownLane = Retained(neighbours, {m \in D : graph.nodes[m].lane = graph.nodes[n].lane})
  OBVIOUS
<1>9. ownLane \in Seq(D)
  BY <1>7, <1>8, CountRetained
<1>10. NeighbourLayers(n) = [i \in DOMAIN ownLane |-> graph.nodes[ownLane[i]].layer]
  BY <1>1, <1>4, <1>7, <1>8 DEF NeighbourLayers
<1>11. DOMAIN ownLane = 1..Len(ownLane) /\ Len(ownLane) \in Nat /\ \A i \in DOMAIN ownLane : ownLane[i] \in D
  BY <1>9
<1>12. \A m \in D : graph.nodes[m].layer \in Nat
  <2>1. \A m \in D : graph.nodes[m] \in GraphNodes
    BY <1>1, GraphParts
  <2>2. PICK L : L = Seq(Nat)
    OBVIOUS
  <2> QED
    BY <2>1, <2>2 DEF GraphNodes
<1>13. NeighbourLayers(n) \in [1..Len(ownLane) -> Nat]
  BY <1>10, <1>11, <1>12
<1> QED
  BY <1>11, <1>13, FunctionIsSeq

(* A sum of numbers is a number.                                            *)
LEMMA LayerSumType ==
    ASSUME NEW layers \in Seq(Nat)
    PROVE  LayerSum(layers) \in Nat
<1>1. PICK m \in Nat : m = Len(layers) /\ \A i \in 1..m : layers[i] \in Nat /\ 0 <= layers[i]
  OBVIOUS
<1>2. LayerSum(layers) = (CHOOSE sum : IsRunningSum(sum, layers, m))[m]
  BY <1>1 DEF LayerSum, IsRunningSum
<1>3. \E sum : IsRunningSum(sum, layers, m)
  BY <1>1, RunningSumExists
<1>4. PICK sum : IsRunningSum(sum, layers, m) /\ LayerSum(layers) = sum[m]
  BY <1>2, <1>3
<1>5. PICK low \in Nat : low = 0
  OBVIOUS
<1>6. sum[m] \in Nat
  BY <1>1, <1>4, <1>5, RunningSumLowerBound
<1> QED
  BY <1>4, <1>6

(* The mean is a layer, or half a layer more.                               *)
LEMMA MeanLayerType ==
    ASSUME NEW layers \in Seq(Nat)
    PROVE  MeanLayer(layers).layer \in Nat /\ MeanLayer(layers).half \in BOOLEAN
<1>1. PICK count \in Nat : count = Len(layers)
  OBVIOUS
<1>2. PICK sum \in Nat : sum = LayerSum(layers)
  BY LayerSumType
<1>3. PICK floor, rest : floor = sum \div count /\ rest = sum % count
  OBVIOUS
<1>4. MeanLayer(layers) =
         CASE count = 0 -> [layer |-> 0, half |-> FALSE]
           [] count > 0 /\ 4 * rest < count -> [layer |-> floor, half |-> FALSE]
           [] count > 0 /\ 4 * rest > 3 * count -> [layer |-> floor + 1, half |-> FALSE]
           [] OTHER -> [layer |-> floor, half |-> TRUE]
  BY <1>1, <1>2, <1>3 DEF MeanLayer
<1>5. CASE count = 0
  <2>1. ~(count > 0)
    BY <1>5
  <2>2. MeanLayer(layers) = [layer |-> 0, half |-> FALSE]
    BY <1>4, <1>5, <2>1
  <2> QED
    BY <2>2
<1>6. CASE count > 0
  <2>1. floor \in Nat
    BY <1>3, <1>6
  <2>2. \/ MeanLayer(layers) = [layer |-> floor, half |-> FALSE]
        \/ MeanLayer(layers) = [layer |-> floor + 1, half |-> FALSE]
        \/ MeanLayer(layers) = [layer |-> floor, half |-> TRUE]
    BY <1>4, <1>6
  <2>3. floor + 1 \in Nat
    BY <2>1
  <2>4. /\ [layer |-> floor, half |-> FALSE] \in [layer : Nat, half : BOOLEAN]
        /\ [layer |-> floor + 1, half |-> FALSE] \in [layer : Nat, half : BOOLEAN]
        /\ [layer |-> floor, half |-> TRUE] \in [layer : Nat, half : BOOLEAN]
    BY <2>1, <2>3
  <2>5. MeanLayer(layers) \in [layer : Nat, half : BOOLEAN]
    BY <2>2, <2>4
  <2> QED
    BY <2>5
<1> QED
  BY <1>5, <1>6

(* The mean of layers up to a bound is not above it, and the mean of one    *)
(* layer, however often it occurs, is that layer.                           *)
LEMMA MeanLayerBounds ==
    ASSUME NEW layers \in Seq(Nat), NEW low \in Nat, NEW high \in Nat,
           \A i \in DOMAIN layers : low <= layers[i] /\ layers[i] <= high
    PROVE  /\ MeanLayer(layers).layer <= high
           /\ layers # <<>> /\ low = high => MeanLayer(layers).layer = high
<1>1. PICK count \in Nat : count = Len(layers) /\ DOMAIN layers = 1..count
  OBVIOUS
<1>2. \A i \in 1..count : layers[i] \in Nat /\ low <= layers[i] /\ layers[i] <= high
  BY <1>1
<1>3. PICK sum \in Nat : sum = LayerSum(layers) /\ count * low <= sum /\ sum <= count * high
  <2>1. LayerSum(layers) = (CHOOSE sum : IsRunningSum(sum, layers, count))[count]
    BY <1>1 DEF LayerSum, IsRunningSum
  <2>2. \E sum : IsRunningSum(sum, layers, count)
    BY <1>2, RunningSumExists
  <2>3. PICK sum : IsRunningSum(sum, layers, count) /\ LayerSum(layers) = sum[count]
    BY <2>1, <2>2
  <2>4. sum[count] \in Nat /\ count * low <= sum[count]
    BY <1>2, <2>3, RunningSumLowerBound
  <2>5. sum[count] <= count * high
    BY <1>2, <2>3, RunningSumUpperBound
  <2> QED
    BY <2>3, <2>4, <2>5
<1>4. PICK floor, rest : floor = sum \div count /\ rest = sum % count
  OBVIOUS
<1>5. MeanLayer(layers) =
         CASE count = 0 -> [layer |-> 0, half |-> FALSE]
           [] count > 0 /\ 4 * rest < count -> [layer |-> floor, half |-> FALSE]
           [] count > 0 /\ 4 * rest > 3 * count -> [layer |-> floor + 1, half |-> FALSE]
           [] OTHER -> [layer |-> floor, half |-> TRUE]
  BY <1>1, <1>3, <1>4 DEF MeanLayer
<1>6. CASE count = 0
  <2>1. ~(count > 0)
    BY <1>6
  <2>2. MeanLayer(layers) = [layer |-> 0, half |-> FALSE]
    BY <1>5, <1>6, <2>1
  <2>3. layers = <<>>
    BY <1>1, <1>6
  <2> QED
    BY <2>2, <2>3
<1>7. CASE count > 0
  <2>1. floor \in Nat /\ rest \in Nat /\ rest < count /\ sum = count * floor + rest
    <3>1. floor \in Int /\ rest \in 0..(count - 1)
      BY <1>4, <1>7
    <3>2. floor \in Nat
      BY <1>4, <1>7
    <3>3. sum = count * floor + rest
      BY <1>4, <1>7
    <3> QED
      BY <3>1, <3>2, <3>3
  <2>2. floor <= high
    <3> SUFFICES ASSUME floor >= high + 1
                 PROVE  FALSE
      BY <2>1
    <3>1. count * floor >= count * (high + 1)
      BY <1>7, <2>1
    <3>2. count * (high + 1) = count * high + count
      OBVIOUS
    <3>3. count * floor \in Nat /\ count * high \in Nat
      BY <2>1
    <3> QED
      BY <1>3, <1>7, <2>1, <3>1, <3>2, <3>3
  <2>3. floor = high => rest = 0
    <3> SUFFICES ASSUME floor = high
                 PROVE  rest = 0
      OBVIOUS
    <3>1. sum = count * high + rest /\ count * high \in Nat
      BY <2>1
    <3> QED
      BY <1>3, <2>1, <3>1
  <2>4. low = high => floor = high
    <3> SUFFICES ASSUME low = high, floor + 1 <= high
                 PROVE  FALSE
      BY <2>1, <2>2
    <3>1. count * (floor + 1) <= count * high
      BY <1>7, <2>1
    <3>2. count * (floor + 1) = count * floor + count
      BY <2>1
    <3>3. count * floor \in Nat /\ count * high \in Nat
      BY <2>1
    <3> QED
      BY <1>3, <1>7, <2>1, <3>1, <3>2, <3>3
  <2>5. \/ MeanLayer(layers).layer = floor
        \/ MeanLayer(layers).layer = floor + 1 /\ 4 * rest > 3 * count
    <3>1. \/ MeanLayer(layers) = [layer |-> floor, half |-> FALSE]
          \/ MeanLayer(layers) = [layer |-> floor + 1, half |-> FALSE] /\ 4 * rest > 3 * count
          \/ MeanLayer(layers) = [layer |-> floor, half |-> TRUE]
      BY <1>5, <1>7
    <3> QED
      BY <3>1
  <2>6. MeanLayer(layers).layer = floor + 1 /\ 4 * rest > 3 * count => floor + 1 <= high
    BY <1>7, <2>1, <2>2, <2>3
  <2>7. floor = high => ~(4 * rest > 3 * count)
    BY <1>7, <2>3
  <2> QED
    BY <2>1, <2>2, <2>4, <2>5, <2>6, <2>7
<1> QED
  BY <1>6, <1>7

(* Data node n in this layer, before edges are turned around.               *)
Moved(n, layer, half) == [graph EXCEPT !.nodes[n].layer = layer, !.nodes[n].half = half]

MovedTo(r, n, layer, half) ==
    /\ Relayered(r, graph) /\ r.numLayers = graph.numLayers
    /\ r.nodes[n].layer = layer /\ r.nodes[n].half = half
    /\ \A m \in DOMAIN graph.nodes : m # n => r.nodes[m] = graph.nodes[m]

(* Moving a node makes a graph of a graph.                                  *)
LEMMA MovedEffect ==
    ASSUME IsGraph(graph), NEW n \in DOMAIN graph.nodes, NEW layer \in Nat, NEW half \in BOOLEAN,
           NEW r, r = Moved(n, layer, half)
    PROVE  IsGraph(r) /\ MovedTo(r, n, layer, half)
<1>1. PICK N, E, P, L : /\ N = GraphNodes /\ E = Seq(GraphEdges) /\ P = DOMAIN graph.lanes /\ L = Seq(Nat)
  OBVIOUS
<1>2. graph \in [nodes : Seq(N), edges : E, lanes : [P -> L], numLayers : Nat]
  BY <1>1 DEF IsGraph
<1>3. PICK node : node = [graph.nodes[n] EXCEPT !.layer = layer, !.half = half]
  OBVIOUS
<1>4. PICK nodes : nodes = [graph.nodes EXCEPT ![n] = node]
  OBVIOUS
<1>5. r = [graph EXCEPT !.nodes = nodes]
  <2>1. r = [graph EXCEPT !.nodes = [@ EXCEPT ![n].layer = layer, ![n].half = half]]
    BY DEF Moved
  <2>2. nodes = [graph.nodes EXCEPT ![n].layer = layer, ![n].half = half]
    BY <1>3, <1>4
  <2> QED
    BY <2>1, <2>2
<1>6. /\ node \in GraphNodes /\ node.layer = layer /\ node.half = half
      /\ node.kind = graph.nodes[n].kind
      /\ node.pool = graph.nodes[n].pool /\ node.lane = graph.nodes[n].lane
      /\ node.above = graph.nodes[n].above /\ node.below = graph.nodes[n].below
      /\ node.incoming = graph.nodes[n].incoming /\ node.outgoing = graph.nodes[n].outgoing
  <2>1. graph.nodes[n] \in GraphNodes
    BY GraphParts
  <2>2. PICK S : S = Seq(Nat)
    OBVIOUS
  <2> QED
    BY <1>3, <2>1, <2>2 DEF GraphNodes
<1>7. /\ nodes \in Seq(N) /\ DOMAIN nodes = DOMAIN graph.nodes /\ nodes[n] = node
      /\ \A m \in DOMAIN graph.nodes : m # n => nodes[m] = graph.nodes[m]
  BY <1>1, <1>2, <1>4, <1>6
<1>8. /\ r \in [nodes : Seq(N), edges : E, lanes : [P -> L], numLayers : Nat]
      /\ r.nodes = nodes /\ r.edges = graph.edges /\ r.lanes = graph.lanes
      /\ r.numLayers = graph.numLayers
  BY <1>2, <1>5, <1>7
<1>9. IsGraph(r)
  BY <1>1, <1>8 DEF IsGraph
<1>10. Relayered(r, graph)
  BY <1>6, <1>7, <1>8 DEF Relayered
<1>11. MovedTo(r, n, layer, half)
  BY <1>6, <1>7, <1>8, <1>10 DEF MovedTo
<1> QED
  BY <1>9, <1>11

(* A value that a list has at most once is at one position.                 *)
LEMMA CountOnce ==
    ASSUME NEW s \in Seq(Nat), NEW x, Count(s, x) \in {0, 1},
           NEW i \in DOMAIN s, NEW j \in DOMAIN s, s[i] = x, s[j] = x
    PROVE  i = j
<1>1. PICK T : T = {k \in DOMAIN s : s[k] = x}
  OBVIOUS
<1>2. IsFiniteSet(T) /\ Cardinality(T) = Count(s, x)
  BY <1>1, CountType DEF Count
<1>3. i \in T /\ j \in T
  BY <1>1
<1>4. Cardinality(T) = 0 \/ Cardinality(T) = 1
  BY <1>2
<1>5. CASE Cardinality(T) = 0
  BY <1>2, <1>3, <1>5, FS_EmptySet
<1>6. CASE Cardinality(T) = 1
  <2>1. \E x1 : T = {x1}
    BY <1>2, <1>6, FS_Singleton
  <2> QED
    BY <1>3, <2>1
<1> QED
  BY <1>4, <1>5, <1>6

(* The lists of a node hold the edges at it, once each.                     *)
LEMMA MirroredMembers ==
    ASSUME NEW g, IsGraph(g), Mirrored(g), \A e \in DOMAIN g.edges : g.edges[e].type # "Replaced",
           NEW n \in DOMAIN g.nodes
    PROVE  /\ ToSet(g.nodes[n].incoming) = {e \in DOMAIN g.edges : g.edges[e].to = n}
           /\ ToSet(g.nodes[n].outgoing) = {e \in DOMAIN g.edges : g.edges[e].from = n}
           /\ \A e : Count(g.nodes[n].incoming, e) \in {0, 1} /\ Count(g.nodes[n].outgoing, e) \in {0, 1}
<1>1. PICK in, out : in = g.nodes[n].incoming /\ out = g.nodes[n].outgoing
  OBVIOUS
<1>2. in \in Seq(Nat) /\ out \in Seq(Nat)
  BY <1>1, NodeLists
<1>3. ToSet(in) \subseteq DOMAIN g.edges /\ ToSet(out) \subseteq DOMAIN g.edges
  BY <1>1 DEF Mirrored
<1>4. \A e : /\ Count(in, e) = 0 <=> e \notin ToSet(in)
             /\ Count(out, e) = 0 <=> e \notin ToSet(out)
  BY <1>2, CountType
<1>5. \A e \in DOMAIN g.edges : /\ Count(in, e) = IF g.edges[e].to = n THEN 1 ELSE 0
                                /\ Count(out, e) = IF g.edges[e].from = n THEN 1 ELSE 0
  BY <1>1 DEF Mirrored
<1> QED
  BY <1>1, <1>3, <1>4, <1>5

(* Edge e is at node n and points to the left of it.                        *)
IsLeft(g, e, n) ==
    \/ g.edges[e].to = n /\ From(g, e).layer > g.nodes[n].layer
    \/ g.edges[e].from = n /\ \/ To(g, e).layer < g.nodes[n].layer
                              \/ To(g, e).layer = g.nodes[n].layer /\ g.nodes[n].half

(* A list of every such edge.                                               *)
ListsLeft(es, g, n) ==
    /\ es \in Seq(Nat) /\ ToSet(es) = {e \in DOMAIN g.edges : IsLeft(g, e, n)}
    /\ \A i, j \in DOMAIN es : es[i] = es[j] => i = j

(* No edge that is to be turned around is listed twice.                     *)
LEMMA PointLeftOfLists ==
    ASSUME NEW g, IsGraph(g), Mirrored(g), \A e \in DOMAIN g.edges : g.edges[e].type # "Replaced",
           NEW n \in DOMAIN g.nodes, \A e \in DOMAIN g.edges : ~(g.edges[e].from = n /\ g.edges[e].to = n),
           NEW es, es = PointLeftOf(g, n)
    PROVE  ListsLeft(es, g, n)
<1>1. PICK in, out : in = g.nodes[n].incoming /\ out = g.nodes[n].outgoing
  OBVIOUS
<1>2. in \in Seq(Nat) /\ out \in Seq(Nat)
  BY <1>1, NodeLists
<1>3. /\ ToSet(in) = {e \in DOMAIN g.edges : g.edges[e].to = n}
      /\ ToSet(out) = {e \in DOMAIN g.edges : g.edges[e].from = n}
      /\ \A e : Count(in, e) \in {0, 1} /\ Count(out, e) \in {0, 1}
  BY <1>1, MirroredMembers
<1>4. PICK S, T : /\ S = {e \in ToSet(in) : From(g, e).layer > g.nodes[n].layer}
                  /\ T = {e \in ToSet(out) : \/ To(g, e).layer < g.nodes[n].layer
                                             \/ To(g, e).layer = g.nodes[n].layer /\ g.nodes[n].half}
  OBVIOUS
<1>5. PICK l, r : l = Retained(in, S) /\ r = Retained(out, T)
  OBVIOUS
<1>6. es = l \o r
  BY <1>1, <1>4, <1>5 DEF PointLeftOf
<1>7. l \in Seq(Nat) /\ r \in Seq(Nat) /\ ToSet(l) = ToSet(in) \cap S /\ ToSet(r) = ToSet(out) \cap T
  BY <1>2, <1>5, CountRetained, RetainedMembers
<1>8. \A e : Count(l, e) \in {0, 1} /\ Count(r, e) \in {0, 1}
  <2>1. /\ \A e : Count(l, e) = IF e \in S THEN Count(in, e) ELSE 0
        /\ \A e : Count(r, e) = IF e \in T THEN Count(out, e) ELSE 0
    BY <1>2, <1>5, CountRetained
  <2> QED
    BY <1>3, <2>1
<1>9. /\ es \in Seq(Nat) /\ Len(es) = Len(l) + Len(r) /\ DOMAIN es = 1..Len(es)
      /\ \A i \in 1..(Len(l) + Len(r)) : es[i] = IF i <= Len(l) THEN l[i] ELSE r[i - Len(l)]
      /\ DOMAIN l = 1..Len(l) /\ DOMAIN r = 1..Len(r) /\ Len(l) \in Nat /\ Len(r) \in Nat
  BY <1>6, <1>7, ConcatProperties
<1>10. /\ \A i \in DOMAIN l : l[i] \in ToSet(l)
       /\ \A i \in DOMAIN r : r[i] \in ToSet(r)
  BY DEF ToSet
<1>11. \A i \in DOMAIN es : \/ i \in DOMAIN l /\ es[i] = l[i]
                            \/ i - Len(l) \in DOMAIN r /\ es[i] = r[i - Len(l)] /\ i \in Nat
  BY <1>9
<1>12. ToSet(es) = ToSet(l) \union ToSet(r)
  <2>1. \A i \in DOMAIN l : i \in DOMAIN es /\ es[i] = l[i]
    BY <1>9
  <2>2. \A i \in DOMAIN r : i + Len(l) \in DOMAIN es /\ es[i + Len(l)] = r[i]
    <3> SUFFICES ASSUME NEW i \in DOMAIN r
                 PROVE  i + Len(l) \in DOMAIN es /\ es[i + Len(l)] = r[i]
      OBVIOUS
    <3>1. i + Len(l) \in 1..(Len(l) + Len(r)) /\ ~(i + Len(l) <= Len(l)) /\ (i + Len(l)) - Len(l) = i
      BY <1>9
    <3> QED
      BY <1>9, <3>1
  <2> QED
    BY <1>11, <2>1, <2>2 DEF ToSet
<1>13. ToSet(es) = {e \in DOMAIN g.edges : IsLeft(g, e, n)}
  BY <1>3, <1>4, <1>7, <1>12 DEF IsLeft
<1>14. ASSUME NEW i \in DOMAIN es, NEW j \in DOMAIN es, es[i] = es[j]
       PROVE  i = j
  <2>1. \A e : ~(e \in ToSet(l) /\ e \in ToSet(r))
    BY <1>3, <1>7
  <2>2. CASE i \in DOMAIN l /\ es[i] = l[i] /\ j \in DOMAIN l /\ es[j] = l[j]
    <3>1. PICK x : x = l[i]
      OBVIOUS
    <3>2. Count(l, x) \in {0, 1} /\ l[i] = x /\ l[j] = x
      BY <1>8, <1>14, <2>2, <3>1
    <3> QED
      BY <1>7, <2>2, <3>2, CountOnce
  <2>3. CASE /\ i - Len(l) \in DOMAIN r /\ es[i] = r[i - Len(l)] /\ i \in Nat
             /\ j - Len(l) \in DOMAIN r /\ es[j] = r[j - Len(l)] /\ j \in Nat
    <3>1. PICK x, k, m : x = es[i] /\ k = i - Len(l) /\ m = j - Len(l)
      OBVIOUS
    <3>2. Count(r, x) \in {0, 1} /\ k \in DOMAIN r /\ m \in DOMAIN r /\ r[k] = x /\ r[m] = x
      BY <1>8, <1>14, <2>3, <3>1
    <3>3. k = m
      BY <1>7, <3>2, CountOnce
    <3> QED
      BY <1>9, <2>3, <3>1, <3>3
  <2> QED
    BY <1>10, <1>11, <1>14, <2>1, <2>2, <2>3
<1> QED
  BY <1>9, <1>13, <1>14 DEF ListsLeft

(* A graph and edges of it that can be turned around one after the other.   *)
Turnable(g, es) ==
    /\ IsGraph(g) /\ EndsExist(g) /\ Mirrored(g)
    /\ \A e \in DOMAIN g.edges : g.edges[e].type # "Replaced"
    /\ es \in Seq(Nat)
    /\ \A i \in DOMAIN es : es[i] \in DOMAIN g.edges /\ g.edges[es[i]].from # g.edges[es[i]].to
    /\ \A i, j \in DOMAIN es : es[i] = es[j] => i = j

(* Edge d of one graph is edge e of another, or it is turned around.        *)
SameEdge(d, e) == d.type = e.type /\ d.flow = e.flow /\ d.from = e.from /\ d.to = e.to

TurnedEdge(d, e) == d.type = e.type /\ d.flow = e.flow /\ d.from = e.to /\ d.to = e.from

(* The graph after the first i edges of es were turned around.              *)
PartlyTurned(r, g, es, i) ==
    /\ EndsExist(r) /\ Mirrored(r) /\ SamePlaces(r, g)
    /\ Len(r.edges) = Len(g.edges)
    /\ \A e \in DOMAIN g.edges : IF \E j \in 1..i : es[j] = e THEN TurnedEdge(r.edges[e], g.edges[e])
                                                             ELSE SameEdge(r.edges[e], g.edges[e])

(* One more edge is turned around.                                          *)
LEMMA TurnOne ==
    ASSUME NEW g, NEW es, Turnable(g, es), NEW i \in 1..Len(es),
           NEW r, IsGraph(r), PartlyTurned(r, g, es, i - 1),
           NEW s, s = ReverseEdge(r, es[i])
    PROVE  IsGraph(s) /\ PartlyTurned(s, g, es, i)
<1>1. /\ DOMAIN es = 1..Len(es) /\ Len(es) \in Nat
      /\ DOMAIN g.edges = 1..Len(g.edges) /\ DOMAIN r.edges = DOMAIN g.edges
      /\ DOMAIN r.edges = 1..Len(r.edges) /\ IsGraph(g)
  BY GraphParts DEF Turnable, PartlyTurned
<1>2. PICK e : e = es[i]
  OBVIOUS
<1>3. e \in DOMAIN g.edges /\ g.edges[e].from # g.edges[e].to
  BY <1>1, <1>2 DEF Turnable
<1>4. ~(\E j \in 1..(i - 1) : es[j] = e)
  <2> SUFFICES ASSUME NEW j \in 1..(i - 1), es[j] = e
               PROVE  FALSE
    OBVIOUS
  <2>1. j \in DOMAIN es /\ i \in DOMAIN es /\ j # i
    BY <1>1
  <2> QED
    BY <1>2, <2>1 DEF Turnable
<1>5. SameEdge(r.edges[e], g.edges[e])
  BY <1>3, <1>4 DEF PartlyTurned
<1>6. /\ e \in DOMAIN r.edges /\ r.edges[e].from # r.edges[e].to /\ r.edges[e].type # "Replaced"
      /\ r.edges[e].from \in DOMAIN r.nodes /\ r.edges[e].to \in DOMAIN r.nodes
  <2>1. EndsExist(r) /\ g.edges[e].type # "Replaced"
    BY <1>3 DEF PartlyTurned, Turnable
  <2> QED
    BY <1>1, <1>3, <1>5, <2>1 DEF SameEdge, EndsExist
<1>7. s = ReverseEdge(r, e)
  BY <1>2
<1>8. IsGraph(s) /\ EdgeReversed(s, r, e)
  BY <1>6, <1>7, ReverseEdgeEffect
<1>9. Mirrored(s)
  <2>1. Mirrored(r)
    BY DEF PartlyTurned
  <2> QED
    BY <1>6, <1>8, <2>1, ReverseEdgeMirrored
<1>10. EndsExist(s) /\ SamePlaces(s, r)
  <2>1. EndsExist(r)
    BY DEF PartlyTurned
  <2> QED
    BY <1>6, <1>8, <2>1, ReverseEdgeEnds
<1>11. SamePlaces(s, g)
  <2>1. SamePlaces(r, g)
    BY DEF PartlyTurned
  <2> QED
    BY <1>10, <2>1 DEF SamePlaces, SameNode
<1>12. s.edges = [r.edges EXCEPT ![e] = [@ EXCEPT !.from = r.edges[e].to, !.to = r.edges[e].from,
                                                   !.reversed = TRUE]]
  BY <1>8 DEF EdgeReversed
<1>13. DOMAIN s.edges = DOMAIN r.edges /\ \A d \in DOMAIN r.edges : d # e => s.edges[d] = r.edges[d]
  BY <1>6, <1>12
<1>14. Len(s.edges) = Len(g.edges)
  <2>1. DOMAIN s.edges = 1..Len(s.edges) /\ Len(s.edges) \in Nat /\ Len(r.edges) \in Nat
    BY <1>8, GraphParts
  <2> QED
    BY <1>1, <1>13, <2>1 DEF PartlyTurned
<1>15. TurnedEdge(s.edges[e], r.edges[e])
  <2>1. r.edges[e] \in GraphEdges
    BY <1>6, GraphParts
  <2>2. PICK d : d = r.edges[e]
    OBVIOUS
  <2>3. s.edges[e] = [d EXCEPT !.from = d.to, !.to = d.from, !.reversed = TRUE]
    BY <1>6, <1>12, <2>2
  <2> QED
    BY <2>1, <2>2, <2>3 DEF TurnedEdge, GraphEdges
<1>16. ASSUME NEW d \in DOMAIN g.edges
       PROVE  IF \E j \in 1..i : es[j] = d THEN TurnedEdge(s.edges[d], g.edges[d])
                                          ELSE SameEdge(s.edges[d], g.edges[d])
  <2>1. CASE d = e
    <3>1. \E j \in 1..i : es[j] = d
      BY <1>2, <2>1
    <3> QED
      BY <1>5, <1>15, <2>1, <3>1 DEF TurnedEdge, SameEdge
  <2>2. CASE d # e
    <3>1. (\E j \in 1..i : es[j] = d) <=> (\E j \in 1..(i - 1) : es[j] = d)
      <4>1. \A j \in 1..i : j = i \/ j \in 1..(i - 1)
        OBVIOUS
      <4>2. \A j \in 1..(i - 1) : j \in 1..i
        OBVIOUS
      <4> QED
        BY <1>2, <2>2, <4>1, <4>2
    <3>2. s.edges[d] = r.edges[d]
      BY <1>1, <1>13, <2>2
    <3> QED
      BY <3>1, <3>2 DEF PartlyTurned
  <2> QED
    BY <2>1, <2>2
<1> QED
  BY <1>8, <1>9, <1>10, <1>11, <1>14, <1>16 DEF PartlyTurned

(* All of them are turned around.                                           *)
LEMMA TurnedAroundEffect ==
    ASSUME NEW g, NEW es, Turnable(g, es), NEW r, r = TurnedAround(g, es)
    PROVE  IsGraph(r) /\ PartlyTurned(r, g, es, Len(es))
<1>1. PICK m \in Nat : m = Len(es) /\ DOMAIN es = 1..m
  BY DEF Turnable
<1> DEFINE turn(i, x) == ReverseEdge(x, es[i])
           U == GraphsOn(DOMAIN g.lanes)
           G == [i \in 0..m |-> {x \in U : PartlyTurned(x, g, es, i)}]
           Is(turned) == turned = [i \in 0..m |-> IF i = 0 THEN g ELSE ReverseEdge(turned[i - 1], es[i])]
           next == [i \in 1..m |-> [x \in U |-> turn(i, x)]]
<1>2. /\ \A i \in 0..m : \A x : x \in G[i] <=> x \in U /\ PartlyTurned(x, g, es, i)
      /\ \A i \in 1..m : i \in 0..m /\ i - 1 \in 0..m /\ i # 0
  OBVIOUS
<1>3. \A i \in 1..m : \A x \in G[i - 1] : x \in U /\ next[i][x] = turn(i, x)
  BY <1>2
<1>4. \A x : x \in U <=> IsGraph(x) /\ DOMAIN x.lanes = DOMAIN g.lanes
  BY GraphsOnLanes
<1> HIDE DEF G, next, U
<1>5. g \in G[0]
  <2>1. g \in U /\ EndsExist(g) /\ Mirrored(g)
    BY <1>4 DEF Turnable
  <2>2. SamePlaces(g, g) /\ \A e \in DOMAIN g.edges : SameEdge(g.edges[e], g.edges[e])
    BY DEF SamePlaces, SameNode, SameEdge
  <2>3. PartlyTurned(g, g, es, 0)
    BY <2>1, <2>2 DEF PartlyTurned
  <2> QED
    BY <1>2, <2>1, <2>3
<1>6. \A i \in 1..m : \A x \in G[i - 1] : turn(i, x) \in G[i]
  <2> SUFFICES ASSUME NEW i \in 1..m, NEW x, x \in G[i - 1]
               PROVE  turn(i, x) \in G[i]
    OBVIOUS
  <2>1. IsGraph(x) /\ DOMAIN x.lanes = DOMAIN g.lanes /\ PartlyTurned(x, g, es, i - 1) /\ i \in 1..Len(es)
    BY <1>1, <1>2, <1>4
  <2>2. PICK s : s = turn(i, x)
    OBVIOUS
  <2>3. IsGraph(s) /\ PartlyTurned(s, g, es, i)
    BY <2>1, <2>2, TurnOne
  <2>4. DOMAIN s.lanes = DOMAIN g.lanes
    BY <2>3 DEF PartlyTurned, SamePlaces
  <2> QED
    BY <1>2, <1>4, <2>2, <2>3, <2>4
<1>7. \E turned : Is(turned)
  <2>1. Stages(m, G, g, next)
    BY <1>3, <1>5, <1>6 DEF Stages
  <2>2. PICK turned : turned \in UnfoldedIn(m, G, g, next)
    BY <2>1, StagesUnfold
  <2>3. /\ DOMAIN turned = 0..m /\ turned = [i \in 0..m |-> turned[i]]
        /\ \A i \in 0..m : /\ turned[i] \in G[i]
                           /\ turned[i] = IF i = 0 THEN g ELSE next[i][turned[i - 1]]
    BY <2>2 DEF UnfoldedIn
  <2>4. \A i \in 0..m : turned[i] = IF i = 0 THEN g ELSE turn(i, turned[i - 1])
    <3>1. \A i \in 0..m : i # 0 => i \in 1..m /\ i - 1 \in 0..m
      OBVIOUS
    <3> HIDE DEF turn
    <3> QED
      BY <1>3, <2>3, <3>1
  <2>5. Is(turned)
    BY <2>3, <2>4
  <2> HIDE DEF Is
  <2> QED
    BY <2>5
<1>8. PICK turned : Is(turned) /\ r = turned[m]
  <2>1. r = (CHOOSE turned : Is(turned))[m]
    BY <1>1 DEF TurnedAround
  <2> HIDE DEF Is
  <2> QED
    BY <1>7, <2>1
<1>9. turned[0] = g /\ \A i \in 1..m : turned[i] = turn(i, turned[i - 1])
  <2>1. \A i \in 0..m : turned[i] = IF i = 0 THEN g ELSE turn(i, turned[i - 1])
    BY <1>8
  <2> HIDE DEF turn
  <2> QED
    BY <1>2, <2>1
<1> HIDE DEF turn, Is
<1>10. \A i \in 0..m : turned[i] \in G[i]
  <2>1. \A i \in 1..m : turned[i - 1] \in G[i - 1] => turned[i] \in G[i]
    BY <1>6, <1>9
  <2>2. turned[0] \in G[0]
    BY <1>5, <1>9
  <2> QED
    BY <2>1, <2>2, StagesHold
<1>11. m \in 0..m
  OBVIOUS
<1> QED
  BY <1>1, <1>2, <1>4, <1>8, <1>10, <1>11

(* Edge e points to the left of data node n once that is in this layer.     *)
IsLeftOf(e, n, layer, half) ==
    \/ graph.edges[e].to = n /\ From(graph, e).layer > layer
    \/ graph.edges[e].from = n /\ \/ To(graph, e).layer < layer
                                  \/ To(graph, e).layer = layer /\ half

(* What placing node n in this layer does, field by field.                  *)
IsPlaced(r, n, layer, half) ==
    /\ r.lanes = graph.lanes /\ r.numLayers = graph.numLayers
    /\ DOMAIN r.nodes = DOMAIN graph.nodes
    /\ Len(r.edges) = Len(graph.edges) /\ DOMAIN r.edges = DOMAIN graph.edges
    /\ \A m \in DOMAIN graph.nodes :
          /\ r.nodes[m].kind = graph.nodes[m].kind
          /\ r.nodes[m].pool = graph.nodes[m].pool /\ r.nodes[m].lane = graph.nodes[m].lane
          /\ r.nodes[m].above = graph.nodes[m].above /\ r.nodes[m].below = graph.nodes[m].below
          /\ r.nodes[m].layer = IF m = n THEN layer ELSE graph.nodes[m].layer
          /\ r.nodes[m].half = IF m = n THEN half ELSE graph.nodes[m].half
    /\ \A e \in DOMAIN graph.edges : IF IsLeftOf(e, n, layer, half)
                                     THEN TurnedEdge(r.edges[e], graph.edges[e])
                                     ELSE SameEdge(r.edges[e], graph.edges[e])

(* No edge leads from a data node to itself, and none is replaced.          *)
FlowsTurnable(n) ==
    \A e \in DOMAIN graph.edges :
       /\ graph.edges[e].type # "Replaced"
       /\ ~(graph.edges[e].from = n /\ graph.edges[e].to = n)

(* A data node is placed, and the edges at it are turned to the right.      *)
LEMMA PlacedEffect ==
    ASSUME IsGraph(graph), EndsExist(graph), Mirrored(graph), LanesComplete(graph),
           NEW n \in DOMAIN graph.nodes, FlowsTurnable(n), NEW r, r = Placed(n)
    PROVE  /\ IsGraph(r) /\ EndsExist(r) /\ Mirrored(r) /\ LanesComplete(r)
           /\ \E layer \in Nat, half \in BOOLEAN :
                 IsPlaced(r, n, layer, half) /\ layer = MeanLayer(NeighbourLayers(n)).layer
<1>1. PICK layer \in Nat, half \in BOOLEAN : /\ layer = MeanLayer(NeighbourLayers(n)).layer
                                             /\ half = MeanLayer(NeighbourLayers(n)).half
  <2>1. PICK layers \in Seq(Nat) : layers = NeighbourLayers(n)
    BY NeighbourLayersType
  <2> QED
    BY <2>1, MeanLayerType
<1>2. PICK g : g = Moved(n, layer, half)
  OBVIOUS
<1>3. PICK es : es = PointLeftOf(g, n)
  OBVIOUS
<1>4. r = TurnedAround(g, es)
  BY <1>1, <1>2, <1>3 DEF Placed, Moved
<1>5. IsGraph(g) /\ MovedTo(g, n, layer, half)
  BY <1>2, MovedEffect
<1>6. /\ Relayered(g, graph) /\ g.edges = graph.edges /\ DOMAIN g.nodes = DOMAIN graph.nodes
      /\ g.lanes = graph.lanes /\ g.numLayers = graph.numLayers
  BY <1>5 DEF MovedTo, Relayered
<1>7. EndsExist(g) /\ Mirrored(g) /\ LanesComplete(g)
  BY <1>6, RelayeredKeeps
<1>8. /\ \A e \in DOMAIN g.edges : g.edges[e].type # "Replaced"
      /\ \A e \in DOMAIN g.edges : ~(g.edges[e].from = n /\ g.edges[e].to = n)
      /\ n \in DOMAIN g.nodes
  BY <1>6 DEF FlowsTurnable
<1>9. ListsLeft(es, g, n)
  BY <1>3, <1>5, <1>7, <1>8, PointLeftOfLists
<1>10. /\ es \in Seq(Nat) /\ \A i, j \in DOMAIN es : es[i] = es[j] => i = j
       /\ \A e \in DOMAIN g.edges : IsLeft(g, e, n) <=> e \in ToSet(es)
       /\ ToSet(es) \subseteq DOMAIN g.edges
  BY <1>9 DEF ListsLeft
<1>11. \A e \in ToSet(es) : g.edges[e].from # g.edges[e].to
  BY <1>8, <1>10 DEF IsLeft
<1>12. \A i \in DOMAIN es : es[i] \in ToSet(es)
  BY DEF ToSet
<1>13. Turnable(g, es)
  BY <1>5, <1>7, <1>8, <1>10, <1>11, <1>12 DEF Turnable
<1>14. IsGraph(r) /\ PartlyTurned(r, g, es, Len(es))
  BY <1>4, <1>13, TurnedAroundEffect
<1>15. EndsExist(r) /\ Mirrored(r) /\ SamePlaces(r, g) /\ Len(r.edges) = Len(g.edges)
  BY <1>14 DEF PartlyTurned
<1>16. LanesComplete(r)
  BY <1>7, <1>15, SamePlacesKeepLanes
<1>17. \A m \in DOMAIN graph.nodes :
          /\ r.nodes[m].kind = graph.nodes[m].kind
          /\ r.nodes[m].pool = graph.nodes[m].pool /\ r.nodes[m].lane = graph.nodes[m].lane
          /\ r.nodes[m].above = graph.nodes[m].above /\ r.nodes[m].below = graph.nodes[m].below
          /\ r.nodes[m].layer = IF m = n THEN layer ELSE graph.nodes[m].layer
          /\ r.nodes[m].half = IF m = n THEN half ELSE graph.nodes[m].half
  BY <1>5, <1>6, <1>15 DEF SamePlaces, SameNode, Relayered, MovedTo
<1>18. ASSUME NEW e \in DOMAIN graph.edges
       PROVE  /\ IsLeftOf(e, n, layer, half) <=> IsLeft(g, e, n)
              /\ IsLeft(g, e, n) <=> \E j \in 1..Len(es) : es[j] = e
  <2>1. graph.edges[e].from \in DOMAIN graph.nodes /\ graph.edges[e].to \in DOMAIN graph.nodes
    BY DEF EndsExist
  <2>2. \A m \in DOMAIN graph.nodes : m # n => g.nodes[m] = graph.nodes[m]
    BY <1>5 DEF MovedTo
  <2>3. g.nodes[n].layer = layer /\ g.nodes[n].half = half
    BY <1>5 DEF MovedTo
  <2>4. IsLeftOf(e, n, layer, half) <=> IsLeft(g, e, n)
    BY <1>6, <1>8, <2>1, <2>2, <2>3 DEF IsLeftOf, IsLeft, From, To
  <2>5. e \in ToSet(es) <=> \E j \in 1..Len(es) : es[j] = e
    <3>1. DOMAIN es = 1..Len(es)
      BY <1>10
    <3> QED
      BY <3>1 DEF ToSet
  <2> QED
    BY <1>6, <1>10, <2>4, <2>5
<1>19. \A e \in DOMAIN graph.edges : IF IsLeftOf(e, n, layer, half)
                                     THEN TurnedEdge(r.edges[e], graph.edges[e])
                                     ELSE SameEdge(r.edges[e], graph.edges[e])
  BY <1>6, <1>14, <1>18 DEF PartlyTurned
<1>20. DOMAIN r.edges = DOMAIN graph.edges /\ Len(r.edges) = Len(graph.edges)
  BY <1>5, <1>6, <1>14, <1>15, GraphParts
<1>21. r.lanes = graph.lanes /\ r.numLayers = graph.numLayers /\ DOMAIN r.nodes = DOMAIN graph.nodes
  BY <1>6, <1>15 DEF SamePlaces
<1>22. IsPlaced(r, n, layer, half)
  BY <1>17, <1>19, <1>20, <1>21 DEF IsPlaced
<1> QED
  BY <1>1, <1>14, <1>15, <1>16, <1>22

(* An edge keeps its kind, and what it may join.                            *)
LEMMA PlacedFlowsFit ==
    ASSUME EndsExist(graph), NEW n \in DOMAIN graph.nodes, NEW layer, NEW half,
           NEW r, IsPlaced(r, n, layer, half), NEW e \in DOMAIN graph.edges, FlowFits(graph, e)
    PROVE  FlowFits(r, e)
<1>1. graph.edges[e].from \in DOMAIN graph.nodes /\ graph.edges[e].to \in DOMAIN graph.nodes
  BY DEF EndsExist
<1>2. \A m \in DOMAIN graph.nodes : r.nodes[m].kind = graph.nodes[m].kind /\ r.nodes[m].pool = graph.nodes[m].pool
  BY DEF IsPlaced
<1>3. TurnedEdge(r.edges[e], graph.edges[e]) \/ SameEdge(r.edges[e], graph.edges[e])
  BY DEF IsPlaced
<1>4. CASE TurnedEdge(r.edges[e], graph.edges[e])
  <2>1. /\ From(r, e).kind = To(graph, e).kind /\ To(r, e).kind = From(graph, e).kind
        /\ From(r, e).pool = To(graph, e).pool /\ To(r, e).pool = From(graph, e).pool
    BY <1>1, <1>2, <1>4 DEF TurnedEdge, From, To
  <2> QED
    BY <1>4, <2>1 DEF TurnedEdge, FlowFits, IsData, SamePool
<1>5. CASE SameEdge(r.edges[e], graph.edges[e])
  <2>1. /\ From(r, e).kind = From(graph, e).kind /\ To(r, e).kind = To(graph, e).kind
        /\ From(r, e).pool = From(graph, e).pool /\ To(r, e).pool = To(graph, e).pool
    BY <1>1, <1>2, <1>5 DEF SameEdge, From, To
  <2> QED
    BY <1>5, <2>1 DEF SameEdge, FlowFits, IsData, SamePool
<1> QED
  BY <1>3, <1>4, <1>5

(* A node's distance from the left end in halves of a layer.                *)
LEMMA HalfLayersType ==
    ASSUME NEW g, IsGraph(g), NEW n \in DOMAIN g.nodes
    PROVE  /\ g.nodes[n].layer \in Nat /\ g.nodes[n].half \in BOOLEAN
           /\ HalfLayers(g.nodes[n]) = 2 * g.nodes[n].layer + IF g.nodes[n].half THEN 1 ELSE 0
<1>1. g.nodes[n] \in GraphNodes
  BY GraphParts
<1>2. PICK S : S = Seq(Nat)
  OBVIOUS
<1> QED
  BY <1>1, <1>2 DEF GraphNodes, HalfLayers

(* After a data node was placed, the edges at it point to the right, and    *)
(* the others point where they did.                                         *)
LEMMA PlacedRight ==
    ASSUME IsGraph(graph), EndsExist(graph), UnplacedInv, PlacedInv, phase = "data",
           at \in DOMAIN graph.nodes, IsData(graph.nodes[at]), FlowsTurnable(at),
           NEW layer \in Nat, NEW half \in BOOLEAN,
           NEW r, IsGraph(r), IsPlaced(r, at, layer, half), NEW e \in DOMAIN graph.edges,
           IsData(To(r, e)) /\ at + 1 <= r.edges[e].to => IsData(From(r, e))
    PROVE  RightIn(r, e)
<1>1. PICK a, b : a = graph.edges[e].from /\ b = graph.edges[e].to
  OBVIOUS
<1>2. a \in DOMAIN graph.nodes /\ b \in DOMAIN graph.nodes /\ DOMAIN r.nodes = DOMAIN graph.nodes
  BY <1>1 DEF EndsExist, IsPlaced
<1>3. ~(a = at /\ b = at)
  BY <1>1 DEF FlowsTurnable
<1>4. From(graph, e) = graph.nodes[a] /\ To(graph, e) = graph.nodes[b]
  BY <1>1 DEF From, To
<1>5. \A m \in DOMAIN graph.nodes :
         /\ graph.nodes[m].layer \in Nat /\ graph.nodes[m].half \in BOOLEAN
         /\ HalfLayers(graph.nodes[m]) = 2 * graph.nodes[m].layer + IF graph.nodes[m].half THEN 1 ELSE 0
         /\ r.nodes[m].layer \in Nat /\ r.nodes[m].half \in BOOLEAN
         /\ HalfLayers(r.nodes[m]) = 2 * r.nodes[m].layer + IF r.nodes[m].half THEN 1 ELSE 0
         /\ r.nodes[m].pool = graph.nodes[m].pool
         /\ IsData(r.nodes[m]) <=> IsData(graph.nodes[m])
         /\ m # at => r.nodes[m].layer = graph.nodes[m].layer /\ r.nodes[m].half = graph.nodes[m].half
  BY <1>2, HalfLayersType DEF IsPlaced, IsData
<1>6. r.nodes[at].layer = layer /\ r.nodes[at].half = half
  BY DEF IsPlaced
<1>7. /\ \A m \in DOMAIN graph.nodes : graph.nodes[m].half => IsData(graph.nodes[m])
      /\ graph.nodes[at].layer = 0 /\ ~graph.nodes[at].half /\ at \in Nat
  BY GraphParts DEF UnplacedInv
<1>8. /\ \/ /\ IsLeftOf(e, at, layer, half)
            /\ From(r, e) = r.nodes[b] /\ To(r, e) = r.nodes[a] /\ r.edges[e].from = b /\ r.edges[e].to = a
         \/ /\ ~IsLeftOf(e, at, layer, half)
            /\ From(r, e) = r.nodes[a] /\ To(r, e) = r.nodes[b] /\ r.edges[e].from = a /\ r.edges[e].to = b
      /\ IsLeftOf(e, at, layer, half) <=>
            \/ b = at /\ graph.nodes[a].layer > layer
            \/ a = at /\ \/ graph.nodes[b].layer < layer
                         \/ graph.nodes[b].layer = layer /\ half
  BY <1>1, <1>4 DEF IsPlaced, IsLeftOf, TurnedEdge, SameEdge, From, To
<1>9. (IsData(graph.nodes[b]) /\ at <= b => IsData(graph.nodes[a]))
         => (graph.nodes[a].pool = graph.nodes[b].pool
                => HalfLayers(graph.nodes[a]) <= HalfLayers(graph.nodes[b]))
  BY <1>1, <1>4 DEF PlacedInv, PointsRight, SamePool
<1> SUFFICES ASSUME SamePool(r, e)
             PROVE  HalfLayers(From(r, e)) <= HalfLayers(To(r, e))
  BY DEF RightIn
<1>10. graph.nodes[a].pool = graph.nodes[b].pool
  BY <1>2, <1>5, <1>8 DEF SamePool
<1>11. CASE a # at /\ b # at
  <2>1. From(r, e) = r.nodes[a] /\ To(r, e) = r.nodes[b] /\ r.edges[e].to = b
    BY <1>8, <1>11
  <2>2. b \in Nat
    BY <1>2, GraphParts
  <2>3. IsData(graph.nodes[b]) /\ at <= b => IsData(graph.nodes[a])
    <3>1. IsData(r.nodes[b]) /\ at + 1 <= b => IsData(r.nodes[a])
      BY <2>1
    <3>2. /\ IsData(r.nodes[b]) <=> IsData(graph.nodes[b])
          /\ IsData(r.nodes[a]) <=> IsData(graph.nodes[a])
      BY <1>2, <1>5
    <3>3. at <= b => at + 1 <= b
      BY <1>7, <1>11, <2>2
    <3> QED
      BY <3>1, <3>2, <3>3
  <2>4. HalfLayers(graph.nodes[a]) <= HalfLayers(graph.nodes[b])
    BY <1>9, <1>10, <2>3
  <2> QED
    BY <1>2, <1>5, <1>11, <2>1, <2>4
<1>12. CASE b = at /\ a # at
  <2>1. r.nodes[a].layer = graph.nodes[a].layer /\ r.nodes[a].half = graph.nodes[a].half
    BY <1>2, <1>5, <1>12
  <2>2. CASE graph.nodes[a].layer > layer
    <3>1. From(r, e) = r.nodes[at] /\ To(r, e) = r.nodes[a]
      BY <1>8, <1>12, <2>2
    <3> QED
      BY <1>2, <1>5, <1>6, <2>1, <2>2, <3>1
  <2>3. CASE ~(graph.nodes[a].layer > layer)
    <3>1. From(r, e) = r.nodes[a] /\ To(r, e) = r.nodes[at]
      BY <1>8, <1>12, <2>3
    <3>2. ~graph.nodes[a].half
      <4> SUFFICES ASSUME graph.nodes[a].half
                   PROVE  FALSE
        OBVIOUS
      <4>1. HalfLayers(graph.nodes[a]) <= HalfLayers(graph.nodes[at])
        BY <1>2, <1>7, <1>9, <1>10, <1>12
      <4> QED
        BY <1>2, <1>5, <1>7, <4>1
    <3> QED
      BY <1>2, <1>5, <1>6, <2>1, <2>3, <3>1, <3>2
  <2> QED
    BY <2>2, <2>3
<1>13. CASE a = at /\ b # at
  <2>1. r.nodes[b].layer = graph.nodes[b].layer /\ r.nodes[b].half = graph.nodes[b].half
    BY <1>2, <1>5, <1>13
  <2>2. PICK c : c = graph.nodes[b].layer
    OBVIOUS
  <2>3. c \in Nat /\ (IsLeftOf(e, at, layer, half) <=> c < layer \/ (c = layer /\ half))
    BY <1>2, <1>5, <1>8, <1>13, <2>2
  <2>4. CASE IsLeftOf(e, at, layer, half)
    <3>1. From(r, e) = r.nodes[b] /\ To(r, e) = r.nodes[at]
      BY <1>8, <1>13, <2>4
    <3>2. c < layer \/ (c = layer /\ half = TRUE)
      BY <2>3, <2>4
    <3>3. /\ HalfLayers(r.nodes[b]) = 2 * c + IF r.nodes[b].half THEN 1 ELSE 0
          /\ HalfLayers(r.nodes[at]) = 2 * layer + IF half THEN 1 ELSE 0
      BY <1>2, <1>5, <1>6, <2>1, <2>2
    <3>4. HalfLayers(r.nodes[b]) <= HalfLayers(r.nodes[at])
      <4>1. CASE c < layer
        BY <2>3, <3>3, <4>1
      <4>2. CASE c = layer /\ half = TRUE
        BY <2>3, <3>3, <4>2
      <4> QED
        BY <3>2, <4>1, <4>2
    <3> QED
      BY <3>1, <3>4
  <2>5. CASE ~IsLeftOf(e, at, layer, half)
    <3>1. From(r, e) = r.nodes[at] /\ To(r, e) = r.nodes[b]
      BY <1>8, <1>13, <2>5
    <3>2. c > layer \/ (c = layer /\ half = FALSE)
      BY <2>3, <2>5
    <3>3. /\ HalfLayers(r.nodes[b]) = 2 * c + IF r.nodes[b].half THEN 1 ELSE 0
          /\ HalfLayers(r.nodes[at]) = 2 * layer + IF half THEN 1 ELSE 0
      BY <1>2, <1>5, <1>6, <2>1, <2>2
    <3>4. HalfLayers(r.nodes[at]) <= HalfLayers(r.nodes[b])
      <4>1. CASE c > layer
        BY <2>3, <3>3, <4>1
      <4>2. CASE c = layer /\ half = FALSE
        BY <2>3, <3>3, <4>2
      <4> QED
        BY <3>2, <4>1, <4>2
    <3> QED
      BY <3>1, <3>4
  <2> QED
    BY <2>4, <2>5
<1> QED
  BY <1>3, <1>11, <1>12, <1>13

(* The neighbours of a node in its lane, once per edge.                     *)
Neighbours(n) ==
    [i \in DOMAIN graph.nodes[n].incoming |-> graph.edges[graph.nodes[n].incoming[i]].from]
    \o [i \in DOMAIN graph.nodes[n].outgoing |-> graph.edges[graph.nodes[n].outgoing[i]].to]

(* They are the other ends of the edges at the node.                        *)
LEMMA NeighboursOf ==
    ASSUME IsGraph(graph), EndsExist(graph), Mirrored(graph),
           \A e \in DOMAIN graph.edges : graph.edges[e].type # "Replaced",
           NEW n \in DOMAIN graph.nodes
    PROVE  /\ Neighbours(n) \in Seq(DOMAIN graph.nodes)
           /\ ToSet(Neighbours(n)) =
                 {graph.edges[e].from : e \in {d \in DOMAIN graph.edges : graph.edges[d].to = n}}
                 \union {graph.edges[e].to : e \in {d \in DOMAIN graph.edges : graph.edges[d].from = n}}
<1>1. PICK D, in, out : D = DOMAIN graph.nodes /\ in = graph.nodes[n].incoming /\ out = graph.nodes[n].outgoing
  OBVIOUS
<1>2. /\ in \in Seq(Nat) /\ out \in Seq(Nat)
      /\ ToSet(in) = {e \in DOMAIN graph.edges : graph.edges[e].to = n}
      /\ ToSet(out) = {e \in DOMAIN graph.edges : graph.edges[e].from = n}
  BY <1>1, NodeLists, MirroredMembers
<1>3. /\ DOMAIN in = 1..Len(in) /\ Len(in) \in Nat /\ DOMAIN out = 1..Len(out) /\ Len(out) \in Nat
      /\ \A e : e \in ToSet(in) <=> \E i \in DOMAIN in : in[i] = e
      /\ \A e : e \in ToSet(out) <=> \E i \in DOMAIN out : out[i] = e
  BY <1>2 DEF ToSet
<1>4. PICK froms, tos : /\ froms = [i \in DOMAIN in |-> graph.edges[in[i]].from]
                        /\ tos = [i \in DOMAIN out |-> graph.edges[out[i]].to]
  OBVIOUS
<1>5. /\ \A i \in DOMAIN in : in[i] \in DOMAIN graph.edges
      /\ \A i \in DOMAIN out : out[i] \in DOMAIN graph.edges
  BY <1>2, <1>3
<1>6. froms \in [1..Len(in) -> D] /\ tos \in [1..Len(out) -> D]
  BY <1>1, <1>3, <1>4, <1>5 DEF EndsExist
<1>7. /\ froms \in Seq(D) /\ tos \in Seq(D) /\ Len(froms) = Len(in) /\ Len(tos) = Len(out)
      /\ DOMAIN froms = DOMAIN in /\ DOMAIN tos = DOMAIN out
  BY <1>3, <1>6, FunctionIsSeq
<1>8. PICK all : all = froms \o tos
  OBVIOUS
<1>9. /\ all \in Seq(D) /\ Len(all) = Len(froms) + Len(tos)
      /\ \A i \in 1..(Len(froms) + Len(tos)) :
            all[i] = IF i <= Len(froms) THEN froms[i] ELSE tos[i - Len(froms)]
  <2>1. froms \in Seq(D) /\ tos \in Seq(D)
    BY <1>7
  <2>2. /\ froms \o tos \in Seq(D) /\ Len(froms \o tos) = Len(froms) + Len(tos)
        /\ \A i \in 1..(Len(froms) + Len(tos)) :
              (froms \o tos)[i] = IF i <= Len(froms) THEN froms[i] ELSE tos[i - Len(froms)]
    BY <2>1, ConcatProperties
  <2> QED
    BY <1>8, <2>2
<1>10. \A x : (\E i \in DOMAIN all : all[i] = x)
                 <=> (\E i \in DOMAIN in : froms[i] = x) \/ (\E i \in DOMAIN out : tos[i] = x)
  <2> SUFFICES ASSUME NEW x
               PROVE  (\E i \in DOMAIN all : all[i] = x)
                         <=> (\E i \in DOMAIN in : froms[i] = x) \/ (\E i \in DOMAIN out : tos[i] = x)
    OBVIOUS
  <2>1. DOMAIN all = 1..(Len(in) + Len(out))
    BY <1>7, <1>9
  <2>2. ASSUME NEW i \in DOMAIN in
        PROVE  i \in DOMAIN all /\ all[i] = froms[i]
    BY <1>3, <1>7, <1>9, <2>1
  <2>3. ASSUME NEW i \in DOMAIN out
        PROVE  i + Len(in) \in DOMAIN all /\ all[i + Len(in)] = tos[i]
    <3>1. i + Len(in) \in 1..(Len(in) + Len(out)) /\ ~(i + Len(in) <= Len(in)) /\ (i + Len(in)) - Len(in) = i
      BY <1>3
    <3> QED
      BY <1>7, <1>9, <2>1, <3>1
  <2>4. ASSUME NEW i \in DOMAIN all
        PROVE  \/ i \in DOMAIN in /\ all[i] = froms[i]
               \/ i - Len(in) \in DOMAIN out /\ all[i] = tos[i - Len(in)]
    <3>1. i \in Nat /\ i >= 1 /\ i <= Len(in) + Len(out)
      BY <1>3, <2>1
    <3>2. CASE i <= Len(in)
      BY <1>3, <1>7, <1>9, <3>1, <3>2
    <3>3. CASE ~(i <= Len(in))
      <4>1. i - Len(in) \in DOMAIN out
        BY <1>3, <3>1, <3>3
      <4> QED
        BY <1>7, <1>9, <2>1, <3>3, <4>1
    <3> QED
      BY <3>2, <3>3
  <2> QED
    BY <2>2, <2>3, <2>4
<1>11. ToSet(all) = {graph.edges[e].from : e \in ToSet(in)} \union {graph.edges[e].to : e \in ToSet(out)}
  <2>1. \A x : x \in ToSet(all) <=> \E i \in DOMAIN all : all[i] = x
    BY DEF ToSet
  <2>2. \A x : (\E i \in DOMAIN in : froms[i] = x) <=> \E e \in ToSet(in) : graph.edges[e].from = x
    BY <1>3, <1>4
  <2>3. \A x : (\E i \in DOMAIN out : tos[i] = x) <=> \E e \in ToSet(out) : graph.edges[e].to = x
    BY <1>3, <1>4
  <2>4. PICK F, T : /\ F = {graph.edges[e].from : e \in ToSet(in)}
                    /\ T = {graph.edges[e].to : e \in ToSet(out)}
    OBVIOUS
  <2>5. \A x : /\ x \in F <=> \E e \in ToSet(in) : graph.edges[e].from = x
               /\ x \in T <=> \E e \in ToSet(out) : graph.edges[e].to = x
    BY <2>4
  <2>6. \A x : x \in ToSet(all) <=> x \in F \/ x \in T
    BY <1>10, <2>1, <2>2, <2>3, <2>5
  <2> QED
    BY <2>4, <2>6
<1>12. all = Neighbours(n)
  BY <1>1, <1>4, <1>8 DEF Neighbours
<1> QED
  BY <1>1, <1>2, <1>9, <1>11, <1>12

(* The layer of a data node without neighbours is the first one, that of    *)
(* others is not right of all neighbours, and that of a data node with one  *)
(* edge is the neighbour's.                                                 *)
LEMMA MeanOfNeighbours ==
    ASSUME IsGraph(graph), EndsExist(graph), Mirrored(graph),
           \A e \in DOMAIN graph.edges : graph.edges[e].type # "Replaced",
           NEW n \in DOMAIN graph.nodes, NEW layer, layer = MeanLayer(NeighbourLayers(n)).layer
    PROVE  /\ (\A m \in DOMAIN graph.nodes : graph.nodes[m].layer < graph.numLayers)
                 => layer < graph.numLayers
           /\ \A e \in DOMAIN graph.edges :
                 LET other == OtherEnd(graph.edges[e], n)
                 IN IsOnlyEdge(graph, n, e) /\ Place(graph.nodes[other]) = Place(graph.nodes[n])
                       => layer = graph.nodes[other].layer
<1>1. PICK D, S : D = DOMAIN graph.nodes /\ S = {m \in D : graph.nodes[m].lane = graph.nodes[n].lane}
  OBVIOUS
<1>2. PICK all \in Seq(D) : all = Neighbours(n)
  BY <1>1, NeighboursOf
<1>3. PICK own : own = Retained(all, S)
  OBVIOUS
<1>4. own \in Seq(D) /\ ToSet(own) = ToSet(all) \cap S
  BY <1>2, <1>3, CountRetained, RetainedMembers
<1>5. PICK layers \in Seq(Nat) : layers = NeighbourLayers(n)
  BY NeighbourLayersType
<1>6. layers = [i \in DOMAIN own |-> graph.nodes[own[i]].layer]
  BY <1>1, <1>2, <1>3, <1>5 DEF NeighbourLayers, Neighbours
<1>7. DOMAIN layers = DOMAIN own /\ \A i \in DOMAIN layers : own[i] \in ToSet(own) /\ own[i] \in D
  BY <1>4, <1>6 DEF ToSet
<1>8. \A m \in D : graph.nodes[m].layer \in Nat
  BY <1>1, HalfLayersType
<1>9. graph.numLayers \in Nat
  BY GraphParts
<1>10. ASSUME \A m \in DOMAIN graph.nodes : graph.nodes[m].layer < graph.numLayers
       PROVE  layer < graph.numLayers
  <2>1. PICK low, high \in Nat : low = 0 /\ high = graph.numLayers - 1
    <3>1. graph.nodes[n].layer \in Nat /\ graph.nodes[n].layer < graph.numLayers
      BY <1>1, <1>8, <1>10
    <3>2. graph.numLayers - 1 \in Nat /\ 0 \in Nat
      BY <1>9, <3>1
    <3> QED
      BY <3>2
  <2>2. \A i \in DOMAIN layers : low <= layers[i] /\ layers[i] <= high
    BY <1>1, <1>6, <1>7, <1>8, <1>9, <1>10, <2>1
  <2>3. MeanLayer(layers).layer <= high
    BY <2>2, MeanLayerBounds
  <2>4. MeanLayer(layers).layer \in Nat
    BY MeanLayerType
  <2> QED
    BY <1>5, <1>9, <2>1, <2>3, <2>4
<1>11. ASSUME NEW e \in DOMAIN graph.edges, IsOnlyEdge(graph, n, e),
              NEW other, other = OtherEnd(graph.edges[e], n),
              Place(graph.nodes[other]) = Place(graph.nodes[n])
       PROVE  layer = graph.nodes[other].layer
  <2>1. /\ n \in {graph.edges[e].from, graph.edges[e].to} /\ graph.edges[e].from # graph.edges[e].to
        /\ \A d \in DOMAIN graph.edges : n \in {graph.edges[d].from, graph.edges[d].to} => d = e
    BY <1>11 DEF IsOnlyEdge
  <2>2. ToSet(all) =
           {graph.edges[d].from : d \in {d \in DOMAIN graph.edges : graph.edges[d].to = n}}
           \union {graph.edges[d].to : d \in {d \in DOMAIN graph.edges : graph.edges[d].from = n}}
    BY <1>2, NeighboursOf
  <2>3. ToSet(all) = {other}
    BY <1>11, <2>1, <2>2 DEF OtherEnd
  <2>4. other \in S
    <3>1. other \in D
      BY <1>1, <1>11 DEF EndsExist, OtherEnd
    <3> QED
      BY <1>1, <1>11, <3>1 DEF Place
  <2>5. ToSet(own) = {other}
    BY <1>4, <2>3, <2>4
  <2>6. \A i \in DOMAIN layers : layers[i] = graph.nodes[other].layer
    BY <1>6, <1>7, <2>5
  <2>7. layers # <<>>
    <3>1. \E i \in DOMAIN own : own[i] = other
      BY <2>5 DEF ToSet
    <3>2. DOMAIN layers # {}
      BY <1>7, <3>1
    <3> QED
      BY <3>2
  <2>8. PICK high \in Nat : high = graph.nodes[other].layer
    BY <1>1, <1>8, <2>4
  <2>9. MeanLayer(layers).layer = high
    <3>1. \A i \in DOMAIN layers : high <= layers[i] /\ layers[i] <= high
      BY <2>6, <2>8
    <3> QED
      BY <2>7, <3>1, MeanLayerBounds
  <2> QED
    BY <1>5, <2>8, <2>9
<1> QED
  BY <1>10, <1>11

(* A placed data node is not right of the last layer, and a lone one is in  *)
(* the layer of its neighbour.                                              *)
LEMMA PlaceDataNodeDataNodes ==
    ASSUME LayersInv, PlaceDataNode
    PROVE  BoundInv' /\ LoneInv'
<1>1. /\ IsGraph(graph) /\ EndsExist(graph) /\ Mirrored(graph) /\ LanesComplete(graph)
      /\ \A e \in DOMAIN graph.edges : FlowFits(graph, e)
      /\ phase = "data" /\ at \in Nat /\ at >= 1
      /\ DOMAIN graph.nodes = 1..Len(graph.nodes) /\ Len(graph.nodes) \in Nat
  BY LayersInvParts, GraphParts DEF PlaceDataNode, LayersInv, UnplacedInv
<1>2. /\ \A n \in DOMAIN graph.nodes, e \in DOMAIN graph.edges : LoneFits(graph, HasLayer(n), n, e)
      /\ \A n \in DOMAIN graph.nodes : graph.nodes[n].layer < graph.numLayers
  BY <1>1, LoneInvIn DEF LayersInv, BoundInv
<1>3. ASSUME graph' = graph, NEW n \in DOMAIN graph.nodes, NEW e \in DOMAIN graph.edges,
             IsData(graph.nodes[n]) => n < at
      PROVE  LoneFits(graph', HasLayer(n)', n, e)
  <2>1. IsData(graph.nodes[n]) => HasLayer(n)
    BY <1>1, <1>3 DEF HasLayer
  <2> QED
    BY <1>2, <1>3, <2>1 DEF LoneFits
<1>4. CASE at > Len(graph.nodes)
  <2>1. phase' = "dummies" /\ graph' = graph
    BY <1>4 DEF PlaceDataNode
  <2>2. \A n \in DOMAIN graph.nodes : n < at
    BY <1>1, <1>4
  <2>3. \A n \in DOMAIN graph'.nodes, e \in DOMAIN graph'.edges : LoneFits(graph', HasLayer(n)', n, e)
    BY <1>3, <2>1, <2>2
  <2> QED
    BY <1>2, <2>1, <2>3, LoneInvIn DEF BoundInv
<1>5. CASE at <= Len(graph.nodes) /\ ~IsData(graph.nodes[at])
  <2>1. phase' = "data" /\ at' = at + 1 /\ graph' = graph
    BY <1>1, <1>5 DEF PlaceDataNode
  <2>2. ASSUME NEW n \in DOMAIN graph.nodes, NEW e \in DOMAIN graph.edges
        PROVE  LoneFits(graph', HasLayer(n)', n, e)
    <3>1. CASE n < at \/ ~IsData(graph.nodes[n])
      BY <1>3, <2>1, <3>1
    <3>2. CASE ~(n < at) /\ IsData(graph.nodes[n])
      <4>1. n # at
        BY <1>5, <3>2
      <4>2. ~(n < at + 1)
        BY <1>1, <3>2, <4>1
      <4>3. ~HasLayer(n)'
        BY <2>1, <4>2 DEF HasLayer
      <4> QED
        BY <1>2, <2>1, <4>3 DEF LoneFits
    <3> QED
      BY <3>1, <3>2
  <2> QED
    BY <1>2, <2>1, <2>2, LoneInvIn DEF BoundInv
<1>6. CASE at <= Len(graph.nodes) /\ IsData(graph.nodes[at])
  <2>1. phase' = "data" /\ at' = at + 1 /\ graph' = Placed(at) /\ at \in DOMAIN graph.nodes
    BY <1>1, <1>6 DEF PlaceDataNode
  <2>2. FlowsTurnable(at)
    <3> SUFFICES ASSUME NEW e \in DOMAIN graph.edges
                 PROVE  /\ graph.edges[e].type # "Replaced"
                        /\ ~(graph.edges[e].from = at /\ graph.edges[e].to = at)
      BY DEF FlowsTurnable
    <3>1. FlowFits(graph, e) /\ graph.edges[e].flow \in {"sequence", "message", "data"}
      BY <1>1, GraphParts DEF GraphEdges
    <3> QED
      BY <1>6, <3>1 DEF FlowFits, From, To, SamePool
  <2>3. PICK r : r = Placed(at)
    OBVIOUS
  <2>4. PICK layer \in Nat, half \in BOOLEAN :
           IsPlaced(r, at, layer, half) /\ layer = MeanLayer(NeighbourLayers(at)).layer
    BY <1>1, <2>1, <2>2, <2>3, PlacedEffect
  <2>5. \A e \in DOMAIN graph.edges : graph.edges[e].type # "Replaced"
    BY <1>1 DEF FlowFits
  <2>6. /\ layer < graph.numLayers
        /\ \A e \in DOMAIN graph.edges :
              LET other == OtherEnd(graph.edges[e], at)
              IN IsOnlyEdge(graph, at, e) /\ Place(graph.nodes[other]) = Place(graph.nodes[at])
                    => layer = graph.nodes[other].layer
    BY <1>1, <1>2, <2>1, <2>4, <2>5, MeanOfNeighbours
  <2>7. /\ r.numLayers = graph.numLayers /\ DOMAIN r.nodes = DOMAIN graph.nodes
        /\ DOMAIN r.edges = DOMAIN graph.edges
        /\ \A m \in DOMAIN graph.nodes :
              /\ IsData(r.nodes[m]) <=> IsData(graph.nodes[m])
              /\ Place(r.nodes[m]) = Place(graph.nodes[m])
              /\ r.nodes[m].layer = IF m = at THEN layer ELSE graph.nodes[m].layer
    BY <2>4 DEF IsPlaced, IsData, Place
  <2>8. ASSUME NEW e \in DOMAIN graph.edges
        PROVE  /\ {r.edges[e].from, r.edges[e].to} = {graph.edges[e].from, graph.edges[e].to}
               /\ r.edges[e].from = r.edges[e].to <=> graph.edges[e].from = graph.edges[e].to
               /\ r.edges[e].type = graph.edges[e].type
    BY <2>4 DEF IsPlaced, TurnedEdge, SameEdge
  <2>9. ASSUME NEW n \in DOMAIN graph.nodes, NEW e \in DOMAIN graph.edges
        PROVE  LoneFits(r, n < at + 1, n, e)
    <3> SUFFICES ASSUME IsData(r.nodes[n]), IsOnlyEdge(r, n, e)
                 PROVE  LoneFits(r, n < at + 1, n, e)
      BY DEF LoneFits
    <3>1. IsOnlyEdge(graph, n, e)
      BY <2>7, <2>8 DEF IsOnlyEdge
    <3>2. PICK other : other = OtherEnd(graph.edges[e], n) /\ other = OtherEnd(r.edges[e], n)
      <4>1. n \in {graph.edges[e].from, graph.edges[e].to}
        BY <3>1 DEF IsOnlyEdge
      <4> QED
        BY <2>8, <4>1 DEF OtherEnd
    <3>3. other \in DOMAIN graph.nodes
      BY <1>1, <3>2 DEF EndsExist, OtherEnd
    <3>4. /\ other < n /\ Place(graph.nodes[other]) = Place(graph.nodes[n])
          /\ HasLayer(n) => graph.nodes[other].layer = graph.nodes[n].layer
      BY <1>2, <2>7, <3>1, <3>2 DEF LoneFits
    <3>5. ASSUME n < at + 1
          PROVE  r.nodes[other].layer = r.nodes[n].layer
      <4>1. n \in Nat /\ other \in Nat
        BY <1>1, <3>3
      <4>2. CASE n = at
        <5>1. other # at
          BY <3>4, <4>1, <4>2
        <5>2. layer = graph.nodes[other].layer
          BY <2>6, <3>1, <3>2, <3>4, <4>2
        <5> QED
          BY <2>7, <3>3, <4>2, <5>1, <5>2
      <4>3. CASE n # at
        <5>1. n < at /\ other # at
          BY <1>1, <3>4, <3>5, <4>1, <4>3
        <5>2. HasLayer(n)
          BY <1>1, <5>1 DEF HasLayer
        <5> QED
          BY <2>7, <3>3, <3>4, <4>3, <5>1, <5>2
      <4> QED
        BY <4>2, <4>3
    <3>6. Place(r.nodes[other]) = Place(r.nodes[n])
      BY <2>7, <3>3, <3>4
    <3> QED
      BY <3>2, <3>4, <3>5, <3>6 DEF LoneFits
  <2>10. graph' = r
    BY <2>1, <2>3
  <2>11. \A n : HasLayer(n)' <=> n < at + 1
    BY <2>1 DEF HasLayer
  <2>12. LoneInv'
    BY <2>7, <2>9, <2>10, <2>11, LoneInvIn DEF LoneFits
  <2>13. \A n \in DOMAIN r.nodes : r.nodes[n].layer < r.numLayers
    BY <1>2, <2>6, <2>7
  <2> QED
    BY <2>1, <2>10, <2>12, <2>13 DEF BoundInv
<1> QED
  BY <1>1, <1>4, <1>5, <1>6

(* A step of the placement of data nodes keeps the invariant.               *)
LEMMA PlaceDataNodeKeeps ==
    ASSUME LayersInv, PlaceDataNode
    PROVE  LayersInv'
<1>1. /\ IsGraph(graph) /\ EndsExist(graph) /\ Mirrored(graph) /\ LanesComplete(graph)
      /\ \A e \in DOMAIN graph.edges : FlowFits(graph, e)
      /\ phase = "data" /\ at \in Nat /\ at >= 1
      /\ Len(graph.edges) = Len(parsed.edges)
      /\ parsed' = parsed
  BY LayersInvParts DEF PlaceDataNode, LayersInv, UnplacedInv
<1>2. /\ DOMAIN graph.nodes = 1..Len(graph.nodes) /\ Len(graph.nodes) \in Nat
      /\ DOMAIN graph.edges = 1..Len(graph.edges) /\ Len(graph.edges) \in Nat
  BY <1>1, GraphParts
<1>3. UnplacedInv /\ PlacedInv /\ CyclesInv
  BY DEF LayersInv
<1>4. CASE at > Len(graph.nodes)
  <2>1. phase' = "dummies" /\ at' = 1 /\ graph' = graph
    BY <1>4 DEF PlaceDataNode
  <2>2. TypeOK' /\ GraphInv' /\ CyclesInv'
    BY <1>1, <2>1 DEF LayersInv, TypeOK, GraphInv, CyclesInv
  <2>3. \A e \in DOMAIN graph.edges : graph.edges[e].to \in DOMAIN graph.nodes
    BY <1>1 DEF EndsExist
  <2>4. \A e \in DOMAIN graph.edges : PointsRight(e)
    BY <1>1, <1>2, <1>3, <1>4, <2>3 DEF PlacedInv
  <2>5. EdgesPointRight'
    <3>1. \A e \in DOMAIN graph'.edges : PointsRight(e)'
      BY <2>1, <2>4, PointsRightIn
    <3> QED
      BY <3>1 DEF EdgesPointRight
  <2>6. SplitInv'
    <3>1. ASSUME NEW e \in DOMAIN graph'.edges
          PROVE  /\ ~(e < at' \/ Len(parsed'.edges) < e)
                 /\ graph'.edges[e].type = "Regular"
                 /\ graph'.edges[e].flow = "message" => ~SamePool(graph', e)
      BY <1>1, <1>2, <2>1 DEF FlowFits
    <3> QED
      BY <1>1, <1>2, <2>1, <3>1 DEF SplitInv, SamePool, From, To
  <2> QED
    BY <2>1, <2>2, <2>5, <2>6, PlaceDataNodeDataNodes DEF LayersInv, FlowsInv, UnplacedInv, PlacedInv
<1>5. CASE at <= Len(graph.nodes) /\ ~IsData(graph.nodes[at])
  <2>1. phase' = phase /\ at' = at + 1 /\ graph' = graph
    BY <1>1, <1>2, <1>5 DEF PlaceDataNode
  <2>2. TypeOK' /\ GraphInv' /\ CyclesInv' /\ FlowsInv'
    BY SMTT(30), <1>1, <2>1 DEF LayersInv, TypeOK, GraphInv, CyclesInv, FlowsInv, IsData, SamePool, From, To
  <2>3. UnplacedInv'
    BY <1>1, <1>2, <1>3, <1>5, <2>1 DEF UnplacedInv, IsData
  <2>4. ASSUME NEW e \in DOMAIN graph.edges,
               IsData(To(graph, e)) /\ at + 1 <= graph.edges[e].to => IsData(From(graph, e))
        PROVE  RightIn(graph, e)
    <3>1. graph.edges[e].to \in DOMAIN graph.nodes /\ To(graph, e) = graph.nodes[graph.edges[e].to]
      BY <1>1 DEF EndsExist, To
    <3>2. IsData(To(graph, e)) /\ at <= graph.edges[e].to => IsData(From(graph, e))
      BY <1>1, <1>2, <1>5, <2>4, <3>1
    <3> QED
      BY <1>1, <1>3, <3>2, PointsRightIn DEF PlacedInv
  <2>5. PlacedInv'
    <3>1. \A e : /\ IsData(To(graph, e))' <=> IsData(To(graph', e))
                 /\ IsData(From(graph, e))' <=> IsData(From(graph', e))
      BY DEF IsData, To, From
    <3> QED
      BY <2>1, <2>4, <3>1, PointsRightIn DEF PlacedInv
  <2> QED
    BY <1>1, <2>1, <2>2, <2>3, <2>5, PlaceDataNodeDataNodes DEF LayersInv, EdgesPointRight, SplitInv
<1>6. CASE at <= Len(graph.nodes) /\ IsData(graph.nodes[at])
  <2>1. phase' = phase /\ at' = at + 1 /\ graph' = Placed(at) /\ at \in DOMAIN graph.nodes
    BY <1>1, <1>2, <1>6 DEF PlaceDataNode
  <2>2. FlowsTurnable(at)
    <3> SUFFICES ASSUME NEW e \in DOMAIN graph.edges
                 PROVE  /\ graph.edges[e].type # "Replaced"
                        /\ ~(graph.edges[e].from = at /\ graph.edges[e].to = at)
      BY DEF FlowsTurnable
    <3>1. FlowFits(graph, e) /\ graph.edges[e].flow \in {"sequence", "message", "data"}
      BY <1>1, GraphParts DEF GraphEdges
    <3> QED
      BY <1>6, <3>1 DEF FlowFits, From, To, SamePool
  <2>3. PICK r : r = Placed(at)
    OBVIOUS
  <2>4. /\ IsGraph(r) /\ EndsExist(r) /\ Mirrored(r) /\ LanesComplete(r)
        /\ \E layer \in Nat, half \in BOOLEAN :
              IsPlaced(r, at, layer, half) /\ layer = MeanLayer(NeighbourLayers(at)).layer
    BY <1>1, <2>1, <2>2, <2>3, PlacedEffect
  <2>5. PICK layer \in Nat, half \in BOOLEAN : IsPlaced(r, at, layer, half)
    BY <2>4
  <2>6. graph' = r
    BY <2>1, <2>3
  <2>7. /\ r.lanes = graph.lanes /\ DOMAIN r.nodes = DOMAIN graph.nodes
        /\ Len(r.edges) = Len(graph.edges) /\ DOMAIN r.edges = DOMAIN graph.edges
        /\ \A m \in DOMAIN graph.nodes :
              /\ r.nodes[m].kind = graph.nodes[m].kind
              /\ r.nodes[m].above = graph.nodes[m].above /\ r.nodes[m].below = graph.nodes[m].below
              /\ m # at => /\ r.nodes[m].layer = graph.nodes[m].layer
                           /\ r.nodes[m].half = graph.nodes[m].half
    BY <2>5 DEF IsPlaced
  <2>8. TypeOK' /\ GraphInv' /\ CyclesInv'
    BY <1>1, <1>3, <2>1, <2>4, <2>6, <2>7 DEF LayersInv, TypeOK, GraphInv, CyclesInv
  <2>9. \A e \in DOMAIN graph.edges : FlowFits(r, e)
    BY <1>1, <2>1, <2>5, PlacedFlowsFit
  <2>10. FlowsInv'
    BY <1>1, <2>1, <2>6, <2>7, <2>9 DEF FlowsInv, FlowFits
  <2>11. UnplacedInv'
    <3>1. \A m \in DOMAIN graph.nodes : IsData(r.nodes[m]) <=> IsData(graph.nodes[m])
      BY <2>7 DEF IsData
    <3> QED
      BY <1>1, <1>2, <1>3, <1>6, <2>1, <2>6, <2>7, <3>1 DEF UnplacedInv
  <2>12. \A e \in DOMAIN graph.edges :
            (IsData(To(r, e)) /\ at + 1 <= r.edges[e].to => IsData(From(r, e))) => RightIn(r, e)
    BY <1>1, <1>3, <1>6, <2>1, <2>2, <2>4, <2>5, PlacedRight
  <2>13. PlacedInv'
    <3>1. \A e : /\ IsData(To(graph, e))' <=> IsData(To(graph', e))
                 /\ IsData(From(graph, e))' <=> IsData(From(graph', e))
      BY DEF IsData, To, From
    <3> QED
      BY <2>1, <2>6, <2>7, <2>12, <3>1, PointsRightIn DEF PlacedInv
  <2> QED
    BY <1>1, <2>1, <2>8, <2>10, <2>11, <2>13, PlaceDataNodeDataNodes
       DEF LayersInv, EdgesPointRight, SplitInv
<1> QED
  BY <1>1, <1>2, <1>4, <1>5, <1>6

-----------------------------------------------------------------------------
(* generate_dummy_nodes() *)

(* The fields of an edge between dummies.                                   *)
IsDummyEdge(edge, from, to, flow, boundary, original) ==
    /\ edge \in GraphEdges /\ edge.type = "Dummy" /\ edge.from = from /\ edge.to = to
    /\ edge.flow = flow /\ edge.boundary = boundary /\ edge.original = original

(* An edge between dummies has the fields that it was made from.            *)
LEMMA DummyEdgeIsEdge ==
    ASSUME NEW from \in Nat, NEW to \in Nat, NEW flow \in {"sequence", "message", "data"},
           NEW boundary \in BOOLEAN, NEW original \in Nat,
           NEW edge, edge = DummyEdge(from, to, flow, boundary, original)
    PROVE  IsDummyEdge(edge, from, to, flow, boundary, original)
BY DEF IsDummyEdge, DummyEdge, GraphEdges

(* An edge over more than one layer.                                        *)
Splittable(e) ==
    /\ IsGraph(graph) /\ EndsExist(graph) /\ Mirrored(graph) /\ LanesComplete(graph)
    /\ e \in DOMAIN graph.edges /\ graph.edges[e].type # "Replaced"
    /\ From(graph, e).layer + 1 < To(graph, e).layer

(* The edges of the chain for e: one to each dummy, and one to its end.     *)
Hop(e, i) ==
    DummyEdge(ChainNode(e, i), ChainNode(e, i + 1), graph.edges[e].flow,
              graph.edges[e].boundary /\ ~graph.edges[e].reversed /\ i = 1, e)

LastHop(e, i) ==
    DummyEdge(ChainNode(e, i), graph.edges[e].to, graph.edges[e].flow,
              graph.edges[e].boundary /\ graph.edges[e].reversed, e)

(* A dummy that has just been put into this layer.                          *)
IsDummyIn(node, layer) ==
    node.kind = "Dummy" /\ node.layer = layer /\ node.half = FALSE /\ node.above = 0 /\ node.below = 0

(* The graph after i dummies, and the edges to them, were added.            *)
ChainGrown(r, e, i) ==
    /\ EndsExist(r) /\ LanesComplete(r) /\ MirroredBut(r, e) /\ r.numLayers = graph.numLayers
    /\ Len(r.nodes) = Len(graph.nodes) + i /\ Len(r.edges) = Len(graph.edges) + i
    /\ \A n \in DOMAIN graph.nodes : SameNode(r.nodes[n], graph.nodes[n])
    /\ \A j \in 1..i : IsDummyIn(r.nodes[Len(graph.nodes) + j], From(graph, e).layer + j)
    /\ \A d \in DOMAIN graph.edges : r.edges[d] = Replaced(e).edges[d]
    /\ \A j \in 1..i : r.edges[Len(graph.edges) + j] = Hop(e, j)

(* The types of what the chain is made of.                                  *)
LEMMA SplittableTypes ==
    ASSUME NEW e, Splittable(e)
    PROVE  /\ Len(graph.nodes) \in Nat /\ DOMAIN graph.nodes = 1..Len(graph.nodes)
           /\ Len(graph.edges) \in Nat /\ DOMAIN graph.edges = 1..Len(graph.edges)
           /\ graph.edges[e].from \in DOMAIN graph.nodes /\ graph.edges[e].to \in DOMAIN graph.nodes
           /\ graph.edges[e].flow \in {"sequence", "message", "data"}
           /\ graph.edges[e].boundary \in BOOLEAN /\ graph.edges[e].reversed \in BOOLEAN
           /\ e \in Nat /\ From(graph, e).layer \in Nat /\ To(graph, e).layer \in Nat
           /\ Place(From(graph, e)) \in Nat \X Nat /\ Place(To(graph, e)) \in Nat \X Nat
           /\ Place(From(graph, e)) \in DOMAIN graph.lanes /\ Place(To(graph, e)) \in DOMAIN graph.lanes
<1>1. /\ Len(graph.nodes) \in Nat /\ DOMAIN graph.nodes = 1..Len(graph.nodes)
      /\ Len(graph.edges) \in Nat /\ DOMAIN graph.edges = 1..Len(graph.edges)
      /\ e \in DOMAIN graph.edges /\ graph.edges[e] \in GraphEdges
  BY GraphParts DEF Splittable
<1>2. graph.edges[e].from \in DOMAIN graph.nodes /\ graph.edges[e].to \in DOMAIN graph.nodes
  BY <1>1 DEF Splittable, EndsExist
<1>3. /\ graph.edges[e].flow \in {"sequence", "message", "data"}
      /\ graph.edges[e].boundary \in BOOLEAN /\ graph.edges[e].reversed \in BOOLEAN
  BY <1>1 DEF GraphEdges
<1>4. From(graph, e) \in GraphNodes /\ To(graph, e) \in GraphNodes
  BY <1>2, GraphParts DEF Splittable, From, To
<1>5. PICK S : S = Seq(Nat)
  OBVIOUS
<1>6. /\ From(graph, e).layer \in Nat /\ To(graph, e).layer \in Nat
      /\ Place(From(graph, e)) \in Nat \X Nat /\ Place(To(graph, e)) \in Nat \X Nat
  BY <1>4, <1>5 DEF GraphNodes, Place
<1>7. Place(From(graph, e)) \in DOMAIN graph.lanes /\ Place(To(graph, e)) \in DOMAIN graph.lanes
  BY <1>2 DEF Splittable, EndsExist, From, To
<1> QED
  BY <1>1, <1>2, <1>3, <1>6, <1>7

(* A hop leads to the next node of the chain.                               *)
LEMMA HopIsEdge ==
    ASSUME NEW e, Splittable(e), NEW i \in Nat, i >= 1
    PROVE  /\ IsDummyEdge(Hop(e, i), ChainNode(e, i), ChainNode(e, i + 1), graph.edges[e].flow,
                          graph.edges[e].boundary /\ ~graph.edges[e].reversed /\ i = 1, e)
           /\ IsDummyEdge(LastHop(e, i), ChainNode(e, i), graph.edges[e].to, graph.edges[e].flow,
                          graph.edges[e].boundary /\ graph.edges[e].reversed, e)
           /\ ChainNode(e, i) \in 1..(Len(graph.nodes) + i - 1)
           /\ ChainNode(e, i + 1) = Len(graph.nodes) + i
<1>1. /\ Len(graph.nodes) \in Nat /\ graph.edges[e].from \in 1..Len(graph.nodes)
      /\ graph.edges[e].to \in 1..Len(graph.nodes) /\ e \in Nat
  BY SplittableTypes
<1>2. PICK a, b : a = ChainNode(e, i) /\ b = ChainNode(e, i + 1)
  OBVIOUS
<1>3. a \in 1..(Len(graph.nodes) + i - 1) /\ b = Len(graph.nodes) + i
  BY <1>1, <1>2 DEF ChainNode
<1>4. PICK c : c = graph.edges[e].to
  OBVIOUS
<1>5. a \in Nat /\ b \in Nat /\ c \in Nat
  BY <1>1, <1>3, <1>4
<1>6. PICK flow \in {"sequence", "message", "data"} : flow = graph.edges[e].flow
  BY SplittableTypes
<1>7. PICK first \in BOOLEAN, last \in BOOLEAN :
         /\ first = (graph.edges[e].boundary /\ ~graph.edges[e].reversed /\ i = 1)
         /\ last = (graph.edges[e].boundary /\ graph.edges[e].reversed)
  BY SplittableTypes
<1>8. PICK hop, final : hop = DummyEdge(a, b, flow, first, e) /\ final = DummyEdge(a, c, flow, last, e)
  OBVIOUS
<1>9. IsDummyEdge(hop, a, b, flow, first, e) /\ IsDummyEdge(final, a, c, flow, last, e)
  BY <1>1, <1>5, <1>8, DummyEdgeIsEdge
<1>10. hop = Hop(e, i) /\ final = LastHop(e, i)
  BY <1>2, <1>4, <1>6, <1>7, <1>8 DEF Hop, LastHop
<1> QED
  BY <1>2, <1>3, <1>4, <1>6, <1>7, <1>9, <1>10

(* One more dummy, and the edge to it.                                      *)
LEMMA GrowChain ==
    ASSUME NEW e, Splittable(e), NEW i \in Nat, i >= 1,
           NEW place \in Nat \X Nat, place \in DOMAIN graph.lanes,
           NEW r, IsGraph(r), DOMAIN r.lanes = DOMAIN graph.lanes, ChainGrown(r, e, i - 1),
           NEW s, s = WithDummy(r, e, i, place)
    PROVE  IsGraph(s) /\ DOMAIN s.lanes = DOMAIN graph.lanes /\ ChainGrown(s, e, i)
<1>1. PICK M, N \in Nat : /\ M = Len(graph.nodes) /\ DOMAIN graph.nodes = 1..M
                          /\ N = Len(graph.edges) /\ DOMAIN graph.edges = 1..N
  BY SplittableTypes
<1>2. PICK layer \in Nat : layer = From(graph, e).layer + i
  BY SplittableTypes
<1>3. /\ Len(r.nodes) = M + (i - 1) /\ DOMAIN r.nodes = 1..(M + (i - 1)) /\ r.nodes \in Seq(GraphNodes)
      /\ Len(r.edges) = N + (i - 1) /\ DOMAIN r.edges = 1..(N + (i - 1)) /\ r.edges \in Seq(GraphEdges)
      /\ EndsExist(r) /\ LanesComplete(r) /\ MirroredBut(r, e)
  BY <1>1, GraphParts DEF ChainGrown
<1>4. PICK q, hop : q = AddNode(r, "Dummy", place, layer) /\ hop = Hop(e, i)
  OBVIOUS
<1>5. s = AddEdge(q, hop)
  BY <1>2, <1>4 DEF WithDummy, Hop
<1>6. IsGraph(q) /\ NodeAdded(q, r, "Dummy", place, layer)
  BY <1>4, AddNodeEffect
<1>7. EndsExist(q) /\ LanesComplete(q) /\ MirroredBut(q, e)
  BY <1>3, <1>6, AddNodeKeeps
<1>8. PICK node : node = NewNode("Dummy", place, layer)
  OBVIOUS
<1>9. IsNewNode(node, "Dummy", place, layer)
  BY <1>8, NewNodeIsNode
<1>10. /\ q.nodes = Append(r.nodes, node) /\ q.edges = r.edges /\ DOMAIN q.lanes = DOMAIN r.lanes
  BY <1>6, <1>8 DEF NodeAdded
<1>11. /\ DOMAIN q.nodes = 1..(M + i) /\ q.nodes[M + i] = node /\ Len(q.nodes) = M + i
       /\ \A n \in 1..(M + (i - 1)) : q.nodes[n] = r.nodes[n]
  <2>1. node \in GraphNodes
    BY <1>9 DEF IsNewNode
  <2>2. PICK T : T = GraphNodes
    OBVIOUS
  <2>3. r.nodes \in Seq(T) /\ node \in T
    BY <1>3, <2>1, <2>2
  <2> QED
    BY SMTT(30), <1>1, <1>3, <1>10, <2>3
<1>12. /\ hop \in GraphEdges /\ hop.type # "Replaced"
       /\ hop.from \in DOMAIN q.nodes /\ hop.to \in DOMAIN q.nodes
  <2>1. /\ IsDummyEdge(hop, ChainNode(e, i), ChainNode(e, i + 1), graph.edges[e].flow,
                       graph.edges[e].boundary /\ ~graph.edges[e].reversed /\ i = 1, e)
        /\ ChainNode(e, i) \in 1..(M + i - 1) /\ ChainNode(e, i + 1) = M + i
    BY <1>1, <1>4, HopIsEdge
  <2>2. hop \in GraphEdges /\ hop.type = "Dummy" /\ hop.from \in 1..(M + i - 1) /\ hop.to = M + i
    BY <2>1 DEF IsDummyEdge
  <2> QED
    BY <1>1, <1>11, <2>2
<1>13. IsGraph(s) /\ EdgeAdded(s, q, hop)
  BY <1>5, <1>6, <1>12, AddEdgeEffect
<1>14. EndsExist(s) /\ SamePlaces(s, q)
  BY <1>6, <1>7, <1>12, <1>13, AddEdgeEnds
<1>15. MirroredBut(s, e)
  BY <1>6, <1>7, <1>12, <1>13, AddEdgeMirrored
<1>16. LanesComplete(s)
  BY <1>7, <1>14, SamePlacesKeepLanes
<1>17. DOMAIN s.lanes = DOMAIN graph.lanes
  BY <1>10, <1>14 DEF SamePlaces
<1>18. /\ DOMAIN s.nodes = 1..(M + i) /\ Len(s.nodes) = M + i
       /\ \A n \in 1..(M + i) : SameNode(s.nodes[n], q.nodes[n])
  BY <1>11, <1>13, <1>14 DEF SamePlaces, EdgeAdded
<1>19. /\ Len(s.edges) = N + i /\ s.edges[N + i] = hop
       /\ \A d \in 1..(N + (i - 1)) : s.edges[d] = r.edges[d]
  <2>1. PICK T : T = GraphEdges
    OBVIOUS
  <2>2. r.edges \in Seq(T) /\ hop \in T /\ s.edges = Append(r.edges, hop)
    BY <1>3, <1>10, <1>12, <1>13, <2>1 DEF EdgeAdded
  <2> QED
    BY SMTT(30), <1>1, <1>3, <2>2
<1>20. \A n \in DOMAIN graph.nodes : SameNode(s.nodes[n], graph.nodes[n])
  <2> SUFFICES ASSUME NEW n \in 1..M
               PROVE  SameNode(s.nodes[n], graph.nodes[n])
    BY <1>1
  <2>1. n \in 1..(M + (i - 1)) /\ n \in 1..(M + i)
    BY <1>1
  <2>2. SameNode(s.nodes[n], q.nodes[n]) /\ q.nodes[n] = r.nodes[n] /\ SameNode(r.nodes[n], graph.nodes[n])
    BY <1>1, <1>11, <1>18, <2>1 DEF ChainGrown
  <2> QED
    BY <2>2 DEF SameNode
<1>21. ASSUME NEW j \in 1..i
       PROVE  /\ IsDummyIn(s.nodes[M + j], From(graph, e).layer + j)
              /\ s.edges[N + j] = Hop(e, j)
  <2>1. CASE j = i
    <3>1. SameNode(s.nodes[M + i], node)
      <4>1. M + i \in 1..(M + i)
        BY <1>1
      <4> QED
        BY <1>11, <1>18, <4>1
    <3>2. IsDummyIn(s.nodes[M + i], layer)
      BY <1>9, <3>1 DEF IsNewNode, SameNode, IsDummyIn
    <3> QED
      BY <1>2, <1>4, <1>19, <2>1, <3>2
  <2>2. CASE j # i
    <3>1. /\ j \in 1..(i - 1) /\ M + j \in 1..(M + (i - 1)) /\ M + j \in 1..(M + i)
          /\ N + j \in 1..(N + (i - 1))
      <4>1. j \in 1..(i - 1)
        BY <2>2
      <4>2. M \in Nat /\ N \in Nat
        BY <1>1
      <4> QED
        BY <4>1, <4>2
    <3>2. SameNode(s.nodes[M + j], r.nodes[M + j])
      BY <1>11, <1>18, <3>1
    <3>3. IsDummyIn(r.nodes[M + j], From(graph, e).layer + j) /\ r.edges[N + j] = Hop(e, j)
      BY <1>1, <3>1 DEF ChainGrown
    <3>4. IsDummyIn(s.nodes[M + j], From(graph, e).layer + j)
      BY <3>2, <3>3 DEF IsDummyIn, SameNode
    <3> QED
      BY <1>19, <3>1, <3>3, <3>4
  <2> QED
    BY <2>1, <2>2
<1>22. \A d \in DOMAIN graph.edges : s.edges[d] = Replaced(e).edges[d]
  <2> SUFFICES ASSUME NEW d \in 1..N
               PROVE  s.edges[d] = Replaced(e).edges[d]
    BY <1>1
  <2>1. d \in 1..(N + (i - 1))
    BY <1>1
  <2> QED
    BY <1>1, <1>19, <2>1 DEF ChainGrown
<1>23. s.numLayers = graph.numLayers
  BY <1>6, <1>13 DEF ChainGrown, NodeAdded, EdgeAdded
<1> QED
  BY <1>1, <1>13, <1>14, <1>15, <1>16, <1>17, <1>18, <1>19, <1>20, <1>21, <1>22, <1>23
     DEF ChainGrown

(* The marked edge, before there are dummies.                               *)
LEMMA ChainBegins ==
    ASSUME NEW e, Splittable(e), NEW r, r = Replaced(e)
    PROVE  /\ IsGraph(r) /\ DOMAIN r.lanes = DOMAIN graph.lanes /\ ChainGrown(r, e, 0)
           /\ r.edges = [graph.edges EXCEPT ![e] = [@ EXCEPT !.type = "Replaced",
                                                             !.first = Len(graph.edges) + 1]]
<1>1. PICK first \in Nat : first = Len(graph.edges) + 1
  BY SplittableTypes
<1>2. r = Marked(graph, e, first)
  BY <1>1 DEF Replaced, Marked
<1>3. /\ IsGraph(r) /\ EndsExist(r) /\ LanesComplete(r) /\ MirroredBut(r, e)
      /\ r.nodes = graph.nodes /\ r.lanes = graph.lanes /\ r.numLayers = graph.numLayers
      /\ r.edges = [graph.edges EXCEPT ![e] = [@ EXCEPT !.type = "Replaced", !.first = first]]
  <2>1. /\ IsGraph(graph) /\ EndsExist(graph) /\ LanesComplete(graph) /\ Mirrored(graph)
        /\ e \in DOMAIN graph.edges /\ graph.edges[e].type # "Replaced"
    BY DEF Splittable
  <2>2. /\ IsGraph(r) /\ EndsExist(r) /\ LanesComplete(r) /\ MirroredBut(r, e)
        /\ IsMarked(r, graph, e, first)
    BY <1>2, <2>1, MarkedKeeps
  <2> QED
    BY <2>2 DEF IsMarked
<1>4. Len(r.edges) = Len(graph.edges)
  <2>1. DOMAIN r.edges = DOMAIN graph.edges
    BY <1>3
  <2> QED
    BY <1>3, <2>1, GraphParts DEF Splittable
<1>5. Len(r.nodes) = Len(graph.nodes) /\ Len(graph.nodes) \in Nat /\ Len(graph.edges) \in Nat
  BY <1>3, SplittableTypes
<1>6. \A n \in DOMAIN graph.nodes : SameNode(r.nodes[n], graph.nodes[n])
  BY <1>3 DEF SameNode
<1>7. ChainGrown(r, e, 0)
  BY <1>3, <1>4, <1>5, <1>6 DEF ChainGrown
<1> QED
  BY <1>1, <1>3, <1>7

(* The dummies are put into the lanes of the ends.                          *)
LEMMA DummyPlacesExist ==
    ASSUME NEW e, Splittable(e)
    PROVE  /\ DOMAIN DummyPlaces(e) = 1..(To(graph, e).layer - From(graph, e).layer - 1)
           /\ Len(DummyPlaces(e)) = To(graph, e).layer - From(graph, e).layer - 1
           /\ \A i \in DOMAIN DummyPlaces(e) :
                 DummyPlaces(e)[i] \in Nat \X Nat /\ DummyPlaces(e)[i] \in DOMAIN graph.lanes
<1>1. PICK total \in Nat : total = To(graph, e).layer - From(graph, e).layer - 1
  <2>1. From(graph, e).layer \in Nat /\ To(graph, e).layer \in Nat
    BY SplittableTypes
  <2> QED
    BY <2>1 DEF Splittable
<1>2. PICK P : P = {place \in Nat \X Nat : place \in DOMAIN graph.lanes}
  OBVIOUS
<1>3. Place(From(graph, e)) \in P /\ Place(To(graph, e)) \in P
  BY <1>2, SplittableTypes
<1>4. DummyPlaces(e) = [i \in 1..total |-> IF i <= total \div 2 THEN Place(From(graph, e))
                                           ELSE Place(To(graph, e))]
  BY <1>1 DEF DummyPlaces
<1>5. DummyPlaces(e) \in [1..total -> P]
  BY <1>3, <1>4
<1>6. Len(DummyPlaces(e)) = total /\ DOMAIN DummyPlaces(e) = 1..total
  BY <1>5, FunctionIsSeq
<1> QED
  BY <1>1, <1>2, <1>5, <1>6

(* All dummies are added, and the edge from the last of them to the end.    *)
LEMMA WithChainEffect ==
    ASSUME NEW e, Splittable(e), NEW k, k = To(graph, e).layer - From(graph, e).layer - 1,
           NEW r, r = WithChain(e)
    PROVE  \E q : /\ IsGraph(q) /\ DOMAIN q.lanes = DOMAIN graph.lanes /\ ChainGrown(q, e, k)
                  /\ r = AddEdge(q, LastHop(e, k + 1))
<1>1. PICK places : places = DummyPlaces(e)
  OBVIOUS
<1>2. PICK m \in Nat : m = Len(places) /\ DOMAIN places = 1..m /\ m = k
  <2>1. From(graph, e).layer \in Nat /\ To(graph, e).layer \in Nat
    BY SplittableTypes
  <2>2. k \in Nat
    BY <2>1 DEF Splittable
  <2> QED
    BY <1>1, <2>2, DummyPlacesExist
<1>3. \A i \in 1..m : places[i] \in Nat \X Nat /\ places[i] \in DOMAIN graph.lanes
  BY <1>1, <1>2, DummyPlacesExist
<1> DEFINE grow(i, x) == WithDummy(x, e, i, places[i])
           U == GraphsOn(DOMAIN graph.lanes)
           G == [i \in 0..m |-> {x \in U : ChainGrown(x, e, i)}]
           Is(chain) == chain = [i \in 0..m |-> IF i = 0 THEN Replaced(e)
                                                ELSE WithDummy(chain[i - 1], e, i, places[i])]
           next == [i \in 1..m |-> [x \in U |-> grow(i, x)]]
<1>4. /\ \A i \in 0..m : \A x : x \in G[i] <=> x \in U /\ ChainGrown(x, e, i)
      /\ \A i \in 1..m : i \in 0..m /\ i - 1 \in 0..m /\ i # 0
  OBVIOUS
<1>5. \A i \in 1..m : \A x \in G[i - 1] : x \in U /\ next[i][x] = grow(i, x)
  BY <1>4
<1>6. \A x : x \in U <=> IsGraph(x) /\ DOMAIN x.lanes = DOMAIN graph.lanes
  BY GraphsOnLanes
<1> HIDE DEF G, next, U
<1>7. Replaced(e) \in G[0]
  <2>1. IsGraph(Replaced(e)) /\ DOMAIN Replaced(e).lanes = DOMAIN graph.lanes /\ ChainGrown(Replaced(e), e, 0)
    BY ChainBegins
  <2> QED
    BY <1>4, <1>6, <2>1
<1>8. \A i \in 1..m : \A x \in G[i - 1] : grow(i, x) \in G[i]
  <2> SUFFICES ASSUME NEW i \in 1..m, NEW x, x \in G[i - 1]
               PROVE  grow(i, x) \in G[i]
    OBVIOUS
  <2>1. /\ IsGraph(x) /\ DOMAIN x.lanes = DOMAIN graph.lanes /\ ChainGrown(x, e, i - 1)
        /\ i \in Nat /\ i >= 1
    BY <1>4, <1>6
  <2>2. PICK s, place : place = places[i] /\ s = WithDummy(x, e, i, place)
    OBVIOUS
  <2>3. place \in Nat \X Nat /\ place \in DOMAIN graph.lanes
    BY <1>3, <2>2
  <2>4. IsGraph(s) /\ DOMAIN s.lanes = DOMAIN graph.lanes /\ ChainGrown(s, e, i)
    BY <2>1, <2>2, <2>3, GrowChain
  <2>5. s = grow(i, x)
    BY <2>2
  <2> HIDE DEF grow
  <2> QED
    BY <1>4, <1>6, <2>4, <2>5
<1>9. \E chain : Is(chain)
  <2>1. Stages(m, G, Replaced(e), next)
    BY <1>5, <1>7, <1>8 DEF Stages
  <2>2. PICK chain : chain \in UnfoldedIn(m, G, Replaced(e), next)
    BY <2>1, StagesUnfold
  <2>3. /\ DOMAIN chain = 0..m /\ chain = [i \in 0..m |-> chain[i]]
        /\ \A i \in 0..m : /\ chain[i] \in G[i]
                           /\ chain[i] = IF i = 0 THEN Replaced(e) ELSE next[i][chain[i - 1]]
    BY <2>2 DEF UnfoldedIn
  <2>4. \A i \in 0..m : chain[i] = IF i = 0 THEN Replaced(e) ELSE grow(i, chain[i - 1])
    <3>1. \A i \in 0..m : i # 0 => i \in 1..m /\ i - 1 \in 0..m
      OBVIOUS
    <3> HIDE DEF grow
    <3> QED
      BY <1>5, <2>3, <3>1
  <2>5. Is(chain)
    BY <2>3, <2>4
  <2> HIDE DEF Is
  <2> QED
    BY <2>5
<1>10. PICK chain : Is(chain) /\ r = AddEdge(chain[m], LastHop(e, m + 1))
  <2>1. r = AddEdge((CHOOSE chain : Is(chain))[m], LastHop(e, m + 1))
    BY <1>1, <1>2 DEF WithChain, LastHop
  <2> HIDE DEF Is
  <2> QED
    BY <1>9, <2>1
<1>11. chain[0] = Replaced(e) /\ \A i \in 1..m : chain[i] = grow(i, chain[i - 1])
  <2>1. \A i \in 0..m : chain[i] = IF i = 0 THEN Replaced(e) ELSE grow(i, chain[i - 1])
    BY <1>10
  <2> HIDE DEF grow
  <2> QED
    BY <1>4, <2>1
<1> HIDE DEF grow, Is
<1>12. \A i \in 0..m : chain[i] \in G[i]
  <2>1. \A i \in 1..m : chain[i - 1] \in G[i - 1] => chain[i] \in G[i]
    BY <1>8, <1>11
  <2>2. chain[0] \in G[0]
    BY <1>7, <1>11
  <2> QED
    BY <2>1, <2>2, StagesHold
<1>13. m \in 0..m
  OBVIOUS
<1>14. IsGraph(chain[m]) /\ DOMAIN chain[m].lanes = DOMAIN graph.lanes /\ ChainGrown(chain[m], e, m)
  BY <1>4, <1>6, <1>12, <1>13
<1> QED
  BY <1>2, <1>10, <1>14

(* What splitting edge e with k dummies does, field by field.               *)
IsSplit(r, e, k) ==
    /\ DOMAIN r.lanes = DOMAIN graph.lanes /\ r.numLayers = graph.numLayers
    /\ DOMAIN r.nodes = 1..(Len(graph.nodes) + k) /\ DOMAIN r.edges = 1..(Len(graph.edges) + k + 1)
    /\ Len(r.edges) = Len(graph.edges) + k + 1
    /\ \A n \in DOMAIN graph.nodes : SameNode(r.nodes[n], graph.nodes[n])
    /\ \A j \in 1..k : IsDummyIn(r.nodes[Len(graph.nodes) + j], From(graph, e).layer + j)
    /\ \A d \in DOMAIN graph.edges : r.edges[d] = Replaced(e).edges[d]
    /\ \A j \in 1..k : r.edges[Len(graph.edges) + j] = Hop(e, j)
    /\ r.edges[Len(graph.edges) + k + 1] = LastHop(e, k + 1)

(* The edge is replaced by a chain, and the lists and the lanes stay whole. *)
LEMMA SplitEffect ==
    ASSUME NEW e, Splittable(e), NEW k, k = To(graph, e).layer - From(graph, e).layer - 1,
           NEW r, r = Split(e)
    PROVE  /\ IsGraph(r) /\ EndsExist(r) /\ Mirrored(r) /\ LanesComplete(r)
           /\ IsSplit(r, e, k) /\ k \in Nat /\ k >= 1
<1>1. k \in Nat /\ k >= 1
  <2>1. From(graph, e).layer \in Nat /\ To(graph, e).layer \in Nat
    BY SplittableTypes
  <2> QED
    BY <2>1 DEF Splittable
<1>2. PICK M, N \in Nat : /\ M = Len(graph.nodes) /\ DOMAIN graph.nodes = 1..M
                          /\ N = Len(graph.edges) /\ DOMAIN graph.edges = 1..N
  BY SplittableTypes
<1>3. PICK from, to : from = graph.edges[e].from /\ to = graph.edges[e].to
  OBVIOUS
<1>4. from \in 1..M /\ to \in 1..M /\ e \in 1..N
  BY <1>2, <1>3, SplittableTypes DEF Splittable
<1>5. PICK w : w = WithChain(e)
  OBVIOUS
<1>6. PICK q : /\ IsGraph(q) /\ DOMAIN q.lanes = DOMAIN graph.lanes /\ ChainGrown(q, e, k)
               /\ w = AddEdge(q, LastHop(e, k + 1))
  BY <1>5, WithChainEffect
<1>7. PICK hop : hop = LastHop(e, k + 1)
  OBVIOUS
<1>8. /\ Len(q.nodes) = M + k /\ DOMAIN q.nodes = 1..(M + k)
      /\ Len(q.edges) = N + k /\ DOMAIN q.edges = 1..(N + k) /\ q.edges \in Seq(GraphEdges)
      /\ EndsExist(q) /\ LanesComplete(q) /\ MirroredBut(q, e)
  BY <1>2, <1>6, GraphParts DEF ChainGrown
<1>9. hop \in GraphEdges /\ hop.type # "Replaced" /\ hop.from \in DOMAIN q.nodes /\ hop.to \in DOMAIN q.nodes
  <2>1. k + 1 \in Nat /\ k + 1 >= 1
    BY <1>1
  <2>2. /\ IsDummyEdge(hop, ChainNode(e, k + 1), to, graph.edges[e].flow,
                       graph.edges[e].boundary /\ graph.edges[e].reversed, e)
        /\ ChainNode(e, k + 1) \in 1..(M + (k + 1) - 1)
    BY <1>2, <1>3, <1>7, <2>1, HopIsEdge
  <2>3. hop \in GraphEdges /\ hop.type = "Dummy" /\ hop.from \in 1..(M + (k + 1) - 1) /\ hop.to = to
    BY <2>2 DEF IsDummyEdge
  <2> QED
    BY <1>1, <1>2, <1>4, <1>8, <2>3
<1>10. w = AddEdge(q, hop)
  BY <1>6, <1>7
<1>11. IsGraph(w) /\ EdgeAdded(w, q, hop)
  BY <1>6, <1>9, <1>10, AddEdgeEffect
<1>12. EndsExist(w) /\ SamePlaces(w, q)
  BY <1>6, <1>8, <1>9, <1>11, AddEdgeEnds
<1>13. MirroredBut(w, e)
  BY <1>6, <1>8, <1>9, <1>11, AddEdgeMirrored
<1>14. LanesComplete(w)
  BY <1>8, <1>12, SamePlacesKeepLanes
<1>15. /\ Len(w.edges) = N + k + 1 /\ DOMAIN w.edges = 1..(N + k + 1) /\ w.edges[N + k + 1] = hop
       /\ \A d \in 1..(N + k) : w.edges[d] = q.edges[d]
  <2>1. PICK T : T = GraphEdges
    OBVIOUS
  <2>2. q.edges \in Seq(T) /\ hop \in T /\ w.edges = Append(q.edges, hop)
    BY <1>8, <1>9, <1>11, <2>1 DEF EdgeAdded
  <2> QED
    BY <1>1, <1>2, <1>8, <2>2
<1>16. DOMAIN w.nodes = 1..(M + k) /\ DOMAIN w.lanes = DOMAIN graph.lanes
  BY <1>6, <1>8, <1>12 DEF SamePlaces
<1>17. r = Unlisted(w, e, from, to)
  BY <1>3, <1>5 DEF Split, Unlisted
<1>18. from \in DOMAIN w.nodes /\ to \in DOMAIN w.nodes
  BY <1>1, <1>2, <1>4, <1>16
<1>19. IsGraph(r) /\ EdgeUnlisted(r, w, e, from, to)
  BY <1>11, <1>17, <1>18, UnlistedEffect
<1>20. \A d \in DOMAIN graph.edges : w.edges[d] = Replaced(e).edges[d]
  <2> SUFFICES ASSUME NEW d \in 1..N
               PROVE  w.edges[d] = Replaced(e).edges[d]
    BY <1>2
  <2>1. d \in 1..(N + k)
    BY <1>1, <1>2
  <2> QED
    BY <1>2, <1>6, <1>15, <2>1 DEF ChainGrown
<1>21. e \in DOMAIN w.edges /\ w.edges[e].type = "Replaced" /\ w.edges[e].from = from /\ w.edges[e].to = to
  <2>1. e \in DOMAIN graph.edges /\ graph.edges[e] \in GraphEdges
    BY GraphParts DEF Splittable
  <2>2. PICK d : d = graph.edges[e] /\ d \in GraphEdges
    BY <2>1
  <2>3. Replaced(e).edges = [graph.edges EXCEPT ![e] = [@ EXCEPT !.type = "Replaced",
                                                                !.first = Len(graph.edges) + 1]]
    BY ChainBegins
  <2>4. w.edges[e] = [d EXCEPT !.type = "Replaced", !.first = Len(graph.edges) + 1]
    BY <1>20, <2>1, <2>2, <2>3
  <2>5. e \in 1..(N + k + 1)
    BY <1>1, <1>2, <1>4
  <2> QED
    BY <1>3, <1>15, <2>2, <2>4, <2>5 DEF GraphEdges
<1>22. Mirrored(r) /\ SamePlaces(r, w) /\ r.edges = w.edges
  BY <1>11, <1>13, <1>19, <1>21, UnlistedMirrored
<1>23. LanesComplete(r)
  BY <1>14, <1>22, SamePlacesKeepLanes
<1>24. EndsExist(r)
  <2>1. \A n \in DOMAIN w.nodes : Place(r.nodes[n]) = Place(w.nodes[n])
    BY <1>22, SamePlacesKeepLanes
  <2> QED
    BY <1>12, <1>22, <2>1 DEF EndsExist, SamePlaces
<1>25. \A n \in 1..(M + k) : SameNode(r.nodes[n], q.nodes[n])
  <2> SUFFICES ASSUME NEW n \in 1..(M + k)
               PROVE  SameNode(r.nodes[n], q.nodes[n])
    OBVIOUS
  <2>1. SameNode(r.nodes[n], w.nodes[n]) /\ SameNode(w.nodes[n], q.nodes[n])
    BY <1>8, <1>12, <1>16, <1>22 DEF SamePlaces
  <2> QED
    BY <2>1 DEF SameNode
<1>26. \A n \in DOMAIN graph.nodes : SameNode(r.nodes[n], graph.nodes[n])
  <2> SUFFICES ASSUME NEW n \in 1..M
               PROVE  SameNode(r.nodes[n], graph.nodes[n])
    BY <1>2
  <2>1. n \in 1..(M + k)
    BY <1>1, <1>2
  <2>2. SameNode(r.nodes[n], q.nodes[n]) /\ SameNode(q.nodes[n], graph.nodes[n])
    BY <1>2, <1>6, <1>25, <2>1 DEF ChainGrown
  <2> QED
    BY <2>2 DEF SameNode
<1>27. ASSUME NEW j \in 1..k
       PROVE  /\ IsDummyIn(r.nodes[M + j], From(graph, e).layer + j)
              /\ r.edges[N + j] = Hop(e, j)
  <2>1. M + j \in 1..(M + k) /\ N + j \in 1..(N + k)
    <3>1. M \in Nat /\ N \in Nat /\ k \in Nat
      BY <1>1, <1>2
    <3> QED
      BY <3>1
  <2>2. /\ IsDummyIn(q.nodes[M + j], From(graph, e).layer + j) /\ q.edges[N + j] = Hop(e, j)
        /\ SameNode(r.nodes[M + j], q.nodes[M + j]) /\ r.edges[N + j] = q.edges[N + j]
    BY <1>2, <1>6, <1>15, <1>22, <1>25, <2>1 DEF ChainGrown
  <2> QED
    BY <2>2 DEF IsDummyIn, SameNode
<1>28. DOMAIN r.nodes = 1..(M + k) /\ DOMAIN r.lanes = DOMAIN graph.lanes
  BY <1>16, <1>22 DEF SamePlaces
<1>29. r.numLayers = graph.numLayers
  BY <1>6, <1>11, <1>19 DEF ChainGrown, EdgeAdded, EdgeUnlisted
<1>30. IsSplit(r, e, k)
  BY <1>2, <1>7, <1>15, <1>20, <1>22, <1>26, <1>27, <1>28, <1>29 DEF IsSplit
<1> QED
  BY <1>1, <1>19, <1>22, <1>23, <1>24, <1>30

(* Two nodes of the same pool in the same layer.                            *)
SamePlacement(a, b) ==
    /\ a.pool = b.pool /\ a.layer = b.layer /\ a.half = b.half
    /\ HalfLayers(a) = HalfLayers(b)

(* What a split leaves of an edge that was there.                           *)
SplitLeaves(r, e, d) ==
    /\ d \in DOMAIN r.edges
    /\ d # e => r.edges[d] = graph.edges[d]
    /\ d = e => /\ r.edges[d].type = "Replaced" /\ r.edges[d].first = Len(graph.edges) + 1
                /\ r.edges[d].boundary = graph.edges[d].boundary
                /\ r.edges[d].reversed = graph.edges[d].reversed
    /\ r.edges[d].from = graph.edges[d].from /\ r.edges[d].to = graph.edges[d].to
    /\ SamePlacement(From(r, d), From(graph, d)) /\ SamePlacement(To(r, d), To(graph, d))

(* The edges that were there keep their ends, and these their places.       *)
LEMMA SplitLeavesEdges ==
    ASSUME NEW e, Splittable(e), NEW k \in Nat, NEW r, IsSplit(r, e, k), NEW d \in DOMAIN graph.edges
    PROVE  SplitLeaves(r, e, d)
<1>1. PICK N \in Nat : N = Len(graph.edges) /\ DOMAIN graph.edges = 1..N
  BY SplittableTypes
<1>2. d \in DOMAIN r.edges
  <2>1. d \in 1..(N + k + 1)
    BY <1>1
  <2> QED
    BY <1>1, <2>1 DEF IsSplit
<1>3. PICK old : old = graph.edges[d] /\ old \in GraphEdges
  BY GraphParts DEF Splittable
<1>4. PICK new : new = r.edges[d]
  OBVIOUS
<1>5. Replaced(e).edges = [graph.edges EXCEPT ![e] = [@ EXCEPT !.type = "Replaced", !.first = N + 1]]
  BY <1>1, ChainBegins
<1>6. new = IF d = e THEN [old EXCEPT !.type = "Replaced", !.first = N + 1] ELSE old
  BY <1>3, <1>4, <1>5 DEF IsSplit, Splittable
<1>7. new.from = old.from /\ new.to = old.to
  BY <1>3, <1>6 DEF GraphEdges
<1>8. d = e => /\ new.type = "Replaced" /\ new.first = N + 1
               /\ new.boundary = old.boundary /\ new.reversed = old.reversed
  BY <1>3, <1>6 DEF GraphEdges
<1>9. old.from \in DOMAIN graph.nodes /\ old.to \in DOMAIN graph.nodes
  BY <1>3 DEF Splittable, EndsExist
<1>10. \A n \in DOMAIN graph.nodes : SamePlacement(r.nodes[n], graph.nodes[n])
  BY DEF IsSplit, SameNode, SamePlacement, HalfLayers
<1>11. /\ From(r, d) = r.nodes[old.from] /\ From(graph, d) = graph.nodes[old.from]
       /\ To(r, d) = r.nodes[old.to] /\ To(graph, d) = graph.nodes[old.to]
  BY <1>3, <1>4, <1>7 DEF From, To
<1> QED
  BY <1>1, <1>2, <1>3, <1>4, <1>6, <1>7, <1>8, <1>9, <1>10, <1>11 DEF SplitLeaves

(* The j-th edge of the chain leads from its layer to the next.             *)
SplitHop(r, e, k, j) ==
    LET d == Len(graph.edges) + j
        edge == graph.edges[e]
    IN /\ d \in DOMAIN r.edges /\ r.edges[d].type = "Dummy" /\ r.edges[d].original = e
       /\ r.edges[d].from = ChainNode(e, j)
       /\ r.edges[d].to = IF j = k + 1 THEN edge.to ELSE Len(graph.nodes) + j
       /\ r.edges[d].boundary <=> edge.boundary /\ IF edge.reversed THEN j = k + 1 ELSE j = 1
       /\ From(r, d).layer = From(graph, e).layer + j - 1
       /\ To(r, d).layer = From(graph, e).layer + j
       /\ HalfLayers(From(r, d)) <= HalfLayers(To(r, d))

(* Every edge of the chain is over one layer, and none points to the left.  *)
LEMMA SplitHops ==
    ASSUME NEW e, Splittable(e), NEW k \in Nat, k = To(graph, e).layer - From(graph, e).layer - 1, k >= 1,
           NEW r, IsSplit(r, e, k), NEW j \in 1..(k + 1)
    PROVE  SplitHop(r, e, k, j)
<1>1. PICK M, N \in Nat : /\ M = Len(graph.nodes) /\ DOMAIN graph.nodes = 1..M
                          /\ N = Len(graph.edges) /\ DOMAIN graph.edges = 1..N
  BY SplittableTypes
<1>2. PICK d \in Nat : d = N + j
  BY <1>1
<1>3. d \in DOMAIN r.edges
  <2>1. d \in 1..(N + k + 1)
    <3>1. N \in Nat
      BY <1>1
    <3> QED
      BY <1>2, <3>1
  <2> QED
    BY <1>1, <2>1 DEF IsSplit
<1>4. PICK from, to : from = graph.edges[e].from /\ to = graph.edges[e].to
  OBVIOUS
<1>5. PICK F, T \in Nat : F = From(graph, e).layer /\ T = To(graph, e).layer
  BY SplittableTypes
<1>6. T = F + k + 1
  BY <1>5
<1>7. /\ from \in DOMAIN graph.nodes /\ to \in DOMAIN graph.nodes
      /\ graph.nodes[from].layer = F /\ graph.nodes[to].layer = T
  BY <1>4, <1>5, SplittableTypes DEF From, To
<1>8. PICK boundary \in BOOLEAN, reversed \in BOOLEAN :
         boundary = graph.edges[e].boundary /\ reversed = graph.edges[e].reversed
  BY SplittableTypes
<1>9. j \in Nat /\ j >= 1
  OBVIOUS
<1>10. PICK a, b : a = ChainNode(e, j) /\ b = IF j = k + 1 THEN to ELSE M + j
  OBVIOUS
<1>11. /\ r.edges[d].type = "Dummy" /\ r.edges[d].original = e
       /\ r.edges[d].from = a /\ r.edges[d].to = b
       /\ r.edges[d].boundary <=> boundary /\ IF reversed THEN j = k + 1 ELSE j = 1
  <2>1. CASE j = k + 1
    <3>1. r.edges[d] = LastHop(e, j)
      <4>1. r.edges[N + k + 1] = LastHop(e, k + 1)
        BY <1>1 DEF IsSplit
      <4>2. d = N + k + 1
        BY SMTT(30), <1>1, <1>2, <2>1
      <4> QED
        BY <2>1, <4>1, <4>2
    <3>2. IsDummyEdge(r.edges[d], a, to, graph.edges[e].flow, boundary /\ reversed, e)
      BY <1>4, <1>8, <1>9, <1>10, <3>1, HopIsEdge
    <3>3. j # 1
      BY <2>1
    <3> QED
      BY <1>10, <2>1, <3>2, <3>3 DEF IsDummyEdge
  <2>2. CASE j # k + 1
    <3>1. j \in 1..k
      BY <2>2
    <3>2. r.edges[d] = Hop(e, j)
      BY <1>1, <1>2, <3>1 DEF IsSplit
    <3>3. /\ IsDummyEdge(r.edges[d], a, ChainNode(e, j + 1), graph.edges[e].flow,
                         boundary /\ ~reversed /\ j = 1, e)
          /\ ChainNode(e, j + 1) = M + j
      BY <1>1, <1>8, <1>9, <1>10, <3>2, HopIsEdge
    <3> QED
      BY <1>10, <2>2, <3>3 DEF IsDummyEdge
  <2> QED
    BY <2>1, <2>2
<1>12. \A i \in 1..k : IsDummyIn(r.nodes[M + i], F + i)
  BY <1>1, <1>5 DEF IsSplit
<1>13. \A n \in DOMAIN graph.nodes : SameNode(r.nodes[n], graph.nodes[n])
  BY DEF IsSplit
<1>14. r.nodes[a].layer = F + j - 1 /\ (r.nodes[a].half \in BOOLEAN)
  <2>1. CASE j = 1
    <3>1. a = from
      BY <1>4, <1>10, <2>1 DEF ChainNode
    <3>2. r.nodes[a].layer = F /\ r.nodes[a].half = graph.nodes[from].half
      BY <1>7, <1>13, <3>1 DEF SameNode
    <3>3. graph.nodes[from].half \in BOOLEAN
      BY <1>7, HalfLayersType DEF Splittable
    <3> QED
      BY <1>5, <2>1, <3>2, <3>3
  <2>2. CASE j # 1
    <3>1. PICK i \in 1..k : i = j - 1
      BY <2>2
    <3>2. a = M + i
      <4>1. a = M + j - 1
        BY <1>1, <1>10, <2>2 DEF ChainNode
      <4> QED
        BY <1>1, <3>1, <4>1
    <3>3. r.nodes[a].layer = F + i /\ r.nodes[a].half = FALSE
      BY <1>12, <3>2 DEF IsDummyIn
    <3> QED
      BY <1>5, <3>1, <3>3
  <2> QED
    BY <2>1, <2>2
<1>15. r.nodes[b].layer = F + j /\ (r.nodes[b].half \in BOOLEAN)
  <2>1. CASE j = k + 1
    <3>1. r.nodes[b].layer = T /\ r.nodes[b].half = graph.nodes[to].half
      BY <1>7, <1>10, <1>13, <2>1 DEF SameNode
    <3>2. graph.nodes[to].half \in BOOLEAN
      BY <1>7, HalfLayersType DEF Splittable
    <3> QED
      <4>1. T = F + j
        <5>1. F \in Nat /\ T \in Nat
          BY <1>5
        <5> QED
          BY <1>6, <2>1, <5>1
      <4>2. r.nodes[b].half \in BOOLEAN
        BY <3>1, <3>2
      <4> QED
        BY <3>1, <4>1, <4>2
  <2>2. CASE j # k + 1
    <3>1. j \in 1..k /\ b = M + j
      BY <1>10, <2>2
    <3> QED
      BY <1>12, <3>1 DEF IsDummyIn
  <2> QED
    BY <2>1, <2>2
<1>16. From(r, d) = r.nodes[a] /\ To(r, d) = r.nodes[b]
  BY <1>11 DEF From, To
<1>17. HalfLayers(r.nodes[a]) <= HalfLayers(r.nodes[b])
  <2>1. PICK f, t : f = r.nodes[a].half /\ t = r.nodes[b].half
    OBVIOUS
  <2>2. /\ HalfLayers(r.nodes[a]) = 2 * (F + j - 1) + IF f THEN 1 ELSE 0
        /\ HalfLayers(r.nodes[b]) = 2 * (F + j) + IF t THEN 1 ELSE 0
    BY <1>14, <1>15, <2>1 DEF HalfLayers
  <2> QED
    BY <1>5, <1>9, <2>2
<1> QED
  BY <1>1, <1>2, <1>3, <1>4, <1>5, <1>8, <1>10, <1>11, <1>14, <1>15, <1>16, <1>17 DEF SplitHop

(* IsShortOrChain of a graph.                                               *)
ShortOrChainIn(g, e) ==
    /\ g.edges[e].type = "Replaced" => IsChain(g, e)
    /\ g.edges[e].type # "Replaced" /\ SamePool(g, e) => To(g, e).layer - From(g, e).layer \in {0, 1}

(* They are the same, also in the next state.                               *)
LEMMA IsShortOrChainIn ==
    \A e : /\ IsShortOrChain(e) <=> ShortOrChainIn(graph, e)
           /\ IsShortOrChain(e)' <=> ShortOrChainIn(graph', e)
BY DEF IsShortOrChain, ShortOrChainIn, IsChain, HopsOf, SamePool, From, To

(* A split edge is a chain.                                                 *)
LEMMA SplitIsChain ==
    ASSUME NEW e, Splittable(e), NEW k \in Nat, k = To(graph, e).layer - From(graph, e).layer - 1, k >= 1,
           \A d \in DOMAIN graph.edges : ~(graph.edges[d].type = "Dummy" /\ graph.edges[d].original = e),
           NEW r, IsSplit(r, e, k)
    PROVE  IsChain(r, e)
<1>1. PICK M, N \in Nat : /\ M = Len(graph.nodes) /\ DOMAIN graph.nodes = 1..M
                          /\ N = Len(graph.edges) /\ DOMAIN graph.edges = 1..N
  BY SplittableTypes
<1>2. e \in DOMAIN graph.edges
  BY DEF Splittable
<1>3. /\ r.edges[e].type = "Replaced" /\ r.edges[e].first = N + 1
      /\ r.edges[e].boundary = graph.edges[e].boundary /\ r.edges[e].reversed = graph.edges[e].reversed
      /\ r.edges[e].from = graph.edges[e].from /\ r.edges[e].to = graph.edges[e].to
      /\ From(r, e).layer = From(graph, e).layer /\ To(r, e).layer = To(graph, e).layer
  BY <1>1, <1>2, SplitLeavesEdges DEF SplitLeaves, SamePlacement
<1>4. PICK F \in Nat : F = From(graph, e).layer
  BY SplittableTypes
<1>5. To(graph, e).layer = F + k + 1
  <2>1. To(graph, e).layer \in Nat
    BY SplittableTypes
  <2> QED
    BY <1>4, <2>1
<1>6. PICK first, last \in Nat : first = N + 1 /\ last = N + k + 1
  BY <1>1
<1>7. last = r.edges[e].first + To(r, e).layer - From(r, e).layer - 1 /\ first = r.edges[e].first
  <2>1. /\ From(r, e).layer = F /\ To(r, e).layer = F + k + 1
        /\ r.edges[e].first = N + 1 /\ F \in Nat /\ N \in Nat
    BY <1>1, <1>3, <1>4, <1>5
  <2>2. N + 1 + (F + k + 1) - F - 1 = N + k + 1
    BY <2>1
  <2> QED
    BY <1>6, <2>1, <2>2
<1>8. \A j \in 1..(k + 1) : SplitHop(r, e, k, j)
  BY SplitHops
<1>9. DOMAIN r.edges = 1..last
  BY <1>1, <1>6 DEF IsSplit
<1>10. HopsOf(r, e) = first..last
  <2>1. ASSUME NEW d \in first..last
        PROVE  d \in HopsOf(r, e)
    <3>1. PICK j \in 1..(k + 1) : d = N + j
      <4>1. d - N \in 1..(k + 1) /\ d = N + (d - N)
        BY <1>1, <1>6
      <4> QED
        BY <4>1
    <3> QED
      BY <1>1, <1>8, <3>1 DEF SplitHop, HopsOf
  <2>2. ASSUME NEW d \in HopsOf(r, e)
        PROVE  d \in first..last
    <3>1. d \in 1..last /\ r.edges[d].type = "Dummy" /\ r.edges[d].original = e
      BY <1>9 DEF HopsOf
    <3>2. ~(d \in 1..N)
      <4> SUFFICES ASSUME d \in 1..N
                   PROVE  FALSE
        OBVIOUS
      <4>1. d \in DOMAIN graph.edges
        BY <1>1
      <4>2. d # e
        BY <1>3, <3>1
      <4>3. r.edges[d] = graph.edges[d]
        BY <4>1, <4>2, SplitLeavesEdges DEF SplitLeaves
      <4> QED
        BY <3>1, <4>1, <4>3
    <3> QED
      BY <1>1, <1>6, <3>1, <3>2
  <2> QED
    BY <2>1, <2>2
<1>11. PICK edge : edge = r.edges[e]
  OBVIOUS
<1>12. ASSUME NEW d \in first..last
       PROVE  /\ To(r, d).layer = From(r, e).layer + d - first + 1
              /\ r.edges[d].from = IF d = first THEN edge.from ELSE r.edges[d - 1].to
              /\ d = last => r.edges[d].to = edge.to
              /\ r.edges[d].boundary <=>
                    edge.boundary /\ d = IF edge.reversed THEN last ELSE first
  <2>1. PICK j \in 1..(k + 1) : d = N + j
    <3>1. d - N \in 1..(k + 1) /\ d = N + (d - N)
      BY <1>1, <1>6
    <3> QED
      BY <3>1
  <2>2. SplitHop(r, e, k, j)
    BY <1>8
  <2>3. /\ To(r, d).layer = F + j
        /\ r.edges[d].from = ChainNode(e, j)
        /\ r.edges[d].to = IF j = k + 1 THEN graph.edges[e].to ELSE M + j
        /\ r.edges[d].boundary <=> graph.edges[e].boundary /\ IF graph.edges[e].reversed THEN j = k + 1
                                                             ELSE j = 1
    BY <1>1, <1>4, <2>1, <2>2 DEF SplitHop
  <2>4. (d = first <=> j = 1) /\ (d = last <=> j = k + 1) /\ d - first + 1 = j
    BY <1>1, <1>6, <2>1
  <2>5. To(r, d).layer = From(r, e).layer + d - first + 1
    <3>1. From(r, e).layer = F
      BY <1>3, <1>4
    <3>2. F + d - first + 1 = F + j
      <4>1. F \in Nat /\ N \in Nat /\ j \in Nat
        BY <1>1, <1>4
      <4>2. F + (N + j) - (N + 1) + 1 = F + j
        BY <4>1
      <4> QED
        BY <1>6, <2>1, <4>2
    <3> QED
      BY <2>3, <3>1, <3>2
  <2>6. d # first => r.edges[d].from = r.edges[d - 1].to
    <3> SUFFICES ASSUME d # first
                 PROVE  r.edges[d].from = r.edges[d - 1].to
      OBVIOUS
    <3>1. PICK i \in 1..(k + 1) : i = j - 1
      BY <2>4
    <3>2. d - 1 = N + i /\ i # k + 1
      BY <1>1, <2>1, <3>1
    <3>3. r.edges[d - 1].to = M + i
      <4>1. SplitHop(r, e, k, i)
        BY <1>8
      <4> QED
        BY <1>1, <3>2, <4>1 DEF SplitHop
    <3>4. ChainNode(e, j) = M + i
      <4>1. j # 1
        BY <2>4
      <4>2. ChainNode(e, j) = M + j - 1
        BY <1>1, <4>1 DEF ChainNode
      <4> QED
        BY <1>1, <3>1, <4>2
    <3> QED
      BY <2>3, <3>3, <3>4
  <2>7. d = first => r.edges[d].from = edge.from
    BY <1>3, <1>11, <2>3, <2>4 DEF ChainNode
  <2>8. d = last => r.edges[d].to = edge.to
    BY <1>3, <1>11, <2>3, <2>4
  <2>9. r.edges[d].boundary <=> edge.boundary /\ d = IF edge.reversed THEN last ELSE first
    BY <1>3, <1>11, <2>3, <2>4
  <2> QED
    BY <2>5, <2>6, <2>7, <2>8, <2>9
<1>13. first < last
  BY <1>1, <1>6
<1> QED
  BY <1>7, <1>10, <1>11, <1>12, <1>13 DEF IsChain

(* The other edges stay what they are.                                      *)
LEMMA SplitKeepsShortOrChain ==
    ASSUME NEW e, Splittable(e), graph.edges[e].type = "Regular", NEW k \in Nat,
           k = To(graph, e).layer - From(graph, e).layer - 1, k >= 1,
           NEW r, IsSplit(r, e, k),
           NEW d \in DOMAIN graph.edges, d # e, ShortOrChainIn(graph, d)
    PROVE  ShortOrChainIn(r, d)
<1>1. PICK N \in Nat : N = Len(graph.edges) /\ DOMAIN graph.edges = 1..N
  BY SplittableTypes
<1>2. ASSUME NEW x \in DOMAIN graph.edges
      PROVE  /\ x \in DOMAIN r.edges
             /\ x # e => r.edges[x] = graph.edges[x]
             /\ x = e => r.edges[x].type = "Replaced"
             /\ r.edges[x].to = graph.edges[x].to
             /\ From(r, x).layer = From(graph, x).layer /\ To(r, x).layer = To(graph, x).layer
             /\ From(r, x).pool = From(graph, x).pool /\ To(r, x).pool = To(graph, x).pool
  BY SplitLeavesEdges DEF SplitLeaves, SamePlacement
<1>3. CASE graph.edges[d].type # "Replaced"
  <2>1. SamePool(r, d) <=> SamePool(graph, d)
    BY <1>2 DEF SamePool
  <2> QED
    BY <1>2, <1>3, <2>1 DEF ShortOrChainIn
<1>4. CASE graph.edges[d].type = "Replaced"
  <2>1. IsChain(graph, d)
    BY <1>4 DEF ShortOrChainIn
  <2>2. PICK edge : edge = graph.edges[d] /\ edge = r.edges[d]
    BY <1>2
  <2>3. PICK last : last = edge.first + To(graph, d).layer - From(graph, d).layer - 1
    OBVIOUS
  <2>4. last = edge.first + To(r, d).layer - From(r, d).layer - 1
    BY <1>2, <2>3
  <2>5. /\ HopsOf(graph, d) = edge.first..last
        /\ edge.first < last
        /\ \A x \in HopsOf(graph, d) :
              /\ To(graph, x).layer = From(graph, d).layer + x - edge.first + 1
              /\ graph.edges[x].from = IF x = edge.first THEN edge.from ELSE graph.edges[x - 1].to
              /\ x = last => graph.edges[x].to = edge.to
              /\ graph.edges[x].boundary <=>
                    edge.boundary /\ x = IF edge.reversed THEN last ELSE edge.first
    BY <2>1, <2>2, <2>3 DEF IsChain
  <2>6. HopsOf(graph, d) = HopsOf(r, d)
    <3>1. ASSUME NEW x \in HopsOf(graph, d)
          PROVE  x \in HopsOf(r, d)
      BY <1>2 DEF HopsOf
    <3>2. ASSUME NEW x \in HopsOf(r, d)
          PROVE  x \in HopsOf(graph, d)
      <4>1. x \in 1..(N + k + 1) /\ r.edges[x].type = "Dummy" /\ r.edges[x].original = d
        BY <1>1 DEF HopsOf, IsSplit
      <4>2. CASE x \in 1..N
        <5>1. x \in DOMAIN graph.edges /\ x # e
          BY <1>1, <1>2, <4>1, <4>2
        <5> QED
          BY <1>2, <4>1, <5>1 DEF HopsOf
      <4>3. CASE x \notin 1..N
        <5>1. PICK j \in 1..(k + 1) : x = N + j
          <6>1. x - N \in 1..(k + 1) /\ x = N + (x - N)
            BY <1>1, <4>1, <4>3
          <6> QED
            BY <6>1
        <5>2. \A i \in 1..(k + 1) : SplitHop(r, e, k, i)
          BY SplitHops
        <5>3. SplitHop(r, e, k, j)
          BY <5>2
        <5>4. r.edges[Len(graph.edges) + j].original = e
          BY <5>3 DEF SplitHop
        <5>5. r.edges[x].original = e
          BY <1>1, <5>1, <5>4
        <5> QED
          BY <4>1, <5>5
      <4> QED
        BY <4>2, <4>3
    <3> QED
      BY <3>1, <3>2
  <2>7. ASSUME NEW x \in HopsOf(r, d)
        PROVE  /\ To(r, x).layer = From(r, d).layer + x - edge.first + 1
               /\ r.edges[x].from = IF x = edge.first THEN edge.from ELSE r.edges[x - 1].to
               /\ x = last => r.edges[x].to = edge.to
               /\ r.edges[x].boundary <=>
                     edge.boundary /\ x = IF edge.reversed THEN last ELSE edge.first
    <3>1. x \in DOMAIN graph.edges /\ x # e
      BY <2>6 DEF HopsOf
    <3>2. /\ r.edges[x] = graph.edges[x] /\ To(r, x).layer = To(graph, x).layer
          /\ From(r, d).layer = From(graph, d).layer
      BY <1>2, <3>1
    <3>3. x # edge.first => r.edges[x - 1].to = graph.edges[x - 1].to
      <4> SUFFICES ASSUME x # edge.first
                   PROVE  r.edges[x - 1].to = graph.edges[x - 1].to
        OBVIOUS
      <4>1. x \in edge.first..last /\ edge.first \in Int /\ last \in Int
        <5>1. graph.edges[d] \in GraphEdges
          BY GraphParts DEF Splittable
        <5>2. edge.first \in Nat
          BY <2>2, <5>1 DEF GraphEdges
        <5>3. From(graph, d).layer \in Nat /\ To(graph, d).layer \in Nat
          BY HalfLayersType DEF Splittable, EndsExist, From, To
        <5> QED
          BY <2>3, <2>5, <2>6, <5>2, <5>3
      <4>2. x - 1 \in edge.first..last
        BY <4>1
      <4>3. x - 1 \in DOMAIN graph.edges
        BY <2>5, <4>2 DEF HopsOf
      <4> QED
        BY <1>2, <4>3
    <3>4. /\ To(graph, x).layer = From(graph, d).layer + x - edge.first + 1
          /\ graph.edges[x].from = IF x = edge.first THEN edge.from ELSE graph.edges[x - 1].to
          /\ x = last => graph.edges[x].to = edge.to
          /\ graph.edges[x].boundary <=> edge.boundary /\ x = IF edge.reversed THEN last ELSE edge.first
      BY <2>5, <2>6
    <3>5. r.edges[x].from = IF x = edge.first THEN edge.from ELSE r.edges[x - 1].to
      BY <3>2, <3>3, <3>4
    <3>6. To(r, x).layer = From(r, d).layer + x - edge.first + 1
      BY <3>2, <3>4
    <3>7. x = last => r.edges[x].to = edge.to
      BY <3>2, <3>4
    <3>8. r.edges[x].boundary <=> edge.boundary /\ x = IF edge.reversed THEN last ELSE edge.first
      BY <3>2, <3>4
    <3> QED
      BY <3>5, <3>6, <3>7, <3>8
  <2>8. IsChain(r, d)
    BY <2>2, <2>4, <2>5, <2>6, <2>7 DEF IsChain
  <2> QED
    BY <1>4, <2>2, <2>8 DEF ShortOrChainIn
<1> QED
  BY <1>3, <1>4

(* What is known while edges are split, for one edge.                       *)
LEMMA SplitInvParts ==
    ASSUME LayersInv, phase = "dummies"
    PROVE  /\ at >= 1 /\ Len(parsed.edges) <= Len(graph.edges)
           /\ \A e \in DOMAIN graph.edges :
                 /\ e < at \/ Len(parsed.edges) < e => ShortOrChainIn(graph, e)
                 /\ at <= e /\ e <= Len(parsed.edges) =>
                       /\ graph.edges[e].type = "Regular"
                       /\ graph.edges[e].flow = "message" => ~SamePool(graph, e)
                 /\ graph.edges[e].type = "Dummy" => graph.edges[e].original < at
                 /\ RightIn(graph, e)
<1>1. SplitInv /\ EdgesPointRight
  BY DEF LayersInv
<1> QED
  BY <1>1, IsShortOrChainIn, PointsRightIn DEF SplitInv, EdgesPointRight

(* An edge over more than one layer within a pool has its end further right.*)
LEMMA LongIsSplittable ==
    ASSUME LayersInv, phase = "dummies", at <= Len(parsed.edges), IsLong(at)
    PROVE  /\ Splittable(at) /\ graph.edges[at].type = "Regular"
           /\ ~(graph.edges[at].flow = "message" \/ From(graph, at).layer > To(graph, at).layer)
<1>1. /\ IsGraph(graph) /\ EndsExist(graph) /\ Mirrored(graph) /\ LanesComplete(graph) /\ at \in Nat
      /\ IsGraph(parsed)
  BY LayersInvParts
<1>2. at \in DOMAIN graph.edges
  BY <1>1, GraphParts, SplitInvParts
<1>3. /\ graph.edges[at].type = "Regular" /\ (graph.edges[at].flow = "message" => ~SamePool(graph, at))
      /\ RightIn(graph, at)
  BY <1>1, <1>2, SplitInvParts
<1>4. /\ From(graph, at).layer + 1 # To(graph, at).layer /\ From(graph, at).layer # To(graph, at).layer
      /\ SamePool(graph, at)
  BY DEF IsLong
<1>5. graph.edges[at].from \in DOMAIN graph.nodes /\ graph.edges[at].to \in DOMAIN graph.nodes
  BY <1>1, <1>2 DEF EndsExist
<1>6. PICK a, b : a = From(graph, at) /\ b = To(graph, at)
  OBVIOUS
<1>7. /\ a.layer \in Nat /\ a.half \in BOOLEAN /\ HalfLayers(a) = 2 * a.layer + IF a.half THEN 1 ELSE 0
      /\ b.layer \in Nat /\ b.half \in BOOLEAN /\ HalfLayers(b) = 2 * b.layer + IF b.half THEN 1 ELSE 0
  BY <1>1, <1>5, <1>6, HalfLayersType DEF From, To
<1>8. HalfLayers(a) <= HalfLayers(b)
  BY <1>3, <1>4, <1>6 DEF RightIn
<1>9. a.layer <= b.layer
  BY <1>7, <1>8
<1>10. a.layer + 1 < b.layer
  BY <1>4, <1>6, <1>7, <1>9
<1> QED
  BY <1>1, <1>2, <1>3, <1>4, <1>6, <1>7, <1>9, <1>10 DEF Splittable

(* An old edge that is the only one at a data node was that before.         *)
LEMMA SplitKeepsOnlyEdge ==
    ASSUME NEW e, Splittable(e), NEW k \in Nat, k = To(graph, e).layer - From(graph, e).layer - 1, k >= 1,
           NEW r, IsSplit(r, e, k), NEW n \in DOMAIN graph.nodes, NEW d \in DOMAIN r.edges,
           IsOnlyEdge(r, n, d)
    PROVE  \/ d \in DOMAIN graph.edges /\ r.edges[d] = graph.edges[d] /\ IsOnlyEdge(graph, n, d)
           \/ IsOnlyEdge(graph, n, e)
<1>1. PICK M, N \in Nat : /\ M = Len(graph.nodes) /\ DOMAIN graph.nodes = 1..M
                          /\ N = Len(graph.edges) /\ DOMAIN graph.edges = 1..N
  BY SplittableTypes
<1>2. PICK from, to : from = graph.edges[e].from /\ to = graph.edges[e].to
  OBVIOUS
<1>3. from \in 1..M /\ to \in 1..M /\ e \in 1..N /\ graph.edges[e].type # "Replaced" /\ from # to
  <2>1. from \in 1..M /\ to \in 1..M /\ e \in 1..N /\ graph.edges[e].type # "Replaced"
    BY <1>1, <1>2, SplittableTypes DEF Splittable
  <2>2. From(graph, e).layer \in Nat /\ From(graph, e).layer + 1 < To(graph, e).layer
    BY SplittableTypes DEF Splittable
  <2>3. From(graph, e) # To(graph, e)
    BY <2>2
  <2> QED
    BY <1>2, <2>1, <2>3 DEF From, To
<1>4. \A x \in 1..N : /\ x \in DOMAIN r.edges
                      /\ x # e => r.edges[x] = graph.edges[x]
                      /\ x = e => r.edges[x].type = "Replaced"
  BY <1>1, SplitLeavesEdges DEF SplitLeaves
<1>5. \A j \in 1..(k + 1) : SplitHop(r, e, k, j)
  BY SplitHops
<1>6. 1 \in 1..(k + 1) /\ k + 1 \in 1..(k + 1) /\ 1 # k + 1
  OBVIOUS
<1>7. /\ N + 1 \in DOMAIN r.edges /\ r.edges[N + 1].type # "Replaced" /\ r.edges[N + 1].from = from
      /\ N + (k + 1) \in DOMAIN r.edges /\ r.edges[N + (k + 1)].type # "Replaced"
      /\ r.edges[N + (k + 1)].to = to
  <2>1. SplitHop(r, e, k, 1) /\ SplitHop(r, e, k, k + 1)
    BY <1>5, <1>6
  <2> QED
    BY <1>1, <1>2, <2>1 DEF SplitHop, ChainNode
<1>8. /\ r.edges[d].type # "Replaced" /\ n \in {r.edges[d].from, r.edges[d].to}
      /\ r.edges[d].from # r.edges[d].to
      /\ \A x \in DOMAIN r.edges :
            r.edges[x].type # "Replaced" /\ n \in {r.edges[x].from, r.edges[x].to} => x = d
  BY DEF IsOnlyEdge
<1>9. ASSUME n \in {from, to}
      PROVE  d \in {N + 1, N + (k + 1)}
  BY <1>7, <1>8, <1>9
<1>10. CASE d \in 1..N
  <2>1. n \notin {from, to}
    <3>1. N + 1 \notin 1..N /\ N + (k + 1) \notin 1..N
      BY <1>1
    <3> QED
      BY <1>9, <1>10, <3>1
  <2>2. d # e
    BY <1>4, <1>8, <1>10
  <2>3. \A x \in 1..N : graph.edges[x].type # "Replaced" /\ n \in {graph.edges[x].from, graph.edges[x].to}
                            => x = d
    BY <1>2, <1>4, <1>8, <2>1
  <2> QED
    BY <1>1, <1>4, <1>8, <1>10, <2>2, <2>3 DEF IsOnlyEdge
<1>11. CASE d \notin 1..N
  <2>1. PICK j \in 1..(k + 1) : d = N + j
    <3>1. d \in 1..(N + k + 1)
      BY <1>1 DEF IsSplit
    <3>2. d - N \in 1..(k + 1) /\ d = N + (d - N)
      BY <1>1, <1>11, <3>1
    <3> QED
      BY <3>2
  <2>2. SplitHop(r, e, k, j)
    BY <1>5
  <2>3. /\ r.edges[d].from = IF j = 1 THEN from ELSE M + j - 1
        /\ r.edges[d].to = IF j = k + 1 THEN to ELSE M + j
    BY <1>1, <1>2, <2>1, <2>2 DEF SplitHop, ChainNode
  <2>4. n \in {from, to}
    <3>1. n \in 1..M /\ j \in Nat /\ j >= 1
      BY <1>1
    <3>2. j # 1 => n # M + j - 1
      BY <1>1, <3>1
    <3>3. n # M + j
      BY <1>1, <3>1
    <3> QED
      BY <1>8, <2>3, <3>2, <3>3
  <2>5. ASSUME NEW x \in 1..N, graph.edges[x].type # "Replaced",
               n \in {graph.edges[x].from, graph.edges[x].to}, x # e
        PROVE  FALSE
    <3>1. x = d
      BY <1>4, <1>8, <2>5
    <3> QED
      BY <1>11, <3>1
  <2> QED
    BY <1>1, <1>2, <1>3, <2>4, <2>5 DEF IsOnlyEdge
<1> QED
  BY <1>10, <1>11

(* Dummies are left of the end of their edge, and an edge that is split is  *)
(* not that of a lone data node, which is in the layer of its neighbour.    *)
LEMMA SplitKeepsDataNodes ==
    ASSUME IsGraph(graph), NEW e, Splittable(e), NEW k \in Nat,
           k = To(graph, e).layer - From(graph, e).layer - 1, k >= 1, NEW r, IsSplit(r, e, k),
           \A n \in DOMAIN graph.nodes, d \in DOMAIN graph.edges : LoneFits(graph, TRUE, n, d),
           \A n \in DOMAIN graph.nodes : graph.nodes[n].layer < graph.numLayers
    PROVE  /\ \A n \in DOMAIN r.nodes, d \in DOMAIN r.edges : LoneFits(r, TRUE, n, d)
           /\ \A n \in DOMAIN r.nodes : r.nodes[n].layer < r.numLayers
<1>1. PICK M \in Nat : M = Len(graph.nodes) /\ DOMAIN graph.nodes = 1..M
  BY SplittableTypes
<1>2. PICK F, T \in Nat : F = From(graph, e).layer /\ T = To(graph, e).layer
  BY SplittableTypes
<1>3. /\ DOMAIN r.nodes = 1..(M + k) /\ r.numLayers = graph.numLayers /\ graph.numLayers \in Nat
      /\ \A n \in 1..M : SameNode(r.nodes[n], graph.nodes[n])
      /\ \A j \in 1..k : IsDummyIn(r.nodes[M + j], F + j)
  BY <1>1, <1>2, GraphParts DEF IsSplit
<1>4. ASSUME NEW n \in 1..(M + k), n \notin 1..M
      PROVE  \E j \in 1..k : IsDummyIn(r.nodes[n], F + j)
  <2>1. n - M \in 1..k /\ n = M + (n - M)
    BY <1>1, <1>4
  <2> QED
    BY <1>3, <2>1
<1>5. T < graph.numLayers /\ T = F + k + 1 /\ F # T
  <2>1. T < graph.numLayers
    BY <1>2, SplittableTypes DEF To
  <2> QED
    BY <1>2, <2>1
<1>6. ASSUME NEW n \in DOMAIN r.nodes
      PROVE  r.nodes[n].layer < r.numLayers
  <2>1. CASE n \in 1..M
    BY <1>1, <1>3, <2>1 DEF SameNode
  <2>2. CASE n \notin 1..M
    <3>1. PICK j \in 1..k : IsDummyIn(r.nodes[n], F + j)
      BY <1>3, <1>4, <2>2
    <3>2. r.nodes[n].layer = F + j
      BY <3>1 DEF IsDummyIn
    <3>3. F + j < T
      <4>1. F \in Nat /\ j \in Nat /\ j <= k
        BY <1>2
      <4> QED
        BY <1>5, <4>1
    <3>4. PICK x \in Nat : x = F + j
      BY <1>2
    <3>5. PICK L \in Nat : L = graph.numLayers /\ L = r.numLayers
      BY <1>3
    <3>6. x < L
      BY <1>2, <1>5, <3>3, <3>4, <3>5
    <3> QED
      BY <3>2, <3>4, <3>5, <3>6
  <2> QED
    BY <2>1, <2>2
<1>7. ASSUME NEW n \in DOMAIN r.nodes, NEW d \in DOMAIN r.edges,
             IsData(r.nodes[n]), IsOnlyEdge(r, n, d)
      PROVE  LoneFits(r, TRUE, n, d)
  <2>1. n \in DOMAIN graph.nodes /\ IsData(graph.nodes[n])
    <3>1. n \in 1..M
      BY <1>3, <1>4, <1>7 DEF IsDummyIn, IsData
    <3> QED
      BY <1>1, <1>3, <1>7, <3>1 DEF SameNode, IsData
  <2>2. ~IsOnlyEdge(graph, n, e)
    <3> SUFFICES ASSUME IsOnlyEdge(graph, n, e)
                 PROVE  FALSE
      OBVIOUS
    <3>1. e \in DOMAIN graph.edges
      BY DEF Splittable
    <3>2. graph.nodes[OtherEnd(graph.edges[e], n)].layer = graph.nodes[n].layer
      BY <2>1, <3>1 DEF LoneFits
    <3>3. {graph.nodes[OtherEnd(graph.edges[e], n)].layer, graph.nodes[n].layer} = {F, T}
      BY <1>2 DEF IsOnlyEdge, OtherEnd, From, To
    <3> QED
      BY <1>5, <3>2, <3>3
  <2>3. d \in DOMAIN graph.edges /\ r.edges[d] = graph.edges[d] /\ IsOnlyEdge(graph, n, d)
    BY <1>7, <2>1, <2>2, SplitKeepsOnlyEdge
  <2>4. PICK other : other = OtherEnd(graph.edges[d], n) /\ other = OtherEnd(r.edges[d], n)
    BY <2>3
  <2>5. other \in DOMAIN graph.nodes
    BY <2>3, <2>4 DEF Splittable, EndsExist, OtherEnd
  <2>6. /\ other < n /\ Place(graph.nodes[other]) = Place(graph.nodes[n])
        /\ graph.nodes[other].layer = graph.nodes[n].layer
    BY <2>1, <2>3, <2>4 DEF LoneFits
  <2>7. SameNode(r.nodes[other], graph.nodes[other]) /\ SameNode(r.nodes[n], graph.nodes[n])
    BY <1>1, <1>3, <2>1, <2>5
  <2>8. Place(r.nodes[other]) = Place(r.nodes[n]) /\ r.nodes[other].layer = r.nodes[n].layer
    BY <2>6, <2>7 DEF SameNode, Place
  <2> QED
    BY <2>4, <2>6, <2>8 DEF LoneFits
<1> QED
  BY <1>6, <1>7 DEF LoneFits

(* All nodes stay within the layers, and lone data nodes beside theirs.     *)
LEMMA SplitEdgeDataNodes ==
    ASSUME LayersInv, SplitEdge
    PROVE  BoundInv' /\ LoneInv'
<1>1. /\ IsGraph(graph) /\ phase = "dummies" /\ phase' \in {"dummies", "sort", "panic"}
  BY LayersInvParts DEF SplitEdge, Panic
<1>2. /\ \A n \in DOMAIN graph.nodes, e \in DOMAIN graph.edges : LoneFits(graph, TRUE, n, e)
      /\ \A n \in DOMAIN graph.nodes : graph.nodes[n].layer < graph.numLayers
  <2>1. \A n : HasLayer(n)
    BY <1>1 DEF HasLayer
  <2> QED
    BY <1>1, <2>1, LoneInvIn DEF LayersInv, BoundInv, LoneFits
<1>3. ASSUME \A n \in DOMAIN graph'.nodes, e \in DOMAIN graph'.edges : LoneFits(graph', TRUE, n, e),
             \A n \in DOMAIN graph'.nodes : graph'.nodes[n].layer < graph'.numLayers
      PROVE  BoundInv' /\ LoneInv'
  <2>1. \A n \in DOMAIN graph'.nodes, e \in DOMAIN graph'.edges : LoneFits(graph', HasLayer(n)', n, e)
    BY <1>3 DEF LoneFits
  <2> QED
    BY <1>1, <1>3, <2>1, LoneInvIn DEF BoundInv
<1>4. CASE graph' = graph
  BY <1>2, <1>3, <1>4
<1>5. CASE graph' # graph
  <2>1. at <= Len(parsed.edges) /\ IsLong(at) /\ graph' = Split(at)
    BY <1>5 DEF SplitEdge, Panic
  <2>2. Splittable(at)
    BY <1>1, <2>1, LongIsSplittable
  <2>3. PICK r, k : r = Split(at) /\ k = To(graph, at).layer - From(graph, at).layer - 1
    OBVIOUS
  <2>4. IsSplit(r, at, k) /\ k \in Nat /\ k >= 1
    BY <2>2, <2>3, SplitEffect
  <2>5. /\ \A n \in DOMAIN r.nodes, d \in DOMAIN r.edges : LoneFits(r, TRUE, n, d)
        /\ \A n \in DOMAIN r.nodes : r.nodes[n].layer < r.numLayers
    BY <1>1, <1>2, <2>2, <2>3, <2>4, SplitKeepsDataNodes
  <2> QED
    BY <1>3, <2>1, <2>3, <2>5
<1> QED
  BY <1>4, <1>5

(* A step of the loop that splits edges keeps the invariant.                *)
LEMMA SplitEdgeKeeps ==
    ASSUME LayersInv, SplitEdge
    PROVE  LayersInv'
<1>1. /\ IsGraph(graph) /\ EndsExist(graph) /\ Mirrored(graph) /\ LanesComplete(graph)
      /\ phase = "dummies" /\ at \in Nat /\ parsed' = parsed /\ IsGraph(parsed)
  BY LayersInvParts DEF SplitEdge, Panic
<1>2. PICK N, K \in Nat : N = Len(graph.edges) /\ K = Len(parsed.edges)
  BY <1>1, GraphParts
<1>3. DOMAIN graph.edges = 1..N
  BY <1>1, <1>2, GraphParts
<1>4. /\ at >= 1 /\ K <= N
      /\ \A e \in DOMAIN graph.edges :
            /\ e < at \/ K < e => ShortOrChainIn(graph, e)
            /\ at <= e /\ e <= K =>
                  /\ graph.edges[e].type = "Regular"
                  /\ graph.edges[e].flow = "message" => ~SamePool(graph, e)
            /\ graph.edges[e].type = "Dummy" => graph.edges[e].original < at
            /\ RightIn(graph, e)
  BY <1>1, <1>2, SplitInvParts
<1>5. CASE at > K /\ phase' = "sort" /\ at' = 1 /\ graph' = graph
  <2>1. TypeOK' /\ GraphInv' /\ CyclesInv'
    BY <1>1, <1>5 DEF LayersInv, TypeOK, GraphInv, CyclesInv
  <2>2. EdgesPointRight'
    <3>1. \A e \in DOMAIN graph'.edges : PointsRight(e)'
      BY <1>4, <1>5, PointsRightIn
    <3> QED
      BY <3>1 DEF EdgesPointRight
  <2>3. \A e \in DOMAIN graph.edges : ShortOrChainIn(graph, e)
    <3> SUFFICES ASSUME NEW e \in DOMAIN graph.edges
                 PROVE  ShortOrChainIn(graph, e)
      OBVIOUS
    <3>1. e < at \/ K < e
      BY <1>1, <1>2, <1>3, <1>5
    <3> QED
      BY <1>4, <3>1
  <2>4. SplitInv'
    <3>1. \A e \in DOMAIN graph'.edges : IsShortOrChain(e)'
      BY <1>5, <2>3, IsShortOrChainIn
    <3> QED
      BY <1>5, <3>1 DEF SplitInv
  <2> QED
    BY <1>5, <2>1, <2>2, <2>4, SplitEdgeDataNodes DEF LayersInv, FlowsInv, UnplacedInv, PlacedInv
<1>6. CASE at <= K /\ ~IsLong(at) /\ at' = at + 1 /\ phase' = phase /\ graph' = graph
  <2>1. TypeOK' /\ GraphInv' /\ CyclesInv'
    BY <1>1, <1>6 DEF LayersInv, TypeOK, GraphInv, CyclesInv
  <2>2. EdgesPointRight'
    <3>1. \A e \in DOMAIN graph'.edges : PointsRight(e)'
      BY <1>4, <1>6, PointsRightIn
    <3> QED
      BY <3>1 DEF EdgesPointRight
  <2>3. at \in DOMAIN graph.edges
    BY <1>1, <1>2, <1>3, <1>4, <1>6
  <2>4. ShortOrChainIn(graph, at)
    <3>1. graph.edges[at].type = "Regular" /\ RightIn(graph, at)
      BY <1>1, <1>2, <1>4, <1>6, <2>3
    <3>2. graph.edges[at].from \in DOMAIN graph.nodes /\ graph.edges[at].to \in DOMAIN graph.nodes
      BY <1>1, <2>3 DEF EndsExist
    <3>3. PICK a, b : a = From(graph, at) /\ b = To(graph, at)
      OBVIOUS
    <3>4. /\ a.layer \in Nat /\ a.half \in BOOLEAN /\ HalfLayers(a) = 2 * a.layer + IF a.half THEN 1 ELSE 0
          /\ b.layer \in Nat /\ b.half \in BOOLEAN /\ HalfLayers(b) = 2 * b.layer + IF b.half THEN 1 ELSE 0
      BY <1>1, <3>2, <3>3, HalfLayersType DEF From, To
    <3>5. SamePool(graph, at) => a.layer + 1 = b.layer \/ a.layer = b.layer
      BY <1>6, <3>3 DEF IsLong
    <3>6. SamePool(graph, at) => b.layer - a.layer \in {0, 1}
      BY <3>4, <3>5
    <3> QED
      BY <3>1, <3>3, <3>6 DEF ShortOrChainIn
  <2>5. ASSUME NEW e \in DOMAIN graph.edges
        PROVE  /\ e < at + 1 \/ K < e => ShortOrChainIn(graph, e)
               /\ at + 1 <= e /\ e <= K =>
                     /\ graph.edges[e].type = "Regular"
                     /\ graph.edges[e].flow = "message" => ~SamePool(graph, e)
               /\ graph.edges[e].type = "Dummy" => graph.edges[e].original < at + 1
    <3>1. e \in Nat /\ graph.edges[e].original \in Nat
      <4>1. graph.edges[e] \in GraphEdges
        BY <1>1, GraphParts
      <4> QED
        BY <1>3, <4>1 DEF GraphEdges
    <3>2. e < at + 1 => e < at \/ e = at
      BY <1>1, <3>1
    <3>3. at + 1 <= e => at <= e
      BY <1>1, <3>1
    <3>4. graph.edges[e].original < at => graph.edges[e].original < at + 1
      BY <1>1, <3>1
    <3> QED
      BY <1>4, <2>4, <3>2, <3>3, <3>4
  <2>6. SplitInv'
    <3>1. \A e : SamePool(graph, e)' <=> SamePool(graph', e)
      BY DEF SamePool, From, To
    <3>2. at' >= 1
      BY <1>1, <1>6
    <3> QED
      BY <1>1, <1>2, <1>4, <1>6, <2>5, <3>1, <3>2, IsShortOrChainIn DEF SplitInv
  <2> QED
    BY <1>1, <1>6, <2>1, <2>2, <2>6, SplitEdgeDataNodes DEF LayersInv, FlowsInv, UnplacedInv, PlacedInv
<1>7. CASE at <= K /\ IsLong(at)
  <2>1. /\ Splittable(at) /\ graph.edges[at].type = "Regular"
        /\ ~(graph.edges[at].flow = "message" \/ From(graph, at).layer > To(graph, at).layer)
    BY <1>1, <1>2, <1>7, LongIsSplittable
  <2>2. graph' = Split(at) /\ at' = at + 1 /\ phase' = phase
    BY <1>1, <1>2, <1>7, <2>1 DEF SplitEdge
  <2>3. PICK r, k : r = Split(at) /\ k = To(graph, at).layer - From(graph, at).layer - 1
    OBVIOUS
  <2>4. /\ IsGraph(r) /\ EndsExist(r) /\ Mirrored(r) /\ LanesComplete(r)
        /\ IsSplit(r, at, k) /\ k \in Nat /\ k >= 1
    BY <2>1, <2>3, SplitEffect
  <2>5. graph' = r
    BY <2>2, <2>3
  <2>6. at \in DOMAIN graph.edges /\ at \in 1..N /\ at <= K
    BY <1>3, <1>7, <2>1 DEF Splittable
  <2>7. PICK M \in Nat : M = Len(graph.nodes) /\ DOMAIN graph.nodes = 1..M
    BY <1>1, GraphParts
  <2>8. /\ DOMAIN r.lanes = DOMAIN graph.lanes /\ DOMAIN r.nodes = 1..(M + k)
        /\ DOMAIN r.edges = 1..(N + k + 1) /\ Len(r.edges) = N + k + 1
        /\ \A n \in DOMAIN graph.nodes : SameNode(r.nodes[n], graph.nodes[n])
        /\ \A j \in 1..k : IsDummyIn(r.nodes[M + j], From(graph, at).layer + j)
    BY <1>2, <2>4, <2>7 DEF IsSplit
  <2>9. \A d \in DOMAIN graph.edges : SplitLeaves(r, at, d)
    BY <2>1, <2>4, SplitLeavesEdges
  <2>10. \A j \in 1..(k + 1) : SplitHop(r, at, k, j)
    BY <2>1, <2>3, <2>4, SplitHops
  <2>11. \A d \in 1..(N + k + 1) : d \in DOMAIN graph.edges \/ \E j \in 1..(k + 1) : d = N + j
    <3> SUFFICES ASSUME NEW d \in 1..(N + k + 1), d \notin DOMAIN graph.edges
                 PROVE  \E j \in 1..(k + 1) : d = N + j
      OBVIOUS
    <3>1. N \in Nat /\ k \in Nat /\ d \notin 1..N
      BY <1>2, <1>3, <2>4
    <3>2. d - N \in 1..(k + 1) /\ d = N + (d - N)
      BY <3>1
    <3> QED
      BY <3>2
  <2>12. \A n \in DOMAIN r.nodes : r.nodes[n].above = 0 /\ r.nodes[n].below = 0
    <3> SUFFICES ASSUME NEW n \in 1..(M + k)
                 PROVE  r.nodes[n].above = 0 /\ r.nodes[n].below = 0
      BY <2>8
    <3>1. CASE n \in 1..M
      <4>1. graph.nodes[n].above = 0 /\ graph.nodes[n].below = 0
        BY <2>7, <3>1 DEF LayersInv, TypeOK
      <4> QED
        BY <2>7, <2>8, <3>1, <4>1 DEF SameNode
    <3>2. CASE n \notin 1..M
      <4>1. M \in Nat /\ k \in Nat
        BY <2>4, <2>7
      <4>2. n - M \in 1..k /\ n = M + (n - M)
        BY <3>2, <4>1
      <4> QED
        BY <2>8, <4>2 DEF IsDummyIn
    <3> QED
      BY <3>1, <3>2
  <2>13. TypeOK'
    BY <1>1, <2>2, <2>4, <2>5, <2>8, <2>12 DEF LayersInv, TypeOK
  <2>14. GraphInv' /\ CyclesInv'
    BY <1>1, <2>2, <2>4, <2>5 DEF LayersInv, GraphInv, CyclesInv
  <2>15. \A d \in DOMAIN r.edges : RightIn(r, d)
    <3> SUFFICES ASSUME NEW d \in 1..(N + k + 1)
                 PROVE  RightIn(r, d)
      BY <2>8
    <3>1. CASE d \in DOMAIN graph.edges
      <4>1. RightIn(graph, d)
        BY <1>4, <3>1
      <4>2. SamePlacement(From(r, d), From(graph, d)) /\ SamePlacement(To(r, d), To(graph, d))
        BY <2>9, <3>1 DEF SplitLeaves
      <4> QED
        BY <4>1, <4>2 DEF RightIn, SamePool, SamePlacement
    <3>2. CASE \E j \in 1..(k + 1) : d = N + j
      BY <1>2, <2>10, <3>2 DEF SplitHop, RightIn
    <3> QED
      BY <2>11, <3>1, <3>2
  <2>16. EdgesPointRight'
    <3>1. \A e \in DOMAIN graph'.edges : PointsRight(e)'
      BY <2>5, <2>15, PointsRightIn
    <3> QED
      BY <3>1 DEF EdgesPointRight
  <2>17. ShortOrChainIn(r, at)
    <3>1. \A d \in DOMAIN graph.edges : ~(graph.edges[d].type = "Dummy" /\ graph.edges[d].original = at)
      <4> SUFFICES ASSUME NEW d \in DOMAIN graph.edges, graph.edges[d].type = "Dummy",
                          graph.edges[d].original = at
                   PROVE  FALSE
        OBVIOUS
      <4>1. at < at
        BY <1>4
      <4> QED
        BY <1>1, <4>1
    <3>2. IsChain(r, at)
      BY <2>1, <2>3, <2>4, <3>1, SplitIsChain
    <3>3. r.edges[at].type = "Replaced"
      BY <2>6, <2>9 DEF SplitLeaves
    <3> QED
      BY <3>2, <3>3 DEF ShortOrChainIn
  <2>18. ASSUME NEW d \in 1..(N + k + 1)
         PROVE  /\ d < at + 1 \/ K < d => ShortOrChainIn(r, d)
                /\ at + 1 <= d /\ d <= K =>
                      /\ r.edges[d].type = "Regular"
                      /\ r.edges[d].flow = "message" => ~SamePool(r, d)
                /\ r.edges[d].type = "Dummy" => r.edges[d].original < at + 1
    <3>1. CASE d \in DOMAIN graph.edges /\ d # at
      <4>1. /\ r.edges[d] = graph.edges[d]
            /\ SamePlacement(From(r, d), From(graph, d)) /\ SamePlacement(To(r, d), To(graph, d))
        BY <2>9, <3>1 DEF SplitLeaves
      <4>2. SamePool(r, d) <=> SamePool(graph, d)
        BY <4>1 DEF SamePlacement, SamePool
      <4>3. d < at \/ K < d => ShortOrChainIn(r, d)
        <5> SUFFICES ASSUME d < at \/ K < d
                     PROVE  ShortOrChainIn(r, d)
          OBVIOUS
        <5>1. ShortOrChainIn(graph, d)
          BY <1>4, <3>1
        <5> QED
          BY <2>1, <2>3, <2>4, <3>1, <5>1, SplitKeepsShortOrChain
      <4>4. graph.edges[d].original \in Nat
        <5>1. graph.edges[d] \in GraphEdges
          BY <1>1, <3>1, GraphParts
        <5> QED
          BY <5>1 DEF GraphEdges
      <4>5. (d < at + 1 => d < at) /\ (at + 1 <= d => at <= d)
        BY <1>1, <3>1
      <4>6. graph.edges[d].original < at => graph.edges[d].original < at + 1
        BY <1>1, <4>4
      <4> QED
        BY <1>4, <3>1, <4>1, <4>2, <4>3, <4>5, <4>6
    <3>2. CASE d = at
      <4>1. ~(at + 1 <= d)
        BY <1>1, <3>2
      <4>2. r.edges[d].type = "Replaced"
        BY <2>6, <2>9, <3>2 DEF SplitLeaves
      <4> QED
        BY <2>17, <3>2, <4>1, <4>2
    <3>3. CASE \E j \in 1..(k + 1) : d = N + j
      <4>1. PICK j \in 1..(k + 1) : d = N + j
        BY <3>3
      <4>2. SplitHop(r, at, k, j)
        BY <2>10
      <4>3. /\ r.edges[d].type = "Dummy" /\ r.edges[d].original = at
            /\ From(r, d).layer = From(graph, at).layer + j - 1
            /\ To(r, d).layer = From(graph, at).layer + j
        BY <1>2, <4>1, <4>2 DEF SplitHop
      <4>4. To(r, d).layer - From(r, d).layer = 1
        <5>1. From(graph, at).layer \in Nat /\ j \in Nat
          BY <2>1, SplittableTypes
        <5> QED
          BY <4>3, <5>1
      <4>5. ShortOrChainIn(r, d)
        BY <4>3, <4>4 DEF ShortOrChainIn
      <4>6. ~(d <= K)
        <5>1. N \in Nat /\ K \in Nat /\ j \in Nat /\ j >= 1 /\ K <= N
          BY <1>2, <1>4
        <5> QED
          BY <4>1, <5>1
      <4>7. at < at + 1
        BY <1>1
      <4> QED
        BY <4>3, <4>5, <4>6, <4>7
    <3> QED
      BY <2>11, <3>1, <3>2, <3>3
  <2>19. SplitInv'
    <3>1. \A e : SamePool(graph, e)' <=> SamePool(graph', e)
      BY DEF SamePool, From, To
    <3>2. at' >= 1 /\ K <= N + k + 1
      <4>1. N \in Nat /\ K \in Nat /\ K <= N /\ k \in Nat
        BY <1>2, <1>4, <2>4
      <4> QED
        BY <1>1, <2>2, <4>1
    <3> QED
      BY <1>1, <1>2, <2>2, <2>5, <2>8, <2>18, <3>1, <3>2, IsShortOrChainIn DEF SplitInv
  <2> QED
    BY <1>1, <2>2, <2>13, <2>14, <2>16, <2>19, SplitEdgeDataNodes DEF LayersInv, FlowsInv, UnplacedInv, PlacedInv
<1> QED
  BY <1>2, <1>5, <1>6, <1>7 DEF SplitEdge

-----------------------------------------------------------------------------
(* sort_lanes_by_layer() *)

(* Numbers up to m that hold, with each of them, all that are smaller.      *)
LEMMA InitialSegment ==
    ASSUME NEW m \in Nat, NEW T \in SUBSET (1..m),
           \A x \in T, y \in 1..m : y < x => y \in T
    PROVE  Cardinality(T) \in 0..m /\ T = 1..Cardinality(T)
<1>1. PICK U : U = (1..(m + 1)) \ T
  OBVIOUS
<1>2. U \in SUBSET Nat /\ m + 1 \in U
  BY <1>1
<1>3. PICK x \in U : \A y \in U : x <= y
  BY <1>2, LeastElement
<1>4. T = 1..(x - 1)
  <2>1. x \in 1..(m + 1) /\ x \notin T
    BY <1>1
  <2>2. ASSUME NEW y \in 1..(x - 1)
        PROVE  y \in T
    <3>1. y \in 1..(m + 1) /\ ~(x <= y)
      BY <2>1
    <3> QED
      BY <1>1, <1>3, <3>1
  <2>3. ASSUME NEW y \in T
        PROVE  y \in 1..(x - 1)
    <3>1. y \in 1..m
      OBVIOUS
    <3>2. CASE y < x
      BY <2>1, <3>1, <3>2
    <3>3. CASE ~(y < x)
      <4>1. x \in 1..m /\ x < y
        BY <2>1, <3>1, <3>3
      <4> QED
        BY <2>1, <4>1
    <3> QED
      BY <3>2, <3>3
  <2> QED
    BY <2>2, <2>3
<1>5. x \in 1..(m + 1)
  BY <1>1
<1>6. PICK k \in 0..m : k = x - 1
  BY <1>5
<1>7. Cardinality(1..k) = k
  <2>1. 1 \in Int /\ k \in Int
    OBVIOUS
  <2>2. Cardinality(1..k) = IF 1 > k THEN 0 ELSE k - 1 + 1
    BY <2>1, FS_Interval
  <2> QED
    BY <2>2
<1> QED
  BY <1>4, <1>6, <1>7

NumbersAscend(f, m) == \A a, b \in 1..m : a < b => f[a] <= f[b]

(* One more number, in front of those that are larger.                      *)
GoesBefore(new, k, f, m) ==
    /\ \A j \in 1..m : f[j] \in Nat
    /\ \A j \in 1..m : j < k <=> f[j] <= new

HasOneMore(g, f, m, k, new) ==
    \A j \in 1..(m + 1) : g[j] = IF j < k THEN f[j] ELSE IF j = k THEN new ELSE f[j - 1]

(* Numbers in order, with one more after those that are not larger.         *)
LEMMA InsertedAscend ==
    ASSUME NEW m \in Nat, NEW f, NEW new \in Nat, NEW k \in 1..(m + 1),
           NumbersAscend(f, m), GoesBefore(new, k, f, m),
           NEW g, HasOneMore(g, f, m, k, new)
    PROVE  NumbersAscend(g, m + 1)
<1> USE DEF NumbersAscend, GoesBefore, HasOneMore
<1> SUFFICES ASSUME NEW a \in 1..(m + 1), NEW b \in 1..(m + 1), a < b
             PROVE  g[a] <= g[b]
  OBVIOUS
<1>1. k \in Nat /\ k >= 1 /\ k <= m + 1 /\ a \in Nat /\ b \in Nat /\ a >= 1 /\ b <= m + 1
  OBVIOUS
<1>2. CASE b < k
  <2>1. a \in 1..m /\ b \in 1..m /\ a < k
    BY <1>1, <1>2
  <2> QED
    BY <1>2, <2>1
<1>3. CASE b = k
  <2>1. a \in 1..m /\ a < k
    BY <1>1, <1>3
  <2>2. g[a] = f[a] /\ g[b] = new
    BY <1>3, <2>1
  <2> QED
    BY <2>1, <2>2
<1>4. CASE b > k
  <2>1. b - 1 \in 1..m /\ ~(b - 1 < k) /\ ~(b < k) /\ b # k
    BY <1>1, <1>4
  <2>2. g[b] = f[b - 1] /\ f[b - 1] \in Nat /\ ~(f[b - 1] <= new)
    BY <2>1
  <2>3. CASE a < k
    <3>1. a \in 1..m /\ a < b - 1
      BY <1>1, <1>4, <2>3
    <3>2. g[a] = f[a]
      BY <2>3
    <3> QED
      BY <2>1, <2>2, <3>1, <3>2
  <2>4. CASE a = k
    <3>1. g[a] = new
      BY <2>4
    <3> QED
      BY <2>2, <3>1
  <2>5. CASE a > k
    <3>1. a - 1 \in 1..m /\ a - 1 < b - 1 /\ ~(a < k) /\ a # k
      BY <1>1, <2>5
    <3>2. g[a] = f[a - 1]
      BY <3>1
    <3> QED
      BY <2>1, <2>2, <3>1, <3>2
  <2> QED
    BY <1>1, <2>3, <2>4, <2>5
<1> QED
  BY <1>1, <1>2, <1>3, <1>4

(* The layers of the nodes of a list never get smaller.                     *)
Ascends(s) ==
    \A a, b \in DOMAIN s : a < b => graph.nodes[s[a]].layer <= graph.nodes[s[b]].layer

(* The first i nodes of ns in order.                                        *)
PartlySorted(s, ns, i) ==
    /\ s \in Seq(Nat) /\ Ascends(s)
    /\ \A x : Count(s, x) = Count(SubSeq(ns, 1, i), x)

(* A list with n put into it before its k-th element.                       *)
IsInsertedAt(r, s, k, n) ==
    /\ DOMAIN r = 1..(Len(s) + 1) /\ HasOneMore(r, s, Len(s), k, n)
    /\ \A x : Count(r, x) = Count(s, x) + (IF x = n THEN 1 ELSE 0)

(* What putting something into a list does.                                 *)
LEMMA InsertedAtIsSo ==
    ASSUME NEW S, NEW s \in Seq(S), NEW n \in S, NEW k \in 1..(Len(s) + 1), NEW r, r = InsertAt(s, k, n)
    PROVE  IsInsertedAt(r, s, k, n) /\ r \in Seq(S)
<1>1. InsertAt(s, k, n) \in Seq(S)
  BY InsertAtElements
<1>2. /\ Len(InsertAt(s, k, n)) = Len(s) + 1
      /\ \A j \in 1..(Len(s) + 1) :
            InsertAt(s, k, n)[j] = IF j < k THEN s[j] ELSE IF j = k THEN n ELSE s[j - 1]
  BY SMTT(30), InsertAtElements
<1>3. \A x : Count(InsertAt(s, k, n), x) = Count(s, x) + (IF x = n THEN 1 ELSE 0)
  BY CountInsertAt
<1>4. DOMAIN InsertAt(s, k, n) = 1..(Len(s) + 1)
  BY <1>1, <1>2
<1> QED
  BY <1>1, <1>2, <1>3, <1>4 DEF IsInsertedAt, HasOneMore

(* What appending a number to a list does to the counts.                    *)
CountsOneMore(q, p, n) == \A x : Count(q, x) = Count(p, x) + (IF x = n THEN 1 ELSE 0)

(* So does appending it.                                                    *)
LEMMA AppendCountsOneMore ==
    ASSUME NEW p \in Seq(Nat), NEW n \in Nat, NEW q, q = Append(p, n)
    PROVE  CountsOneMore(q, p, n)
<1>1. \A x : Count(Append(p, n), x) = Count(p, x) + (IF x = n THEN 1 ELSE 0)
  BY CountAppend
<1> QED
  BY <1>1 DEF CountsOneMore

(* A node is inserted after those that are not further right.               *)
LEMMA InsertOne ==
    ASSUME IsGraph(graph), NEW ns \in Seq(Nat), ToSet(ns) \subseteq DOMAIN graph.nodes,
           NEW i \in 1..Len(ns), NEW s, PartlySorted(s, ns, i - 1),
           NEW r, r = InsertedInOrder(s, ns[i])
    PROVE  PartlySorted(r, ns, i)
<1>1. s \in Seq(Nat) /\ Ascends(s) /\ \A x : Count(s, x) = Count(SubSeq(ns, 1, i - 1), x)
  BY DEF PartlySorted
<1>2. PICK m \in Nat : m = Len(s) /\ DOMAIN s = 1..m
  BY <1>1
<1>3. PICK n \in Nat : n = ns[i]
  OBVIOUS
<1>4. PICK p, q \in Seq(Nat) : p = SubSeq(ns, 1, i - 1) /\ q = SubSeq(ns, 1, i)
  <2>1. PICK l \in Nat : l = Len(ns) /\ \A j \in 1..l : ns[j] \in Nat
    OBVIOUS
  <2>2. \A j \in 0..l : SubSeq(ns, 1, j) \in Seq(Nat)
    BY <2>1, SubSeqProperties
  <2>3. i \in 0..l /\ i - 1 \in 0..l
    BY <2>1
  <2> QED
    BY <2>2, <2>3
<1>5. q = Append(p, n)
  BY <1>3, <1>4
<1>6. \A j \in 1..(i - 1) : p[j] = ns[j]
  BY <1>4
<1>7. n \in DOMAIN graph.nodes /\ \A j \in 1..m : s[j] \in DOMAIN graph.nodes
  <2>1. n \in ToSet(ns)
    BY <1>3 DEF ToSet
  <2>2. \A x \in ToSet(p) : x \in ToSet(ns)
    <3>1. DOMAIN p = 1..(i - 1) /\ DOMAIN ns = 1..Len(ns) /\ Len(ns) \in Nat
      BY <1>4
    <3>2. \A j \in DOMAIN p : j \in DOMAIN ns /\ p[j] = ns[j]
      BY <1>6, <3>1
    <3> QED
      BY <3>2 DEF ToSet
  <2>3. \A j \in 1..m : s[j] \in ToSet(s)
    BY <1>2 DEF ToSet
  <2>4. \A x : (Count(s, x) = 0 <=> x \notin ToSet(s)) /\ (Count(p, x) = 0 <=> x \notin ToSet(p))
    BY <1>1, CountType
  <2>5. \A x : Count(s, x) = Count(p, x)
    BY <1>1, <1>4
  <2> QED
    BY <2>1, <2>2, <2>3, <2>4, <2>5
<1>8. PICK new \in Nat : new = graph.nodes[n].layer
  BY <1>7, HalfLayersType
<1>9. PICK f : f = [j \in 1..m |-> graph.nodes[s[j]].layer]
  OBVIOUS
<1>10. /\ \A j \in 1..m : f[j] = graph.nodes[s[j]].layer /\ f[j] \in Nat
       /\ \A a, b \in 1..m : a < b => f[a] <= f[b]
  BY <1>1, <1>2, <1>7, <1>9, HalfLayersType DEF Ascends
<1>11. PICK T : T = {j \in 1..m : f[j] <= new}
  OBVIOUS
<1>12. Cardinality(T) \in 0..m /\ T = 1..Cardinality(T)
  <2>1. \A x \in T, y \in 1..m : y < x => y \in T
    <3> SUFFICES ASSUME NEW x \in T, NEW y \in 1..m, y < x
                 PROVE  y \in T
      OBVIOUS
    <3>1. x \in 1..m /\ f[x] <= new
      BY <1>11
    <3>2. f[y] <= f[x] /\ f[y] \in Nat /\ f[x] \in Nat
      BY <1>10, <3>1
    <3>3. f[y] <= new
      BY <3>1, <3>2
    <3> QED
      BY <1>11, <3>3
  <2>2. T \in SUBSET (1..m)
    BY <1>11
  <2> QED
    BY <2>1, <2>2, InitialSegment
<1>13. PICK k \in 1..(m + 1) : k = Cardinality(T) + 1
  <2>1. PICK c \in 0..m : c = Cardinality(T)
    BY <1>12
  <2>2. c + 1 \in 1..(m + 1)
    OBVIOUS
  <2> QED
    BY <2>1, <2>2
<1>14. r = InsertAt(s, k, n)
  <2>1. {j \in DOMAIN s : graph.nodes[s[j]].layer <= graph.nodes[n].layer} = T
    BY <1>2, <1>8, <1>10, <1>11
  <2> QED
    BY <1>3, <1>13, <2>1 DEF InsertedInOrder
<1>15. IsInsertedAt(r, s, k, n) /\ r \in Seq(Nat)
  <2>1. s \in Seq(Nat) /\ n \in Nat /\ k \in 1..(Len(s) + 1) /\ r = InsertAt(s, k, n)
    BY <1>1, <1>2, <1>14
  <2> QED
    BY <2>1, InsertedAtIsSo
<1>16. \A x : Count(r, x) = Count(q, x)
  <2>1. CountsOneMore(q, p, n)
    BY <1>5, AppendCountsOneMore
  <2>2. \A x : Count(s, x) = Count(p, x)
    BY <1>1, <1>4
  <2> QED
    BY <1>15, <2>1, <2>2 DEF CountsOneMore, IsInsertedAt
<1>17. PICK g : g = [j \in 1..(m + 1) |-> graph.nodes[r[j]].layer]
  OBVIOUS
<1>18. NumbersAscend(g, m + 1)
  <2>1. HasOneMore(g, f, m, k, new)
    <3> SUFFICES ASSUME NEW j \in 1..(m + 1)
                 PROVE  g[j] = IF j < k THEN f[j] ELSE IF j = k THEN new ELSE f[j - 1]
      BY DEF HasOneMore
    <3>1. r[j] = IF j < k THEN s[j] ELSE IF j = k THEN n ELSE s[j - 1]
      BY <1>2, <1>15 DEF IsInsertedAt, HasOneMore
    <3>2. g[j] = graph.nodes[r[j]].layer
      BY <1>17
    <3>3. /\ j < k => j \in 1..m
          /\ ~(j < k) /\ j # k => j - 1 \in 1..m
      <4>1. m \in Nat /\ k \in Nat /\ k >= 1 /\ k <= m + 1
        BY <1>2, <1>13
      <4> QED
        BY <4>1
    <3> QED
      BY <1>8, <1>10, <3>1, <3>2, <3>3
  <2>2. \A j \in 1..m : j < k <=> f[j] <= new
    <3>1. \A j \in 1..m : j \in T <=> f[j] <= new
      BY <1>11
    <3>2. PICK c \in 0..m : c = Cardinality(T) /\ k = c + 1 /\ T = 1..c
      BY <1>12, <1>13
    <3>3. \A j \in 1..m : j \in 1..c <=> j < c + 1
      OBVIOUS
    <3> QED
      BY <3>1, <3>2, <3>3
  <2>3. GoesBefore(new, k, f, m)
    BY <1>10, <2>2 DEF GoesBefore
  <2>4. NumbersAscend(f, m)
    BY <1>10 DEF NumbersAscend
  <2> QED
    BY <2>1, <2>3, <2>4, InsertedAscend
<1>19. Ascends(r)
  <2>1. DOMAIN r = 1..(m + 1)
    BY <1>2, <1>15 DEF IsInsertedAt
  <2>2. \A j \in 1..(m + 1) : g[j] = graph.nodes[r[j]].layer
    BY <1>17
  <2>3. \A a, b \in 1..(m + 1) : a < b => g[a] <= g[b]
    BY <1>18 DEF NumbersAscend
  <2> SUFFICES ASSUME NEW a \in DOMAIN r, NEW b \in DOMAIN r, a < b
               PROVE  graph.nodes[r[a]].layer <= graph.nodes[r[b]].layer
    BY DEF Ascends
  <2>4. g[a] <= g[b] /\ g[a] = graph.nodes[r[a]].layer /\ g[b] = graph.nodes[r[b]].layer
    BY <2>1, <2>2, <2>3
  <2> QED
    BY <2>4
<1> QED
  BY <1>4, <1>15, <1>16, <1>19 DEF PartlySorted

(* All nodes of a lane in order, none lost and none twice.                  *)
LEMMA InOrderSorts ==
    ASSUME IsGraph(graph), NEW ns \in Seq(Nat), ToSet(ns) \subseteq DOMAIN graph.nodes,
           NEW r, r = InOrder(ns)
    PROVE  r \in Seq(Nat) /\ Ascends(r) /\ \A x : Count(r, x) = Count(ns, x)
<1>1. PICK m \in Nat : m = Len(ns) /\ DOMAIN ns = 1..m
  OBVIOUS
<1> DEFINE insert(i, s) == InsertedInOrder(s, ns[i])
           U == Seq(Nat)
           G == [i \in 0..m |-> {s \in U : PartlySorted(s, ns, i)}]
           Is(sorted) == sorted = [i \in 0..m |-> IF i = 0 THEN <<>>
                                                  ELSE InsertedInOrder(sorted[i - 1], ns[i])]
           next == [i \in 1..m |-> [s \in U |-> insert(i, s)]]
<1>2. /\ \A i \in 0..m : \A s : s \in G[i] <=> s \in U /\ PartlySorted(s, ns, i)
      /\ \A i \in 1..m : i \in 0..m /\ i - 1 \in 0..m /\ i # 0
  OBVIOUS
<1>3. \A i \in 1..m : \A s \in G[i - 1] : s \in U /\ next[i][s] = insert(i, s)
  BY <1>2
<1>4. \A s, i : PartlySorted(s, ns, i) => s \in U
  BY DEF PartlySorted
<1>5. <<>> \in G[0]
  <2>1. SubSeq(ns, 1, 0) = <<>>
    OBVIOUS
  <2>2. Ascends(<<>>)
    BY DEF Ascends
  <2>3. PartlySorted(<<>>, ns, 0)
    <3>1. <<>> \in Seq(Nat)
      OBVIOUS
    <3> QED
      BY <2>1, <2>2, <3>1 DEF PartlySorted
  <2> HIDE DEF G, U
  <2> QED
    BY <1>2, <1>4, <2>3
<1> HIDE DEF G, next, U
<1>6. \A i \in 1..m : \A s \in G[i - 1] : insert(i, s) \in G[i]
  <2> SUFFICES ASSUME NEW i \in 1..m, NEW s, s \in G[i - 1]
               PROVE  insert(i, s) \in G[i]
    OBVIOUS
  <2>1. PartlySorted(s, ns, i - 1) /\ i \in 1..Len(ns)
    BY <1>1, <1>2
  <2>2. PICK t : t = insert(i, s)
    OBVIOUS
  <2>3. PartlySorted(t, ns, i)
    BY <2>1, <2>2, InsertOne
  <2> HIDE DEF insert
  <2> QED
    BY <1>2, <1>4, <2>2, <2>3
<1>7. \E sorted : Is(sorted)
  <2>1. Stages(m, G, <<>>, next)
    BY <1>3, <1>5, <1>6 DEF Stages
  <2>2. PICK sorted : sorted \in UnfoldedIn(m, G, <<>>, next)
    BY <2>1, StagesUnfold
  <2>3. /\ DOMAIN sorted = 0..m /\ sorted = [i \in 0..m |-> sorted[i]]
        /\ \A i \in 0..m : /\ sorted[i] \in G[i]
                           /\ sorted[i] = IF i = 0 THEN <<>> ELSE next[i][sorted[i - 1]]
    BY <2>2 DEF UnfoldedIn
  <2>4. \A i \in 0..m : sorted[i] = IF i = 0 THEN <<>> ELSE insert(i, sorted[i - 1])
    <3>1. \A i \in 0..m : i # 0 => i \in 1..m /\ i - 1 \in 0..m
      OBVIOUS
    <3> HIDE DEF insert
    <3> QED
      BY <1>3, <2>3, <3>1
  <2>5. Is(sorted)
    BY <2>3, <2>4
  <2> HIDE DEF Is
  <2> QED
    BY <2>5
<1>8. PICK sorted : Is(sorted) /\ r = sorted[m]
  <2>1. r = (CHOOSE sorted : Is(sorted))[m]
    BY <1>1 DEF InOrder
  <2> HIDE DEF Is
  <2> QED
    BY <1>7, <2>1
<1>9. sorted[0] = <<>> /\ \A i \in 1..m : sorted[i] = insert(i, sorted[i - 1])
  <2>1. \A i \in 0..m : sorted[i] = IF i = 0 THEN <<>> ELSE insert(i, sorted[i - 1])
    BY <1>8
  <2> HIDE DEF insert
  <2> QED
    BY <1>2, <2>1
<1> HIDE DEF insert, Is
<1>10. \A i \in 0..m : sorted[i] \in G[i]
  <2>1. \A i \in 1..m : sorted[i - 1] \in G[i - 1] => sorted[i] \in G[i]
    BY <1>6, <1>9
  <2>2. sorted[0] \in G[0]
    BY <1>5, <1>9
  <2> QED
    BY <2>1, <2>2, StagesHold
<1>11. m \in 0..m
  OBVIOUS
<1>12. PartlySorted(r, ns, m)
  BY <1>2, <1>8, <1>10, <1>11
<1>13. SubSeq(ns, 1, m) = ns
  BY <1>1
<1> QED
  BY <1>12, <1>13 DEF PartlySorted

(* Sorting the lanes moves no node.                                         *)
LEMMA SortLanesDataNodes ==
    ASSUME LayersInv, SortLanes
    PROVE  BoundInv' /\ LoneInv'
<1>1. /\ graph'.nodes = graph.nodes /\ graph'.edges = graph.edges /\ graph'.numLayers = graph.numLayers
      /\ phase = "sort" /\ phase' = "crossings"
  BY LayersInvParts DEF SortLanes, IsGraph
<1>2. \A n \in DOMAIN graph.nodes, e \in DOMAIN graph.edges : LoneFits(graph, HasLayer(n), n, e)
  BY LoneInvIn DEF LayersInv
<1>3. \A n \in DOMAIN graph'.nodes, e \in DOMAIN graph'.edges : LoneFits(graph', HasLayer(n)', n, e)
  BY <1>1, <1>2 DEF LoneFits, HasLayer, IsOnlyEdge
<1> QED
  BY <1>1, <1>3, LoneInvIn DEF LayersInv, BoundInv

(* Sorting the lanes keeps the invariant.                                   *)
LEMMA SortLanesKeeps ==
    ASSUME LayersInv, SortLanes
    PROVE  LayersInv'
<1>1. /\ IsGraph(graph) /\ EndsExist(graph) /\ Mirrored(graph) /\ LanesComplete(graph)
      /\ phase = "sort" /\ phase' = "crossings" /\ parsed' = parsed /\ at' = at
  BY LayersInvParts DEF SortLanes
<1>2. PICK lanes : lanes = [place \in DOMAIN graph.lanes |-> InOrder(graph.lanes[place])]
  OBVIOUS
<1>3. PICK N, E, P, L : /\ N = Seq(GraphNodes) /\ E = Seq(GraphEdges) /\ P = DOMAIN graph.lanes
                        /\ L = Seq(Nat)
  OBVIOUS
<1>4. graph \in [nodes : N, edges : E, lanes : [P -> L], numLayers : Nat]
  BY <1>1, <1>3 DEF IsGraph
<1>5. graph' = [graph EXCEPT !.lanes = lanes]
  BY <1>2 DEF SortLanes
<1>6. ASSUME NEW place \in P
      PROVE  /\ lanes[place] \in L /\ Ascends(lanes[place])
             /\ \A x : Count(lanes[place], x) = Count(graph.lanes[place], x)
             /\ ToSet(lanes[place]) = ToSet(graph.lanes[place])
  <2>1. PICK ns : ns = graph.lanes[place]
    OBVIOUS
  <2>2. ns \in Seq(Nat) /\ ToSet(ns) \subseteq DOMAIN graph.nodes
    BY <1>1, <1>3, <2>1, GraphParts DEF LanesComplete
  <2>3. PICK r : r = InOrder(ns)
    OBVIOUS
  <2>4. r \in Seq(Nat) /\ Ascends(r) /\ \A x : Count(r, x) = Count(ns, x)
    BY <1>1, <2>2, <2>3, InOrderSorts
  <2>5. ToSet(r) = ToSet(ns)
    <3>1. \A x : (Count(r, x) = 0 <=> x \notin ToSet(r)) /\ (Count(ns, x) = 0 <=> x \notin ToSet(ns))
      BY <2>2, <2>4, CountType
    <3> QED
      BY <2>4, <3>1
  <2>6. lanes[place] = r
    BY <1>2, <1>3, <2>1, <2>3
  <2> QED
    BY <1>3, <2>1, <2>4, <2>5, <2>6
<1>7. lanes \in [P -> L] /\ DOMAIN lanes = P
  BY <1>2, <1>3, <1>6
<1>8. /\ graph' \in [nodes : N, edges : E, lanes : [P -> L], numLayers : Nat]
      /\ graph'.nodes = graph.nodes /\ graph'.edges = graph.edges /\ graph'.lanes = lanes
  BY <1>4, <1>5, <1>7
<1>9. IsGraph(graph')
  BY <1>3, <1>7, <1>8 DEF IsGraph
<1>10. TypeOK'
  BY <1>1, <1>3, <1>7, <1>8, <1>9 DEF LayersInv, TypeOK
<1>11. EndsExist(graph') /\ Mirrored(graph')
  BY <1>1, <1>3, <1>7, <1>8 DEF EndsExist, Mirrored
<1>12. LanesComplete(graph')
  <2>1. \A place \in P :
           /\ ToSet(graph.lanes[place]) \subseteq DOMAIN graph.nodes
           /\ \A n \in DOMAIN graph.nodes :
                 Count(graph.lanes[place], n) = IF Place(graph.nodes[n]) = place THEN 1 ELSE 0
    BY <1>1, <1>3 DEF LanesComplete
  <2>2. \A place \in P :
           /\ ToSet(lanes[place]) \subseteq DOMAIN graph.nodes
           /\ \A n \in DOMAIN graph.nodes :
                 Count(lanes[place], n) = IF Place(graph.nodes[n]) = place THEN 1 ELSE 0
    BY <1>6, <2>1
  <2> QED
    BY <1>7, <1>8, <2>2 DEF LanesComplete
<1>13. LanesSorted(graph')
  <2>1. \A place \in P : \A i, j \in DOMAIN lanes[place] :
           i < j => graph.nodes[lanes[place][i]].layer <= graph.nodes[lanes[place][j]].layer
    BY <1>6 DEF Ascends
  <2> QED
    BY <1>7, <1>8, <1>12, <2>1 DEF LanesSorted
<1>14. /\ \A e : RightIn(graph', e) <=> RightIn(graph, e)
       /\ \A e : ShortOrChainIn(graph', e) <=> ShortOrChainIn(graph, e)
  BY <1>8 DEF RightIn, ShortOrChainIn, IsChain, HopsOf, SamePool, From, To
<1>15. EdgesPointRight'
  <2>1. \A e \in DOMAIN graph.edges : RightIn(graph, e)
    BY <1>1, PointsRightIn DEF LayersInv, EdgesPointRight
  <2>2. \A e \in DOMAIN graph'.edges : PointsRight(e)'
    BY <1>8, <1>14, <2>1, PointsRightIn
  <2> QED
    BY <2>2 DEF EdgesPointRight
<1>16. SplitInv'
  <2>1. \A e \in DOMAIN graph.edges : ShortOrChainIn(graph, e)
    BY <1>1, IsShortOrChainIn DEF LayersInv, SplitInv
  <2>2. \A e \in DOMAIN graph'.edges : IsShortOrChain(e)'
    BY <1>8, <1>14, <2>1, IsShortOrChainIn
  <2>3. at = 1
    BY <1>1 DEF LayersInv, SplitInv
  <2> QED
    BY <1>1, <2>2, <2>3 DEF SplitInv
<1>17. CyclesInv' /\ GraphInv'
  BY <1>1, <1>11, <1>12 DEF LayersInv, CyclesInv, GraphInv
<1>18. LanesSorted(graph)'
  BY <1>13 DEF LanesSorted, LanesComplete
<1> QED
  BY <1>1, <1>10, <1>15, <1>16, <1>17, <1>18, SortLanesDataNodes DEF LayersInv, FlowsInv, UnplacedInv, PlacedInv

-----------------------------------------------------------------------------
(* The theorems *)

(* Every phase keeps the invariant, and so does stopping.                   *)
LEMMA LayersStep ==
    ASSUME LayersInv, [Next]_vars
    PROVE  LayersInv'
<1>1. CASE SolveLayers
  BY <1>1, SolveLayersKeeps
<1>2. CASE PlaceDataNode
  BY <1>2, PlaceDataNodeKeeps
<1>3. CASE SplitEdge
  BY <1>3, SplitEdgeKeeps
<1>4. CASE SortLanes
  BY <1>4, SortLanesKeeps
<1>5. CASE UNCHANGED vars
  <2>1. UNCHANGED <<parsed, graph, phase, at>>
    BY <1>5 DEF vars
  <2>2. \A e : /\ PointsRight(e)' <=> PointsRight(e)
               /\ IsShortOrChain(e)' <=> IsShortOrChain(e)
               /\ SamePool(graph, e)' <=> SamePool(graph, e)
    BY <2>1 DEF PointsRight, IsShortOrChain, IsChain, HopsOf, SamePool, HalfLayers, From, To
  <2>3. /\ TypeOK' <=> TypeOK
        /\ GraphInv' <=> GraphInv
        /\ LanesSorted(graph)' <=> LanesSorted(graph)
        /\ CyclesInv' <=> CyclesInv
    BY <2>1 DEF TypeOK, GraphInv, IsGraph, EndsExist, Mirrored, LanesComplete, LanesSorted, CyclesInv, Cyclic
  <2>4. FlowsInv' <=> FlowsInv
    BY <2>1 DEF FlowsInv, SamePool, From, To, IsData
  <2>5. UnplacedInv' <=> UnplacedInv
    BY <2>1 DEF UnplacedInv, IsData
  <2>6. PlacedInv' <=> PlacedInv
    BY <2>1, <2>2 DEF PlacedInv, From, To, IsData
  <2>7. EdgesPointRight' <=> EdgesPointRight
    BY <2>1, <2>2 DEF EdgesPointRight
  <2>8. SplitInv' <=> SplitInv
    BY <2>1, <2>2 DEF SplitInv
  <2>9. BoundInv' <=> BoundInv
    BY <2>1 DEF BoundInv, FlowNodes, IsData
  <2>10. LoneInv' <=> LoneInv
    BY <2>1 DEF LoneInv, IsData, IsOnlyEdge, OtherEnd, Place
  <2> QED
    BY <2>1, <2>3, <2>4, <2>5, <2>6, <2>7, <2>8, <2>9, <2>10 DEF LayersInv
<1> QED
  BY <1>1, <1>2, <1>3, <1>4, <1>5 DEF Next, Work, Terminated

(* The invariant of the first layout phases holds in every state, whatever  *)
(* file is laid out and whichever optimum the solver returns.               *)
THEOREM LayersInvariant == Spec => []LayersInv
<1>1. Init => LayersInv
  BY InitLayers
<1>2. LayersInv /\ [Next]_vars => LayersInv'
  BY LayersStep
<1> QED
  BY <1>1, <1>2, PTL DEF Spec

(* `incoming` and `outgoing` list every edge once at its ends, but for the  *)
(* replaced ones, and the lanes are sorted by layer in the end.             *)
THEOREM ListsAlwaysMirrorGraph == Spec => []ListsMirrorGraph
<1>1. LayersInv => ListsMirrorGraph
  BY DEF LayersInv, GraphInv, ListsMirrorGraph
<1> QED
  BY <1>1, LayersInvariant, PTL

(* Laying out panics on sequence flows that go round in a circle and on     *)
(* nothing else: the solver finds no layers for them, and the subtraction   *)
(* of layers in generate_dummy_nodes() never underflows.                    *)
THEOREM OnlyCyclesPanic == Spec => []PanicsOnCycles
<1>1. LayersInv => PanicsOnCycles
  BY DEF LayersInv, CyclesInv, PanicsOnCycles
<1> QED
  BY <1>1, LayersInvariant, PTL

(* Once the data nodes are placed, no edge within a pool points to the left.*)
THEOREM EdgesAlwaysPointRight == Spec => []EdgesPointRight
<1>1. LayersInv => EdgesPointRight
  BY DEF LayersInv
<1> QED
  BY <1>1, LayersInvariant, PTL

(* Once the lanes are sorted, every edge within a pool is over at most one  *)
(* layer or replaced by a chain of edges that each are over one.            *)
THEOREM LongEdgesBecomeChains == Spec => []LongEdgesAreChains
<1>1. LayersInv => LongEdgesAreChains
  BY DEF LayersInv, SplitInv, LongEdgesAreChains
<1> QED
  BY <1>1, LayersInvariant, PTL
=============================================================================
