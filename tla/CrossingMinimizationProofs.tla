---------------------- MODULE CrossingMinimizationProofs ----------------------
(***************************************************************************)
(* What reduce_all_crossings() keeps, whatever order the integer program   *)
(* chooses: the nodes of every column are linked to one list from top to   *)
(* bottom, also after lone data nodes were put into it and temporary ones  *)
(* taken out of it; and what rerouting an edge, and undoing it, does to    *)
(* the lists of its ends.                                                  *)
(***************************************************************************)
EXTENDS CrossingMinimization, LayerAssignmentProofs

-----------------------------------------------------------------------------
(* Lists of linked nodes *)

(* The nodes of S are linked in the order of their positions.               *)
InPositions(g, S, k, position) ==
    /\ position \in [S -> 1..k]
    /\ \A n \in S : {g.nodes[n].above, g.nodes[n].below} \subseteq S \union {0}
    /\ \A m, n \in S :
          /\ position[m] = position[n] => m = n
          /\ g.nodes[m].below = n <=> position[n] = position[m] + 1
          /\ g.nodes[n].above = m <=> position[n] = position[m] + 1

(* There are such positions for a linked list, one for each node.           *)
LEMMA LinkedListPositions ==
    ASSUME NEW g, NEW S
    PROVE  IsLinkedList(g, S) <=> \E position : InPositions(g, S, Cardinality(S), position)
BY DEF IsLinkedList, InPositions

(* Only the links of the nodes of a list matter.                            *)
LEMMA SameLinksSameList ==
    ASSUME NEW g, NEW r, NEW S,
           \A n \in S : r.nodes[n].above = g.nodes[n].above /\ r.nodes[n].below = g.nodes[n].below
    PROVE  IsLinkedList(g, S) => IsLinkedList(r, S)
<1> SUFFICES ASSUME IsLinkedList(g, S)
             PROVE  IsLinkedList(r, S)
  OBVIOUS
<1>1. PICK position : InPositions(g, S, Cardinality(S), position)
  BY LinkedListPositions
<1>2. InPositions(r, S, Cardinality(S), position)
  BY <1>1 DEF InPositions
<1> QED
  BY <1>2, LinkedListPositions

(* Node n comes between a and b, one of which may be the end of the list.   *)
Between(r, g, S, n, a, b) ==
    /\ r.nodes[n].above = a /\ r.nodes[n].below = b
    /\ \A m \in S : /\ r.nodes[m].below = IF m = a THEN n ELSE g.nodes[m].below
                    /\ r.nodes[m].above = IF m = b THEN n ELSE g.nodes[m].above

(* A node that comes between two neighbours is in the list.                 *)
LEMMA BetweenIsInList ==
    ASSUME NEW g, NEW S, NEW k \in Nat, NEW position, InPositions(g, S, k, position), 0 \notin S,
           NEW n, n \notin S, n # 0, NEW a, NEW b,
           (a \in S /\ b = g.nodes[a].below) \/ (b \in S /\ a = g.nodes[b].above),
           NEW r, Between(r, g, S, n, a, b)
    PROVE  \E q : InPositions(r, S \union {n}, k + 1, q)
<1>1. /\ \A m \in S : position[m] \in 1..k
      /\ a \in S \union {0} /\ b \in S \union {0}
  BY DEF InPositions
<1>2. PICK p \in 1..(k + 1) : \A m \in S : (m = a <=> position[m] + 1 = p) /\ (m = b <=> position[m] = p)
  <2>1. CASE a \in S /\ b = g.nodes[a].below
    <3>1. PICK p : p = position[a] + 1
      OBVIOUS
    <3>2. p \in 1..(k + 1)
      <4>1. position[a] \in 1..k
        BY <1>1, <2>1
      <4> QED
        BY <3>1, <4>1
    <3>3. \A m \in S : m = b <=> position[m] = p
      BY <2>1, <3>1 DEF InPositions
    <3>4. ASSUME NEW m \in S
          PROVE  m = a <=> position[m] + 1 = p
      <4>1. position[m] \in Nat /\ position[a] \in Nat
        BY <1>1, <2>1
      <4>2. position[m] = position[a] <=> m = a
        BY <2>1 DEF InPositions
      <4> QED
        BY <3>1, <4>1, <4>2
    <3> QED
      BY <3>2, <3>3, <3>4
  <2>2. CASE b \in S /\ a = g.nodes[b].above
    <3>1. PICK p : p = position[b]
      OBVIOUS
    <3>2. p \in 1..(k + 1)
      <4>1. position[b] \in 1..k
        BY <1>1, <2>2
      <4> QED
        BY <3>1, <4>1
    <3>3. \A m \in S : m = a <=> position[m] + 1 = p
      BY <2>2, <3>1 DEF InPositions
    <3>4. \A m \in S : m = b <=> position[m] = p
      BY <2>2, <3>1 DEF InPositions
    <3> QED
      BY <3>2, <3>3, <3>4
  <2> QED
    BY <2>1, <2>2
<1> DEFINE T == S \union {n}
           q == [m \in T |-> IF m = n THEN p ELSE IF position[m] >= p THEN position[m] + 1 ELSE position[m]]
<1>3. /\ q[n] = p
      /\ \A m \in S : q[m] = IF position[m] >= p THEN position[m] + 1 ELSE position[m]
  OBVIOUS
<1>4. \A m \in S : position[m] \in Nat /\ position[m] >= 1 /\ position[m] <= k
  BY <1>1
<1>5. p \in Nat /\ p >= 1 /\ p <= k + 1
  BY <1>2
<1>6. q \in [T -> 1..(k + 1)]
  <2>1. \A m \in S : q[m] \in 1..(k + 1)
    BY <1>3, <1>4, <1>5
  <2>2. \A m \in T : q[m] \in 1..(k + 1)
    BY <1>2, <1>3, <2>1
  <2> QED
    BY <2>2
<1> HIDE DEF q
<1>7. \A m \in S : /\ {g.nodes[m].above, g.nodes[m].below} \subseteq S \union {0}
                   /\ g.nodes[m].below # n /\ g.nodes[m].above # n
  BY DEF InPositions
<1>8. \A m \in T : {r.nodes[m].above, r.nodes[m].below} \subseteq T \union {0}
  BY <1>1, <1>7 DEF Between
<1>9. ASSUME NEW m \in S
      PROVE  /\ q[m] # p
             /\ q[m] = p + 1 <=> m = b
             /\ p = q[m] + 1 <=> m = a
             /\ r.nodes[m].below = n <=> m = a
             /\ r.nodes[m].above = n <=> m = b
  <2>1. q[m] # p /\ (q[m] = p + 1 <=> position[m] = p) /\ (p = q[m] + 1 <=> position[m] + 1 = p)
    BY <1>3, <1>4, <1>5
  <2> QED
    BY <1>2, <1>7, <2>1 DEF Between
<1>10. ASSUME NEW x \in S, NEW y \in S
       PROVE  /\ q[x] = q[y] => x = y
              /\ r.nodes[x].below = y <=> q[y] = q[x] + 1
              /\ r.nodes[y].above = x <=> q[y] = q[x] + 1
  <2>1. /\ position[x] = position[y] => x = y
        /\ g.nodes[x].below = y <=> position[y] = position[x] + 1
        /\ g.nodes[y].above = x <=> position[y] = position[x] + 1
    BY DEF InPositions
  <2>2. q[x] = q[y] <=> position[x] = position[y]
    BY <1>3, <1>4, <1>5
  <2>3. q[y] = q[x] + 1 <=> position[y] = position[x] + 1 /\ position[y] # p
    BY <1>3, <1>4, <1>5
  <2>4. y # n /\ x # n
    OBVIOUS
  <2>5. r.nodes[x].below = y <=> g.nodes[x].below = y /\ x # a
    BY <2>4 DEF Between
  <2>6. r.nodes[y].above = x <=> g.nodes[y].above = x /\ y # b
    BY <2>4 DEF Between
  <2>7. position[y] = position[x] + 1 => (x = a <=> position[y] = p)
    BY <1>2, <1>4
  <2>8. y = b <=> position[y] = p
    BY <1>2
  <2> QED
    BY <2>1, <2>2, <2>3, <2>5, <2>6, <2>7, <2>8
<1>11. ASSUME NEW x \in T, NEW y \in T
       PROVE  /\ q[x] = q[y] => x = y
              /\ r.nodes[x].below = y <=> q[y] = q[x] + 1
              /\ r.nodes[y].above = x <=> q[y] = q[x] + 1
  <2>1. CASE x = n /\ y = n
    <3>1. a # n /\ b # n
      BY <1>1
    <3> QED
      BY <1>3, <1>5, <2>1, <3>1 DEF Between
  <2>2. CASE x = n /\ y \in S
    BY <1>3, <1>9, <2>2 DEF Between
  <2>3. CASE x \in S /\ y = n
    BY <1>3, <1>9, <2>3 DEF Between
  <2>4. CASE x \in S /\ y \in S
    BY <1>10, <2>4
  <2> QED
    BY <2>1, <2>2, <2>3, <2>4
<1>12. InPositions(r, T, k + 1, q)
  BY <1>6, <1>8, <1>11 DEF InPositions
<1> QED
  BY <1>12

(* Node t is taken out of its list: its neighbours are linked.              *)
TakenOut(r, g, S, t) ==
    \A m \in S \ {t} :
        /\ r.nodes[m].below = IF m = g.nodes[t].above THEN g.nodes[t].below ELSE g.nodes[m].below
        /\ r.nodes[m].above = IF m = g.nodes[t].below THEN g.nodes[t].above ELSE g.nodes[m].above

(* The others are still a list.                                             *)
LEMMA TakenOutIsList ==
    ASSUME NEW g, NEW S, NEW k \in Nat, NEW position, InPositions(g, S, k + 1, position), 0 \notin S,
           NEW t \in S, NEW r, TakenOut(r, g, S, t)
    PROVE  \E q : InPositions(r, S \ {t}, k, q)
<1>1. \A m \in S : position[m] \in Nat /\ position[m] >= 1 /\ position[m] <= k + 1
  BY DEF InPositions
<1>2. PICK p \in Nat : p = position[t] /\ p >= 1 /\ p <= k + 1
  BY <1>1
<1>3. PICK a, b : a = g.nodes[t].above /\ b = g.nodes[t].below
  OBVIOUS
<1>4. /\ a \in S \union {0} /\ b \in S \union {0}
      /\ \A m \in S : /\ m = a <=> p = position[m] + 1
                      /\ m = b <=> position[m] = p + 1
                      /\ m = t <=> position[m] = p
                      /\ g.nodes[m].below = t <=> p = position[m] + 1
                      /\ g.nodes[m].above = t <=> position[m] = p + 1
  BY <1>2, <1>3 DEF InPositions
<1> DEFINE T == S \ {t}
           q == [m \in T |-> IF position[m] > p THEN position[m] - 1 ELSE position[m]]
<1>5. \A m \in T : q[m] = IF position[m] > p THEN position[m] - 1 ELSE position[m]
  OBVIOUS
<1>6. \A m \in T : position[m] # p /\ q[m] \in 1..k
  <2> SUFFICES ASSUME NEW m \in T
               PROVE  position[m] # p /\ q[m] \in 1..k
    OBVIOUS
  <2>1. position[m] # p
    BY <1>4
  <2> QED
    BY <1>1, <1>2, <1>5, <2>1
<1>7. q \in [T -> 1..k]
  BY <1>6
<1> HIDE DEF q
<1>8. a # t /\ b # t
  BY <1>2, <1>4
<1>9. \A m \in T : {r.nodes[m].above, r.nodes[m].below} \subseteq T \union {0}
  <2> SUFFICES ASSUME NEW m \in T
               PROVE  {r.nodes[m].above, r.nodes[m].below} \subseteq T \union {0}
    OBVIOUS
  <2>1. {g.nodes[m].above, g.nodes[m].below} \subseteq S \union {0}
    BY DEF InPositions
  <2>2. (g.nodes[m].below = t <=> m = a) /\ (g.nodes[m].above = t <=> m = b)
    BY <1>4
  <2>3. /\ r.nodes[m].below = IF m = a THEN b ELSE g.nodes[m].below
        /\ r.nodes[m].above = IF m = b THEN a ELSE g.nodes[m].above
    BY <1>3 DEF TakenOut
  <2> QED
    BY <1>4, <1>8, <2>1, <2>2, <2>3
<1>10. ASSUME NEW x \in T, NEW y \in T
       PROVE  /\ q[x] = q[y] => x = y
              /\ r.nodes[x].below = y <=> q[y] = q[x] + 1
              /\ r.nodes[y].above = x <=> q[y] = q[x] + 1
  <2>1. /\ position[x] = position[y] => x = y
        /\ g.nodes[x].below = y <=> position[y] = position[x] + 1
        /\ g.nodes[y].above = x <=> position[y] = position[x] + 1
    BY DEF InPositions
  <2>2. /\ position[x] \in Nat /\ position[y] \in Nat /\ position[x] # p /\ position[y] # p
    BY <1>1, <1>6
  <2>3. q[x] = q[y] <=> position[x] = position[y]
    BY <1>2, <1>5, <2>2
  <2>4. q[y] = q[x] + 1 <=> \/ position[y] = position[x] + 1
                            \/ p = position[x] + 1 /\ position[y] = p + 1
    BY <1>2, <1>5, <2>2
  <2>5. r.nodes[x].below = y <=> IF x = a THEN y = b ELSE g.nodes[x].below = y
    BY <1>3 DEF TakenOut
  <2>6. r.nodes[y].above = x <=> IF y = b THEN x = a ELSE g.nodes[y].above = x
    BY <1>3 DEF TakenOut
  <2>7. (x = a <=> p = position[x] + 1) /\ (y = b <=> position[y] = p + 1)
    BY <1>4
  <2>8. position[y] = position[x] + 1 => p # position[x] + 1 /\ position[y] # p + 1
    BY <1>2, <2>2
  <2> QED
    BY <2>1, <2>3, <2>4, <2>5, <2>6, <2>7, <2>8
<1>11. InPositions(r, T, k, q)
  BY <1>7, <1>9, <1>10 DEF InPositions
<1> QED
  BY <1>11
-----------------------------------------------------------------------------
(* The invariant in the phases of this module, about the values that the    *)
(* variables have before or after a step                                    *)

(* Exactly the nodes of L are linked, in their columns.                     *)
LinksHold(g, L) ==
    /\ \A n \in L : IsLinkedList(g, InColumn(g, n) \intersect L)
    /\ \A n \in DOMAIN g.nodes \ L : g.nodes[n].above = 0 /\ g.nodes[n].below = 0

LinkedIn(g, ph, i) ==
    {n \in DOMAIN g.nodes :
        /\ ph # "crossings" /\ g.nodes[n].layer < g.numLayers
        /\ ph = "order" => ~IsLoneData(g.nodes[n]) /\ g.nodes[n].layer + 1 < i
        /\ ph = "lone" /\ IsLoneData(g.nodes[n]) => n < i}

LinksTyped(g) ==
    \A n \in DOMAIN g.nodes : {g.nodes[n].above, g.nodes[n].below} \subseteq 0..Len(g.nodes)

KeptAt(g, b, ph) ==
    /\ EndsExist(b)
    /\ Len(b.nodes) <= Len(g.nodes)
    /\ ph \in {"edges", "ports"} => Len(g.nodes) = Len(b.nodes)
    /\ \A n \in DOMAIN g.nodes :
          IF n \in DOMAIN b.nodes THEN g.nodes[n].layer < g.numLayers
          ELSE g.nodes[n].kind = "Dummy"

ReroutingAt(g, b, i) ==
    /\ Len(b.edges) <= Len(g.edges)
    /\ \A e \in i..Len(b.edges) :
          /\ g.edges[e] = b.edges[e]
          /\ From(g, e).layer = To(g, e).layer => g.edges[e].type # "Replaced"

LoneBeside(g, n, e) ==
    IsData(g.nodes[n]) /\ IsOnlyEdge(g, n, e) =>
        LET other == OtherEnd(g.edges[e], n)
        IN other < n /\ Column(g, other) = Column(g, n)

Whole(g) ==
    /\ EndsExist(g) /\ Mirrored(g) /\ LanesComplete(g)
    /\ \A n \in DOMAIN g.nodes, e \in DOMAIN g.edges : LoneBeside(g, n, e)

SavedEdges(b) == Seq([id : DOMAIN b.edges, edge : ToSet(b.edges)])

InvAt(g, b, ph, i, s) ==
    /\ ph \in CrossingPhases /\ i \in Nat /\ i >= 1 /\ IsGraph(g) /\ IsGraph(b) /\ s \in SavedEdges(b)
    /\ KeptAt(g, b, ph)
    /\ ph = "crossings" => ReroutingAt(g, b, i)
    /\ ph \in {"crossings", "order", "lone"} => Whole(g)
    /\ LinksHold(g, LinkedIn(g, ph, i))

(* Links lead to nodes.                                                     *)
LEMMA LinksAreTyped ==
    ASSUME NEW g, IsGraph(g), NEW L \in SUBSET DOMAIN g.nodes, LinksHold(g, L)
    PROVE  LinksTyped(g)
<1> SUFFICES ASSUME NEW n \in DOMAIN g.nodes
             PROVE  {g.nodes[n].above, g.nodes[n].below} \subseteq 0..Len(g.nodes)
  BY DEF LinksTyped
<1>1. DOMAIN g.nodes = 1..Len(g.nodes) /\ Len(g.nodes) \in Nat
  BY GraphParts
<1>2. CASE n \in L
  <2>1. n \in InColumn(g, n) \intersect L
    BY <1>2 DEF InColumn
  <2>2. PICK S : S = InColumn(g, n) \intersect L
    OBVIOUS
  <2>3. IsLinkedList(g, S)
    BY <1>2, <2>2 DEF LinksHold
  <2>4. {g.nodes[n].above, g.nodes[n].below} \subseteq S \union {0} /\ S \subseteq DOMAIN g.nodes
    BY <2>1, <2>2, <2>3 DEF IsLinkedList
  <2> QED
    BY <1>1, <2>4
<1>3. CASE n \notin L
  BY <1>1, <1>3 DEF LinksHold
<1> QED
  BY <1>2, <1>3

(* The links of linked nodes stay in their columns.                         *)
LEMMA LinksInvIn ==
    /\ LinksInv <=> (phase \in CrossingPhases => LinksHold(graph, LinkedIn(graph, phase, at)))
    /\ LinksInv' <=> (phase' \in CrossingPhases => LinksHold(graph', LinkedIn(graph', phase', at')))
<1>1. LinkedNodes = LinkedIn(graph, phase, at) /\ LinkedNodes' = LinkedIn(graph', phase', at')
  BY DEF LinkedNodes, LinkedIn
<1>2. LinksInv <=> (phase \in CrossingPhases => LinksHold(graph, LinkedNodes))
  BY DEF LinksInv, LinksHold
<1>3. PICK r, L : r = graph' /\ L = LinkedNodes'
  OBVIOUS
<1>4. LinksInv' <=> (phase' \in CrossingPhases =>
                        /\ \A S \in {InColumn(r, n) \intersect L : n \in L} : IsLinkedList(r, S)
                        /\ \A n \in DOMAIN r.nodes \ L : r.nodes[n].above = 0 /\ r.nodes[n].below = 0)
  <2>1. /\ \A n : InColumn(graph, n)' = InColumn(r, n)
        /\ \A S : IsLinkedList(graph, S)' <=> IsLinkedList(r, S)
    BY <1>3 DEF InColumn, Column, Place, IsLinkedList
  <2> QED
    BY <1>3, <2>1 DEF LinksInv
<1>5. LinksInv' <=> (phase' \in CrossingPhases => LinksHold(r, L))
  BY <1>4 DEF LinksHold
<1> QED
  BY <1>1, <1>2, <1>3, <1>5

(* In the phases of this module the invariant says this much.               *)
LEMMA CrossingInvIn ==
    /\ CrossingInv /\ phase \in CrossingPhases <=> InvAt(graph, before, phase, at, saved)
    /\ InvAt(graph', before', phase', at', saved') => CrossingInv'
<1>1. LinkedIn(graph, phase, at) \subseteq DOMAIN graph.nodes
      /\ LinkedIn(graph', phase', at') \subseteq DOMAIN graph'.nodes
  BY DEF LinkedIn
<1>2. \A ph \in CrossingPhases : ph \notin Phases
  BY DEF CrossingPhases, Phases
<1>3. ASSUME CrossingInv, phase \in CrossingPhases
      PROVE  InvAt(graph, before, phase, at, saved)
  <2>1. KeptAt(graph, before, phase)
    BY <1>3 DEF CrossingInv, KeptInv, KeptAt, Done
  <2>2. phase = "crossings" => ReroutingAt(graph, before, at)
    BY <1>3 DEF CrossingInv, ReroutingInv, ReroutingAt
  <2>3. phase \in {"crossings", "order", "lone"} => Whole(graph)
    BY <1>3 DEF CrossingInv, WholeInv, Whole, LoneBeside
  <2>4. LinksHold(graph, LinkedIn(graph, phase, at))
    BY <1>3, LinksInvIn DEF CrossingInv
  <2> QED
    BY <1>3, <2>1, <2>2, <2>3, <2>4 DEF CrossingInv, CrossingTypeOK, KeptInv, InvAt, SavedEdges
<1>4. ASSUME InvAt(graph, before, phase, at, saved)
      PROVE  CrossingInv /\ phase \in CrossingPhases
  <2>1. phase \in CrossingPhases /\ phase \notin Phases
    BY <1>2, <1>4 DEF InvAt
  <2>2. LinksInv
    BY <1>4, LinksInvIn DEF InvAt
  <2>3. LinksTyped(graph)
    BY <1>1, <1>4, LinksAreTyped DEF InvAt
  <2>4. CrossingTypeOK
    BY <1>4, <2>1, <2>3 DEF InvAt, CrossingTypeOK, LinksTyped, SavedEdges
  <2>5. KeptInv
    BY <1>4 DEF InvAt, KeptInv, KeptAt, Done
  <2>6. ReroutingInv
    BY <1>4 DEF InvAt, ReroutingInv, ReroutingAt
  <2>7. WholeInv
    BY <1>4 DEF InvAt, WholeInv, Whole, LoneBeside
  <2> QED
    BY <2>1, <2>2, <2>4, <2>5, <2>6, <2>7 DEF CrossingInv, StartInv
<1>5. ASSUME InvAt(graph', before', phase', at', saved')
      PROVE  CrossingInv'
  <2>1. phase' \in CrossingPhases /\ phase' \notin Phases
    BY <1>2, <1>5 DEF InvAt
  <2>2. LinksInv'
    BY <1>5, LinksInvIn DEF InvAt
  <2>3. LinksTyped(graph')
    <3>1. PICK r, L : r = graph' /\ L = LinkedIn(graph', phase', at')
      OBVIOUS
    <3>2. IsGraph(r) /\ L \in SUBSET DOMAIN r.nodes /\ LinksHold(r, L)
      BY <1>1, <1>5, <3>1 DEF InvAt
    <3> QED
      BY <3>1, <3>2, LinksAreTyped
  <2>4. CrossingTypeOK'
    <3>1. IsGraph(graph)' /\ IsGraph(before)'
      BY <1>5 DEF InvAt, IsGraph
    <3> QED
      BY <1>5, <2>1, <2>3, <3>1 DEF InvAt, CrossingTypeOK, LinksTyped, SavedEdges
  <2>5. KeptInv'
    BY <1>5 DEF InvAt, KeptInv, KeptAt, Done, EndsExist, Place
  <2>6. ReroutingInv'
    BY <1>5 DEF InvAt, ReroutingInv, ReroutingAt, From, To
  <2>7. WholeInv'
    <3>1. /\ EndsExist(graph)' <=> EndsExist(graph')
          /\ Mirrored(graph)' <=> Mirrored(graph')
          /\ LanesComplete(graph)' <=> LanesComplete(graph')
      BY DEF EndsExist, Mirrored, LanesComplete
    <3> QED
      BY <1>5, <3>1 DEF InvAt, WholeInv, Whole, LoneBeside, IsData, IsOnlyEdge, OtherEnd, Column, Place
  <2> QED
    BY <2>1, <2>2, <2>4, <2>5, <2>6, <2>7 DEF CrossingInv, StartInv
<1> QED
  BY <1>3, <1>4, <1>5

(* Lists and kinds do not matter to the links.                              *)
SameColumns(r, g) ==
    /\ DOMAIN r.nodes = DOMAIN g.nodes
    /\ \A n \in DOMAIN g.nodes :
          /\ r.nodes[n].pool = g.nodes[n].pool /\ r.nodes[n].lane = g.nodes[n].lane
          /\ r.nodes[n].layer = g.nodes[n].layer
          /\ r.nodes[n].above = g.nodes[n].above /\ r.nodes[n].below = g.nodes[n].below

LEMMA LinksKept ==
    ASSUME NEW g, NEW r, SameColumns(r, g), NEW L \in SUBSET DOMAIN g.nodes, LinksHold(g, L)
    PROVE  LinksHold(r, L)
<1>1. \A n \in DOMAIN g.nodes : InColumn(r, n) = InColumn(g, n)
  BY DEF SameColumns, InColumn, Column, Place
<1>2. ASSUME NEW n \in L
      PROVE  IsLinkedList(r, InColumn(r, n) \intersect L)
  <2>1. PICK S : S = InColumn(g, n) \intersect L
    OBVIOUS
  <2>2. \A m \in S : r.nodes[m].above = g.nodes[m].above /\ r.nodes[m].below = g.nodes[m].below
    BY <2>1 DEF SameColumns
  <2>3. IsLinkedList(g, S)
    BY <2>1 DEF LinksHold
  <2>4. IsLinkedList(r, S)
    BY <2>2, <2>3, SameLinksSameList
  <2> QED
    BY <1>1, <2>1, <2>4
<1>3. \A n \in DOMAIN r.nodes \ L : r.nodes[n].above = 0 /\ r.nodes[n].below = 0
  BY DEF SameColumns, LinksHold
<1> QED
  BY <1>2, <1>3 DEF LinksHold

(* Before the nodes are ordered none is linked.                             *)
LEMMA NothingLinked ==
    ASSUME NEW g, \A n \in DOMAIN g.nodes : g.nodes[n].above = 0 /\ g.nodes[n].below = 0, NEW i
    PROVE  LinksHold(g, LinkedIn(g, "crossings", i))
<1>1. LinkedIn(g, "crossings", i) = {}
  BY DEF LinkedIn
<1> QED
  BY <1>1 DEF LinksHold

-----------------------------------------------------------------------------
(* The phases of LayerAssignment *)

(* A replaced edge is over more than one layer.                             *)
LEMMA ChainsAreLong ==
    ASSUME NEW g, IsGraph(g), EndsExist(g), NEW e \in DOMAIN g.edges, IsChain(g, e)
    PROVE  From(g, e).layer # To(g, e).layer
<1>1. PICK first, start, end, last : /\ first = g.edges[e].first /\ start = From(g, e).layer
                                     /\ end = To(g, e).layer /\ last = first + end - start - 1
  OBVIOUS
<1>2. first \in Nat /\ start \in Nat /\ end \in Nat
  <2>1. g.edges[e] \in GraphEdges /\ From(g, e) \in GraphNodes /\ To(g, e) \in GraphNodes
    BY GraphParts DEF EndsExist, From, To
  <2> QED
    BY <1>1, <2>1 DEF GraphEdges, GraphNodes
<1>3. first < last
  BY <1>1 DEF IsChain
<1> QED
  BY <1>1, <1>2, <1>3

(* What LayerAssignment leaves is what the crossings are reduced in.        *)
LEMMA LayOutKeeps ==
    ASSUME CrossingInv, LayOut
    PROVE  CrossingInv'
<1>1. Work /\ before' = graph' /\ saved' = saved
  BY DEF LayOut
<1>2. phase \in Phases
  BY <1>1 DEF Work, SolveLayers, PlaceDataNode, SplitEdge, SortLanes, Phases
<1>3. LayersInv /\ saved = <<>>
  BY <1>2 DEF CrossingInv, StartInv
<1>4. LayersInv'
  BY <1>1, <1>3, LayersStep DEF Next
<1>5. /\ IsGraph(graph') /\ at' \in Nat /\ EndsExist(graph')
      /\ \A n \in DOMAIN graph'.nodes : graph'.nodes[n].above = 0 /\ graph'.nodes[n].below = 0
      /\ Mirrored(graph') /\ LanesComplete(graph')
  <2>1. TypeOK' /\ GraphInv'
    BY <1>4 DEF LayersInv
  <2>2. /\ IsGraph(graph)' <=> IsGraph(graph')
        /\ EndsExist(graph)' <=> EndsExist(graph')
        /\ Mirrored(graph)' <=> Mirrored(graph')
        /\ LanesComplete(graph)' <=> LanesComplete(graph')
    BY DEF IsGraph, EndsExist, Mirrored, LanesComplete
  <2> QED
    BY <2>1, <2>2 DEF TypeOK, GraphInv
<1>6. saved' \in SavedEdges(before')
  BY <1>1, <1>3 DEF SavedEdges
<1>7. CASE phase' = "crossings"
  <2>1. at' = 1 /\ \A e \in DOMAIN graph'.edges : ShortOrChainIn(graph', e)
    BY <1>4, <1>7, IsShortOrChainIn DEF LayersInv, SplitInv
  <2>2. \A n \in DOMAIN graph'.nodes : graph'.nodes[n].layer < graph'.numLayers
    BY <1>4, <1>7 DEF LayersInv, BoundInv
  <2>3. Len(graph'.nodes) \in Nat /\ Len(graph'.edges) \in Nat /\ DOMAIN graph'.edges = 1..Len(graph'.edges)
    BY <1>5, GraphParts
  <2>4. KeptAt(graph', before', phase')
    BY <1>1, <1>5, <1>7, <2>2, <2>3 DEF KeptAt
  <2>5. ReroutingAt(graph', before', at')
    <3>1. \A e \in DOMAIN graph'.edges :
             From(graph', e).layer = To(graph', e).layer => graph'.edges[e].type # "Replaced"
      BY <1>5, <2>1, ChainsAreLong DEF ShortOrChainIn
    <3> QED
      BY <1>1, <2>1, <2>3, <3>1 DEF ReroutingAt
  <2>6. Whole(graph')
    <3>1. LoneInv'
      BY <1>4 DEF LayersInv
    <3>2. \A n \in DOMAIN graph'.nodes, e \in DOMAIN graph'.edges : LoneBeside(graph', n, e)
      BY <1>7, <3>1 DEF LoneInv, LoneBeside, Column, IsData, IsOnlyEdge, OtherEnd, Place
    <3> QED
      BY <1>5, <3>2 DEF Whole
  <2>7. LinksHold(graph', LinkedIn(graph', phase', at'))
    BY <1>5, <1>7, NothingLinked
  <2>8. InvAt(graph', before', phase', at', saved')
    BY <1>1, <1>5, <1>6, <1>7, <2>1, <2>4, <2>5, <2>6, <2>7 DEF InvAt, CrossingPhases
  <2> QED
    BY <2>8, CrossingInvIn
<1>8. CASE phase' # "crossings"
  <2>1. phase' \in Phases \union {"panic"}
    BY <1>4, <1>8 DEF LayersInv, TypeOK, Phases
  <2>2. phase' \notin CrossingPhases
    BY <2>1 DEF Phases, CrossingPhases
  <2>3. phase' \notin {"crossings", "order", "lone"}
    BY <2>1 DEF Phases
  <2>4. LinksTyped(graph')
    <3>1. Len(graph'.nodes) \in Nat
      BY <1>5, GraphParts
    <3> QED
      BY <1>5, <3>1 DEF LinksTyped
  <2>5. CrossingTypeOK'
    <3>1. IsGraph(graph)' /\ IsGraph(before)'
      BY <1>1, <1>5 DEF IsGraph
    <3> QED
      BY <1>5, <1>6, <2>1, <2>4, <3>1 DEF CrossingTypeOK, LinksTyped, SavedEdges
  <2>6. StartInv'
    BY <1>1, <1>3, <1>4 DEF StartInv
  <2>7. KeptInv' /\ ReroutingInv' /\ WholeInv' /\ LinksInv'
    BY <2>2, <2>3, <1>8, LinksInvIn DEF KeptInv, ReroutingInv, WholeInv
  <2> QED
    BY <2>5, <2>6, <2>7 DEF CrossingInv
<1> QED
  BY <1>7, <1>8

-----------------------------------------------------------------------------
(* Changing one node *)

(* A node is replaced by another.                                           *)
ReplacedAt(r, g, n, node) ==
    /\ r.edges = g.edges /\ r.lanes = g.lanes /\ r.numLayers = g.numLayers
    /\ DOMAIN r.nodes = DOMAIN g.nodes /\ Len(r.nodes) = Len(g.nodes)
    /\ \A m \in DOMAIN g.nodes : r.nodes[m] = IF m = n THEN node ELSE g.nodes[m]

LEMMA NodeReplaced ==
    ASSUME NEW g, IsGraph(g), NEW n \in DOMAIN g.nodes, NEW node \in GraphNodes,
           NEW r, r = [g EXCEPT !.nodes[n] = node]
    PROVE  IsGraph(r) /\ ReplacedAt(r, g, n, node)
<1>1. PICK N, E, P, L : /\ N = GraphNodes /\ E = Seq(GraphEdges) /\ P = DOMAIN g.lanes
                        /\ L = Seq(Nat)
  OBVIOUS
<1>2. g \in [nodes : Seq(N), edges : E, lanes : [P -> L], numLayers : Nat]
  BY <1>1 DEF IsGraph
<1>3. PICK nodes : nodes = [g.nodes EXCEPT ![n] = node]
  OBVIOUS
<1>4. /\ nodes \in Seq(N) /\ Len(nodes) = Len(g.nodes) /\ DOMAIN nodes = DOMAIN g.nodes
      /\ \A m \in DOMAIN g.nodes : nodes[m] = IF m = n THEN node ELSE g.nodes[m]
  <2>1. PICK s \in Seq(N) : s = g.nodes
    BY <1>2
  <2>2. nodes = [s EXCEPT ![n] = node] /\ n \in DOMAIN s /\ node \in N
    BY <1>1, <1>3, <2>1
  <2>3. nodes \in Seq(N) /\ Len(nodes) = Len(s)
    BY <2>2
  <2>4. DOMAIN nodes = DOMAIN s /\ \A m \in DOMAIN s : nodes[m] = IF m = n THEN node ELSE s[m]
    BY <2>2
  <2> QED
    BY <2>1, <2>3, <2>4
<1>5. r = [g EXCEPT !.nodes = nodes]
  BY <1>3
<1>6. /\ r \in [nodes : Seq(N), edges : E, lanes : [P -> L], numLayers : Nat]
      /\ r.nodes = nodes /\ r.edges = g.edges /\ r.lanes = g.lanes /\ r.numLayers = g.numLayers
  BY <1>2, <1>4, <1>5
<1>7. IsGraph(r)
  BY <1>1, <1>6 DEF IsGraph
<1> QED
  BY <1>4, <1>6, <1>7 DEF ReplacedAt

(* There is nothing to replace.                                             *)
LEMMA NoNodeReplaced ==
    ASSUME NEW g, IsGraph(g), NEW n, n \notin DOMAIN g.nodes, NEW list
    PROVE  [g EXCEPT !.nodes[n].incoming = list] = g /\ [g EXCEPT !.nodes[n].outgoing = list] = g
<1>1. PICK N, E, L : N = GraphNodes /\ E = Seq(GraphEdges) /\ L = [DOMAIN g.lanes -> Seq(Nat)]
  OBVIOUS
<1>2. g \in [nodes : Seq(N), edges : E, lanes : L, numLayers : Nat]
  BY <1>1 DEF IsGraph
<1>3. PICK s \in Seq(N) : s = g.nodes
  BY <1>2
<1>4. \A node : [s EXCEPT ![n] = node] = s
  BY <1>3
<1>5. [g EXCEPT !.nodes = s] = g
  BY <1>2, <1>3
<1> QED
  BY <1>3, <1>4, <1>5

(* Only the lists of node n are different.                                  *)
RelistedAt(r, g, n, incoming, outgoing) ==
    /\ r.edges = g.edges /\ r.lanes = g.lanes /\ r.numLayers = g.numLayers
    /\ DOMAIN r.nodes = DOMAIN g.nodes /\ Len(r.nodes) = Len(g.nodes)
    /\ \A m \in DOMAIN g.nodes :
          /\ SameNode(r.nodes[m], g.nodes[m])
          /\ r.nodes[m].incoming = IF m = n THEN incoming ELSE g.nodes[m].incoming
          /\ r.nodes[m].outgoing = IF m = n THEN outgoing ELSE g.nodes[m].outgoing

(* A node gets another list of the edges that lead to it, or from it.       *)
LEMMA IncomingReplaced ==
    ASSUME NEW g, IsGraph(g), NEW n \in DOMAIN g.nodes, NEW list \in Seq(Nat),
           NEW r, r = [g EXCEPT !.nodes[n].incoming = list]
    PROVE  IsGraph(r) /\ RelistedAt(r, g, n, list, g.nodes[n].outgoing)
<1>1. PICK node \in GraphNodes : node = g.nodes[n]
  BY GraphParts
<1>2. node.incoming \in Seq(Nat) /\ node.outgoing \in Seq(Nat)
  BY <1>1, NodeLists
<1>3. PICK new : new = Relisted(node, list, node.outgoing)
  OBVIOUS
<1>4. /\ new \in GraphNodes /\ new.incoming = list /\ new.outgoing = node.outgoing
      /\ SameNode(new, node)
  <2>1. PICK in \in Seq(Nat) : in = list
    BY <1>2
  <2>2. PICK out \in Seq(Nat) : out = node.outgoing
    BY <1>2
  <2>3. /\ Relisted(node, in, out) \in GraphNodes
        /\ Relisted(node, in, out).incoming = in
        /\ Relisted(node, in, out).outgoing = out
        /\ SameNode(Relisted(node, in, out), node)
    BY RelistedIsNode
  <2> QED
    BY <1>3, <2>1, <2>2, <2>3
<1>5. r = [g EXCEPT !.nodes[n] = new]
  <2>1. [node EXCEPT !.incoming = list] = new
    BY <1>3, RelistOne
  <2>2. r = [g EXCEPT !.nodes[n] = [node EXCEPT !.incoming = list]]
    BY <1>1
  <2> QED
    BY <2>1, <2>2
<1>6. IsGraph(r) /\ ReplacedAt(r, g, n, new)
  BY <1>4, <1>5, NodeReplaced
<1> QED
  BY <1>1, <1>4, <1>6 DEF RelistedAt, ReplacedAt, SameNode

LEMMA OutgoingReplaced ==
    ASSUME NEW g, IsGraph(g), NEW n \in DOMAIN g.nodes, NEW list \in Seq(Nat),
           NEW r, r = [g EXCEPT !.nodes[n].outgoing = list]
    PROVE  IsGraph(r) /\ RelistedAt(r, g, n, g.nodes[n].incoming, list)
<1>1. PICK node \in GraphNodes : node = g.nodes[n]
  BY GraphParts
<1>2. node.incoming \in Seq(Nat) /\ node.outgoing \in Seq(Nat)
  BY <1>1, NodeLists
<1>3. PICK new : new = Relisted(node, node.incoming, list)
  OBVIOUS
<1>4. /\ new \in GraphNodes /\ new.incoming = node.incoming /\ new.outgoing = list
      /\ SameNode(new, node)
  <2>1. PICK in \in Seq(Nat) : in = node.incoming
    BY <1>2
  <2>2. PICK out \in Seq(Nat) : out = list
    BY <1>2
  <2>3. /\ Relisted(node, in, out) \in GraphNodes
        /\ Relisted(node, in, out).incoming = in
        /\ Relisted(node, in, out).outgoing = out
        /\ SameNode(Relisted(node, in, out), node)
    BY RelistedIsNode
  <2> QED
    BY <1>3, <2>1, <2>2, <2>3
<1>5. r = [g EXCEPT !.nodes[n] = new]
  <2>1. [node EXCEPT !.outgoing = list] = new
    BY <1>3, RelistOne
  <2>2. r = [g EXCEPT !.nodes[n] = [node EXCEPT !.outgoing = list]]
    BY <1>1
  <2> QED
    BY <2>1, <2>2
<1>6. IsGraph(r) /\ ReplacedAt(r, g, n, new)
  BY <1>4, <1>5, NodeReplaced
<1> QED
  BY <1>1, <1>4, <1>6 DEF RelistedAt, ReplacedAt, SameNode

(* Lists play no part once the undo has begun: what else is as it was is    *)
(* still right.                                                             *)
LEMMA RelistingKeeps ==
    ASSUME NEW g, NEW b, NEW ph, NEW i, NEW s, InvAt(g, b, ph, i, s), ph \in {"undo", "edges"},
           NEW r, IsGraph(r), DOMAIN r.nodes = DOMAIN g.nodes, Len(r.nodes) = Len(g.nodes),
           r.numLayers = g.numLayers, \A n \in DOMAIN g.nodes : SameNode(r.nodes[n], g.nodes[n])
    PROVE  InvAt(r, b, ph, i + 1, s)
<1>1. SameColumns(r, g)
  BY DEF SameColumns, SameNode
<1>2. LinkedIn(r, ph, i + 1) = LinkedIn(g, ph, i) /\ LinkedIn(g, ph, i) \in SUBSET DOMAIN g.nodes
  BY DEF LinkedIn, SameNode
<1>3. LinksHold(r, LinkedIn(g, ph, i))
  BY <1>1, <1>2, LinksKept DEF InvAt
<1>4. KeptAt(r, b, ph)
  BY DEF InvAt, KeptAt, SameNode
<1> QED
  BY <1>2, <1>3, <1>4 DEF InvAt

-----------------------------------------------------------------------------
(* sort_incoming_and_outgoing() *)

(* Sorting a list of edges makes a list of edges.                           *)
LEMMA InsertedByKeyType ==
    ASSUME NEW s \in Seq(Nat), NEW e \in Nat, NEW key
    PROVE  InsertedByKey(s, e, key) \in Seq(Nat)
<1>1. PICK T : T = {i \in DOMAIN s : ~KeyLess(key[e], key[s[i]])}
  OBVIOUS
<1>2. Cardinality(T) \in Nat /\ Cardinality(T) <= Len(s)
  <2>1. PICK m \in Nat : m = Len(s) /\ DOMAIN s = 1..m
    OBVIOUS
  <2>2. IsFiniteSet(1..m) /\ Cardinality(1..m) = m
    BY FS_Interval
  <2>3. T \in SUBSET (1..m)
    BY <1>1, <2>1
  <2>4. IsFiniteSet(T) /\ Cardinality(T) <= Cardinality(1..m)
    BY <2>2, <2>3, FS_Subset
  <2> QED
    BY <2>1, <2>2, <2>4, FS_CardinalityType
<1>3. PICK k : k = Cardinality(T) + 1
  OBVIOUS
<1>4. k \in 1..(Len(s) + 1)
  BY <1>2, <1>3
<1>5. InsertAt(s, k, e) \in Seq(Nat)
  BY <1>4, InsertAtElements
<1> QED
  BY <1>1, <1>3, <1>5 DEF InsertedByKey

LEMMA SortedByKeyType ==
    ASSUME NEW s \in Seq(Nat), NEW key
    PROVE  SortedByKey(s, key) \in Seq(Nat)
<1>1. PICK m \in Nat : m = Len(s) /\ DOMAIN s = 1..m
  OBVIOUS
<1> DEFINE insert(i, t) == InsertedByKey(t, s[i], key)
           U == Seq(Nat)
           G == [i \in 0..m |-> U]
           Is(sorted) == sorted = [i \in 0..m |-> IF i = 0 THEN <<>>
                                                  ELSE InsertedByKey(sorted[i - 1], s[i], key)]
           next == [i \in 1..m |-> [t \in U |-> insert(i, t)]]
<1>2. /\ \A i \in 0..m : G[i] = U
      /\ \A i \in 1..m : i \in 0..m /\ i - 1 \in 0..m /\ i # 0
  OBVIOUS
<1>3. \A i \in 1..m : \A t \in U : next[i][t] = insert(i, t) /\ insert(i, t) \in U
  <2>1. \A i \in 1..m : s[i] \in Nat
    BY <1>1
  <2>2. \A i \in 1..m : \A t \in U : InsertedByKey(t, s[i], key) \in U
    BY <2>1, InsertedByKeyType
  <2> QED
    BY <2>2
<1>4. <<>> \in U
  OBVIOUS
<1> HIDE DEF G, next, U
<1>5. \E sorted : Is(sorted) /\ \A i \in 0..m : sorted[i] \in U
  <2>1. 0 \in 0..m
    BY <1>1
  <2>2. Stages(m, G, <<>>, next)
    BY <1>2, <1>3, <1>4, <2>1 DEF Stages
  <2>3. PICK sorted : sorted \in UnfoldedIn(m, G, <<>>, next)
    BY <2>2, StagesUnfold
  <2>4. /\ DOMAIN sorted = 0..m /\ sorted = [i \in 0..m |-> sorted[i]]
        /\ \A i \in 0..m : /\ sorted[i] \in G[i]
                           /\ sorted[i] = IF i = 0 THEN <<>> ELSE next[i][sorted[i - 1]]
    BY <2>3 DEF UnfoldedIn
  <2>5. \A i \in 0..m : sorted[i] = IF i = 0 THEN <<>> ELSE insert(i, sorted[i - 1])
    <3>1. \A i \in 0..m : i # 0 => i \in 1..m /\ i - 1 \in 0..m
      OBVIOUS
    <3> HIDE DEF insert
    <3> QED
      BY <1>2, <1>3, <2>4, <3>1
  <2>6. Is(sorted)
    BY <2>4, <2>5
  <2> HIDE DEF Is
  <2> QED
    BY <1>2, <2>4, <2>6
<1>6. \A f, h : Is(f) /\ Is(h) => \A i \in 0..m : h[i] \in U => h[i] \in U
  OBVIOUS
<1>7. PICK sorted : Is(sorted) /\ SortedByKey(s, key) = sorted[m]
  <2>1. SortedByKey(s, key) = (CHOOSE sorted : Is(sorted))[m]
    BY <1>1 DEF SortedByKey
  <2> HIDE DEF Is
  <2> QED
    BY <1>5, <2>1
<1>8. sorted[0] = <<>> /\ \A i \in 1..m : sorted[i] = insert(i, sorted[i - 1])
  <2>1. \A i \in 0..m : sorted[i] = IF i = 0 THEN <<>> ELSE insert(i, sorted[i - 1])
    BY <1>7
  <2>2. 0 \in 0..m
    BY <1>1
  <2> HIDE DEF insert
  <2> QED
    BY <1>2, <2>1, <2>2
<1> HIDE DEF insert, Is
<1>9. \A i \in 0..m : sorted[i] \in G[i]
  <2>1. \A i \in 1..m : sorted[i - 1] \in G[i - 1] => sorted[i] \in G[i]
    BY <1>2, <1>3, <1>8
  <2>2. 0 \in 0..m
    BY <1>1
  <2>3. sorted[0] \in G[0]
    BY <1>2, <1>4, <1>8, <2>2
  <2> QED
    BY <2>1, <2>3, StagesHold
<1>10. m \in 0..m
  BY <1>1
<1> QED
  BY <1>2, <1>7, <1>9, <1>10 DEF U

(* Sorting the lists of the nodes leaves everything else as it is.          *)
LEMMA SortEdgesKeeps ==
    ASSUME CrossingInv, SortEdges
    PROVE  CrossingInv' \/ CrossingPanic
<1>1. phase = "edges" /\ InvAt(graph, before, phase, at, saved)
  BY CrossingInvIn DEF SortEdges, CrossingPhases
<1>2. CASE phase' = "ports" /\ at' = 1 /\ UNCHANGED <<parsed, graph, before, saved>>
  <2>1. LinkedIn(graph, "ports", 1) = LinkedIn(graph, "edges", at)
    BY DEF LinkedIn
  <2>2. InvAt(graph, before, "ports", 1, saved)
    BY <1>1, <2>1 DEF InvAt, CrossingPhases, KeptAt
  <2> QED
    BY <1>2, <2>2, CrossingInvIn
<1>3. ASSUME NEW in, NEW out, at <= Len(graph.nodes), at' = at + 1, UNCHANGED <<parsed, phase, before, saved>>,
             graph' = [graph EXCEPT
                !.nodes[at].incoming = IF Len(@) > 1 THEN SortedByKey(@, in) ELSE @,
                !.nodes[at].outgoing = IF Len(@) > 1 THEN SortedByKey(@, out) ELSE @]
      PROVE  CrossingInv'
  <2>1. IsGraph(graph) /\ at \in Nat
    BY <1>1 DEF InvAt
  <2>2. PICK l1, l2 : /\ l1 = IF Len(graph.nodes[at].incoming) > 1
                              THEN SortedByKey(graph.nodes[at].incoming, in)
                              ELSE graph.nodes[at].incoming
                      /\ l2 = IF Len(graph.nodes[at].outgoing) > 1
                              THEN SortedByKey(graph.nodes[at].outgoing, out)
                              ELSE graph.nodes[at].outgoing
    OBVIOUS
  <2>3. PICK half : half = [graph EXCEPT !.nodes[at].incoming = l1]
    OBVIOUS
  <2>4. CASE at \in DOMAIN graph.nodes
    <3>1. l1 \in Seq(Nat) /\ l2 \in Seq(Nat)
      BY <2>1, <2>2, <2>4, NodeLists, SortedByKeyType
    <3>2. IsGraph(half) /\ RelistedAt(half, graph, at, l1, graph.nodes[at].outgoing)
      BY <2>1, <2>3, <2>4, <3>1, IncomingReplaced
    <3>3. at \in DOMAIN half.nodes
      BY <2>4, <3>2 DEF RelistedAt
    <3>4. PICK r : r = [half EXCEPT !.nodes[at].outgoing = l2]
      OBVIOUS
    <3>5. IsGraph(r) /\ RelistedAt(r, half, at, half.nodes[at].incoming, l2)
      BY <3>1, <3>2, <3>3, <3>4, OutgoingReplaced
    <3>6. graph' = r
      <4>1. half.nodes[at].outgoing = graph.nodes[at].outgoing
        BY <2>4, <3>2 DEF RelistedAt
      <4>2. graph' = [graph EXCEPT !.nodes[at].incoming = l1, !.nodes[at].outgoing = l2]
        BY <1>3, <2>2
      <4>3. graph' = [half EXCEPT !.nodes[at].outgoing = l2]
        BY <2>3, <4>2
      <4> QED
        BY <3>4, <4>3
    <3>7. /\ DOMAIN r.nodes = DOMAIN graph.nodes /\ Len(r.nodes) = Len(graph.nodes)
          /\ r.numLayers = graph.numLayers
          /\ \A n \in DOMAIN graph.nodes : SameNode(r.nodes[n], graph.nodes[n])
      BY <3>2, <3>5 DEF RelistedAt, SameNode
    <3>8. InvAt(r, before, phase, at + 1, saved)
      BY <1>1, <3>5, <3>7, RelistingKeeps
    <3> QED
      BY <1>3, <3>6, <3>8, CrossingInvIn
  <2>5. CASE at \notin DOMAIN graph.nodes
    <3>1. graph' = graph
      <4>1. half = graph
        BY <2>1, <2>3, <2>5, NoNodeReplaced
      <4>2. graph' = [graph EXCEPT !.nodes[at].incoming = l1, !.nodes[at].outgoing = l2]
        BY <1>3, <2>2
      <4>3. graph' = [half EXCEPT !.nodes[at].outgoing = l2]
        BY <2>3, <4>2
      <4> QED
        BY <2>1, <2>5, <4>1, <4>3, NoNodeReplaced
    <3>2. InvAt(graph, before, phase, at + 1, saved)
      BY <1>1, <2>1, RelistingKeeps DEF SameNode
    <3> QED
      BY <1>3, <3>1, <3>2, CrossingInvIn
  <2> QED
    BY <2>4, <2>5
<1> QED
  BY <1>2, <1>3 DEF SortEdges

-----------------------------------------------------------------------------
(* Changing links *)

(* Only links are different.                                                *)
SameButLinks(r, g) ==
    /\ r.edges = g.edges /\ r.lanes = g.lanes /\ r.numLayers = g.numLayers
    /\ DOMAIN r.nodes = DOMAIN g.nodes /\ Len(r.nodes) = Len(g.nodes)
    /\ \A n \in DOMAIN g.nodes :
          /\ r.nodes[n].kind = g.nodes[n].kind /\ r.nodes[n].layer = g.nodes[n].layer
          /\ r.nodes[n].pool = g.nodes[n].pool /\ r.nodes[n].lane = g.nodes[n].lane
          /\ r.nodes[n].incoming = g.nodes[n].incoming /\ r.nodes[n].outgoing = g.nodes[n].outgoing

(* They play no part in how the graph hangs together.                       *)
LEMMA WholeKept ==
    ASSUME NEW g, NEW r, SameButLinks(r, g)
    PROVE  /\ Whole(g) => Whole(r)
           /\ \A n \in DOMAIN g.nodes : /\ InColumn(r, n) = InColumn(g, n)
                                        /\ IsLoneData(r.nodes[n]) <=> IsLoneData(g.nodes[n])
<1>1. \A n \in DOMAIN g.nodes : Place(r.nodes[n]) = Place(g.nodes[n]) /\ Column(r, n) = Column(g, n)
  BY DEF SameButLinks, Place, Column
<1>2. \A n \in DOMAIN g.nodes : /\ InColumn(r, n) = InColumn(g, n)
                                /\ IsLoneData(r.nodes[n]) <=> IsLoneData(g.nodes[n])
  BY <1>1 DEF SameButLinks, InColumn, IsLoneData, IsData
<1>3. ASSUME Whole(g)
      PROVE  Whole(r)
  <2>1. EndsExist(r)
    BY <1>1, <1>3 DEF SameButLinks, Whole, EndsExist
  <2>2. Mirrored(r)
    BY <1>3 DEF SameButLinks, Whole, Mirrored
  <2>3. LanesComplete(r)
    BY <1>1, <1>3 DEF SameButLinks, Whole, LanesComplete
  <2>4. ASSUME NEW n \in DOMAIN r.nodes, NEW e \in DOMAIN r.edges
        PROVE  LoneBeside(r, n, e)
    <3>1. LoneBeside(g, n, e) /\ {g.edges[e].from, g.edges[e].to} \subseteq DOMAIN g.nodes
      BY <1>3 DEF SameButLinks, Whole, EndsExist
    <3>2. /\ IsData(r.nodes[n]) <=> IsData(g.nodes[n])
          /\ IsOnlyEdge(r, n, e) <=> IsOnlyEdge(g, n, e)
          /\ OtherEnd(r.edges[e], n) = OtherEnd(g.edges[e], n)
          /\ OtherEnd(g.edges[e], n) \in DOMAIN g.nodes
      BY <3>1 DEF SameButLinks, IsData, IsOnlyEdge, OtherEnd
    <3>3. /\ Column(r, n) = Column(g, n)
          /\ Column(r, OtherEnd(g.edges[e], n)) = Column(g, OtherEnd(g.edges[e], n))
      BY <1>1, <3>2 DEF SameButLinks
    <3> QED
      BY <3>1, <3>2, <3>3 DEF LoneBeside
  <2> QED
    BY <2>1, <2>2, <2>3, <2>4 DEF Whole
<1> QED
  BY <1>2, <1>3

(* A node with other links.                                                 *)
Relinked(node, above, below) == [node EXCEPT !.above = above, !.below = below]

IsRelinked(a, b, above, below) ==
    /\ a \in GraphNodes /\ a.above = above /\ a.below = below
    /\ a.kind = b.kind /\ a.pool = b.pool /\ a.lane = b.lane /\ a.layer = b.layer
    /\ a.half = b.half /\ a.incoming = b.incoming /\ a.outgoing = b.outgoing

LEMMA RelinkedIsNode ==
    ASSUME NEW node \in GraphNodes, NEW above \in Nat, NEW below \in Nat,
           NEW new, new = Relinked(node, above, below)
    PROVE  IsRelinked(new, node, above, below)
<1>1. PICK L : L = Seq(Nat)
  OBVIOUS
<1> QED
  BY <1>1 DEF Relinked, IsRelinked, GraphNodes

(* Node n, if there is one, gets another node below it.                     *)
BelowSet(r, g, n, v) ==
    /\ SameButLinks(r, g)
    /\ \A m \in DOMAIN g.nodes : /\ r.nodes[m].above = g.nodes[m].above
                                 /\ r.nodes[m].below = IF m = n THEN v ELSE g.nodes[m].below

LEMMA BelowReplaced ==
    ASSUME NEW g, IsGraph(g), NEW n \in DOMAIN g.nodes \union {0}, NEW v \in Nat,
           NEW r, r = IF n = 0 THEN g ELSE [g EXCEPT !.nodes[n].below = v]
    PROVE  IsGraph(r) /\ BelowSet(r, g, n, v)
<1>1. DOMAIN g.nodes = 1..Len(g.nodes) /\ Len(g.nodes) \in Nat
  BY GraphParts
<1>2. CASE n = 0
  BY <1>1, <1>2 DEF BelowSet, SameButLinks
<1>3. CASE n # 0
  <2>1. n \in DOMAIN g.nodes
    BY <1>3
  <2>2. PICK node \in GraphNodes : node = g.nodes[n]
    BY <2>1, GraphParts
  <2>3. node.above \in Nat
    BY DEF GraphNodes
  <2>4. PICK new : new = Relinked(node, node.above, v)
    OBVIOUS
  <2>5. IsRelinked(new, node, node.above, v)
    BY <2>3, <2>4, RelinkedIsNode
  <2>6. r = [g EXCEPT !.nodes[n] = new]
    <3>1. PICK L : L = Seq(Nat)
      OBVIOUS
    <3>2. new = [node EXCEPT !.below = v]
      BY <2>4, <3>1 DEF Relinked, GraphNodes
    <3>3. r = [g EXCEPT !.nodes[n] = [node EXCEPT !.below = v]]
      BY <1>3, <2>2
    <3> QED
      BY <3>2, <3>3
  <2>7. IsGraph(r) /\ ReplacedAt(r, g, n, new)
    BY <2>1, <2>5, <2>6, NodeReplaced DEF IsRelinked
  <2> QED
    BY <2>2, <2>5, <2>7 DEF ReplacedAt, BelowSet, SameButLinks, IsRelinked
<1> QED
  BY <1>2, <1>3

(* Node n, if there is one, gets another node above it.                     *)
AboveSet(r, g, n, v) ==
    /\ SameButLinks(r, g)
    /\ \A m \in DOMAIN g.nodes : /\ r.nodes[m].below = g.nodes[m].below
                                 /\ r.nodes[m].above = IF m = n THEN v ELSE g.nodes[m].above

LEMMA AboveReplaced ==
    ASSUME NEW g, IsGraph(g), NEW n \in DOMAIN g.nodes \union {0}, NEW v \in Nat,
           NEW r, r = IF n = 0 THEN g ELSE [g EXCEPT !.nodes[n].above = v]
    PROVE  IsGraph(r) /\ AboveSet(r, g, n, v)
<1>1. DOMAIN g.nodes = 1..Len(g.nodes) /\ Len(g.nodes) \in Nat
  BY GraphParts
<1>2. CASE n = 0
  BY <1>1, <1>2 DEF AboveSet, SameButLinks
<1>3. CASE n # 0
  <2>1. n \in DOMAIN g.nodes
    BY <1>3
  <2>2. PICK node \in GraphNodes : node = g.nodes[n]
    BY <2>1, GraphParts
  <2>3. node.below \in Nat
    BY DEF GraphNodes
  <2>4. PICK new : new = Relinked(node, v, node.below)
    OBVIOUS
  <2>5. IsRelinked(new, node, v, node.below)
    BY <2>3, <2>4, RelinkedIsNode
  <2>6. r = [g EXCEPT !.nodes[n] = new]
    <3>1. PICK L : L = Seq(Nat)
      OBVIOUS
    <3>2. new = [node EXCEPT !.above = v]
      BY <2>4, <3>1 DEF Relinked, GraphNodes
    <3>3. r = [g EXCEPT !.nodes[n] = [node EXCEPT !.above = v]]
      BY <1>3, <2>2
    <3> QED
      BY <3>2, <3>3
  <2>7. IsGraph(r) /\ ReplacedAt(r, g, n, new)
    BY <2>1, <2>5, <2>6, NodeReplaced DEF IsRelinked
  <2> QED
    BY <2>2, <2>5, <2>7 DEF ReplacedAt, AboveSet, SameButLinks, IsRelinked
<1> QED
  BY <1>2, <1>3

(* All nodes of N get other links.                                          *)
LinksSet(r, g, N, above, below) ==
    /\ SameButLinks(r, g)
    /\ \A m \in DOMAIN g.nodes :
          /\ r.nodes[m].above = IF m \in N THEN above[m] ELSE g.nodes[m].above
          /\ r.nodes[m].below = IF m \in N THEN below[m] ELSE g.nodes[m].below

LEMMA LinksReplaced ==
    ASSUME NEW g, IsGraph(g), NEW N, NEW above, NEW below,
           \A n \in N : above[n] \in Nat /\ below[n] \in Nat,
           NEW r, r = [g EXCEPT !.nodes = [n \in DOMAIN g.nodes |->
                          IF n \in N THEN Relinked(g.nodes[n], above[n], below[n]) ELSE g.nodes[n]]]
    PROVE  IsGraph(r) /\ LinksSet(r, g, N, above, below)
<1>1. PICK M, E, P, L : /\ M = GraphNodes /\ E = Seq(GraphEdges) /\ P = DOMAIN g.lanes /\ L = Seq(Nat)
  OBVIOUS
<1>2. g \in [nodes : Seq(M), edges : E, lanes : [P -> L], numLayers : Nat]
  BY <1>1 DEF IsGraph
<1>3. PICK k \in Nat : k = Len(g.nodes) /\ DOMAIN g.nodes = 1..k
  BY GraphParts
<1>4. PICK nodes : nodes = [n \in DOMAIN g.nodes |->
                          IF n \in N THEN Relinked(g.nodes[n], above[n], below[n]) ELSE g.nodes[n]]
  OBVIOUS
<1>5. ASSUME NEW n \in 1..k
      PROVE  IsRelinked(nodes[n], g.nodes[n], IF n \in N THEN above[n] ELSE g.nodes[n].above,
                                              IF n \in N THEN below[n] ELSE g.nodes[n].below)
  <2>1. PICK node : node = g.nodes[n] /\ node \in GraphNodes
    BY <1>3, GraphParts
  <2>2. nodes[n] = IF n \in N THEN Relinked(node, above[n], below[n]) ELSE node
    BY <1>3, <1>4, <2>1
  <2>3. CASE n \in N
    <3>1. above[n] \in Nat /\ below[n] \in Nat
      BY <2>3
    <3>2. PICK a, b, new : a = above[n] /\ b = below[n] /\ new = Relinked(node, a, b)
      OBVIOUS
    <3>3. IsRelinked(new, node, a, b)
      <4>1. a \in Nat /\ b \in Nat
        BY <3>1, <3>2
      <4>2. node \in GraphNodes
        BY <2>1
      <4>3. new = Relinked(node, a, b)
        BY <3>2
      <4> QED
        BY <4>1, <4>2, <4>3, RelinkedIsNode
    <3> QED
      BY <2>1, <2>2, <2>3, <3>2, <3>3
  <2>4. CASE n \notin N
    BY <2>1, <2>2, <2>4 DEF IsRelinked
  <2> QED
    BY <2>3, <2>4
<1>6. DOMAIN nodes = 1..k /\ nodes = [n \in 1..k |-> nodes[n]]
  BY <1>3, <1>4
<1>7. nodes \in Seq(M) /\ Len(nodes) = k
  <2>1. nodes \in [1..k -> M]
    BY <1>1, <1>5, <1>6 DEF IsRelinked
  <2> QED
    BY <2>1, FunctionIsSeq
<1>8. r = [g EXCEPT !.nodes = nodes]
  BY <1>4
<1>9. /\ r \in [nodes : Seq(M), edges : E, lanes : [P -> L], numLayers : Nat]
      /\ r.nodes = nodes /\ r.edges = g.edges /\ r.lanes = g.lanes /\ r.numLayers = g.numLayers
  BY <1>2, <1>7, <1>8
<1>10. IsGraph(r)
  BY <1>1, <1>9 DEF IsGraph
<1>11. LinksSet(r, g, N, above, below)
  BY <1>3, <1>5, <1>6, <1>7, <1>9 DEF LinksSet, SameButLinks, IsRelinked
<1> QED
  BY <1>10, <1>11

-----------------------------------------------------------------------------
(* The order of the nodes *)

(* The nodes of S are numbered from 1, each with a number of its own.       *)
Numbered(order, S) ==
    /\ IsFiniteSet(S) /\ Cardinality(S) \in Nat
    /\ \A n \in S : order[n] \in 1..Cardinality(S)
    /\ \A m, n \in S : order[m] = order[n] => m = n

(* Numbers that are all taken are taken once.                               *)
LEMMA AllNumbersTaken ==
    ASSUME NEW S, IsFiniteSet(S), NEW order, {order[n] : n \in S} = 1..Cardinality(S)
    PROVE  Numbered(order, S)
<1>1. PICK k : k = Cardinality(S)
  OBVIOUS
<1>2. k \in Nat
  BY <1>1, FS_CardinalityType
<1>3. PICK f : f = [n \in S |-> order[n]]
  OBVIOUS
<1>4. PICK T : T = 1..k
  OBVIOUS
<1>5. f \in [S -> T] /\ \A t \in T : \E n \in S : f[n] = t
  <2>1. {order[n] : n \in S} = T
    BY <1>1, <1>4
  <2> QED
    BY <1>3, <2>1
<1>6. f \in Surjection(S, T)
  BY <1>5 DEF Surjection
<1>7. Cardinality(T) = Cardinality(S)
  BY <1>1, <1>2, <1>4, FS_Interval
<1>8. f \in Injection(S, T)
  BY <1>6, <1>7, FS_SurjSameCardinalityImpliesInj
<1>9. \A m, n \in S : f[m] = f[n] => m = n
  BY <1>5, <1>8 DEF Injection, IsInjective
<1>10. \A n \in S : order[n] \in T
  BY <1>3, <1>5
<1> QED
  BY <1>1, <1>2, <1>3, <1>4, <1>9, <1>10 DEF Numbered

(* The nodes of the integer program in this layer.                          *)
InLayer(layer) == {n \in DOMAIN graph.nodes : InProgram(n) /\ graph.nodes[n].layer = layer}

SameLane(D, n) == {m \in D : Place(graph.nodes[m]) = Place(graph.nodes[n])}

(* A solution numbers the nodes of the layer, lane by lane.                 *)
LEMMA OrdersNumber ==
    ASSUME IsGraph(graph), EndsExist(graph), LanesComplete(graph), NEW layer,
           NEW order \in Orders(layer), NEW D, D = InLayer(layer)
    PROVE  DOMAIN order = D /\ \A n \in D : Numbered(order, SameLane(D, n))
<1>1. ASSUME NEW place \in DOMAIN graph.lanes
      PROVE  Group(place, layer) = {m \in D : Place(graph.nodes[m]) = place}
  <2>1. PICK ns : ns = graph.lanes[place]
    OBVIOUS
  <2>2. ns \in Seq(Nat) /\ ToSet(ns) \subseteq DOMAIN graph.nodes
    BY <2>1, GraphParts DEF LanesComplete
  <2>3. \A n \in DOMAIN graph.nodes : n \in ToSet(ns) <=> Place(graph.nodes[n]) = place
    <3>1. \A n : Count(ns, n) = 0 <=> n \notin ToSet(ns)
      BY <2>2, CountType
    <3>2. \A n \in DOMAIN graph.nodes : Count(ns, n) = IF Place(graph.nodes[n]) = place THEN 1 ELSE 0
      BY <2>1 DEF LanesComplete
    <3> QED
      BY <3>1, <3>2
  <2> QED
    BY <2>1, <2>2, <2>3 DEF Group, InLayer
<1>2. UNION {Group(place, layer) : place \in DOMAIN graph.lanes} = D
  <2>1. \A n \in D : Place(graph.nodes[n]) \in DOMAIN graph.lanes
    BY DEF EndsExist, InLayer
  <2>2. \A n : n \in UNION {Group(place, layer) : place \in DOMAIN graph.lanes} <=>
                  \E place \in DOMAIN graph.lanes : n \in Group(place, layer)
    OBVIOUS
  <2> QED
    BY <1>1, <2>1, <2>2
<1>3. /\ order \in [D -> 1..Cardinality(D)]
      /\ \A place \in DOMAIN graph.lanes :
            {order[n] : n \in Group(place, layer)} = 1..Cardinality(Group(place, layer))
  BY <1>2 DEF Orders
<1>4. ASSUME NEW n \in D
      PROVE  Numbered(order, SameLane(D, n))
  <2>1. PICK place \in DOMAIN graph.lanes : place = Place(graph.nodes[n])
    BY DEF EndsExist, InLayer
  <2>2. PICK S : S = SameLane(D, n)
    OBVIOUS
  <2>3. S = Group(place, layer)
    BY <1>1, <2>1, <2>2 DEF SameLane
  <2>4. IsFiniteSet(S)
    <3>1. PICK m \in Nat : DOMAIN graph.nodes = 1..m
      BY GraphParts
    <3>2. IsFiniteSet(1..m)
      BY FS_Interval
    <3>3. S \in SUBSET (1..m)
      BY <2>2, <3>1 DEF SameLane, InLayer
    <3> QED
      BY <3>2, <3>3, FS_Subset
  <2>5. {order[m] : m \in S} = 1..Cardinality(S)
    BY <1>3, <2>3
  <2> QED
    BY <2>2, <2>4, <2>5, AllNumbersTaken
<1> QED
  BY <1>3, <1>4

(* NodeAt() finds the node with this number.                                *)
LEMMA NodeAtFinds ==
    ASSUME NEW D, 0 \notin D, NEW order, DOMAIN order = D, NEW n \in D,
           NEW S, S = SameLane(D, n), Numbered(order, S), NEW p
    PROVE  /\ NodeAt(order, n, p) \in S \union {0}
           /\ \A m \in S : NodeAt(order, n, p) = m <=> order[m] = p
<1>1. PICK s : s = {m \in S : order[m] = p}
  OBVIOUS
<1>2. NodeAt(order, n, p) = IF s = {} THEN 0 ELSE CHOOSE m \in s : TRUE
  <2>1. s = {m \in DOMAIN order : Place(graph.nodes[m]) = Place(graph.nodes[n]) /\ order[m] = p}
    BY <1>1 DEF SameLane
  <2> QED
    BY <2>1 DEF NodeAt
<1>3. 0 \notin S
  BY DEF SameLane
<1>4. CASE s = {}
  BY <1>1, <1>2, <1>3, <1>4
<1>5. CASE s # {}
  <2>1. PICK x : x = CHOOSE m \in s : TRUE
    OBVIOUS
  <2>2. x \in s
    BY <1>5, <2>1
  <2>3. NodeAt(order, n, p) = x /\ x \in S /\ order[x] = p
    BY <1>1, <1>2, <1>5, <2>1, <2>2
  <2>4. \A m \in S : order[m] = p => m = x
    BY <2>3 DEF Numbered
  <2> QED
    BY <2>3, <2>4
<1> QED
  BY <1>4, <1>5

(* The links of a layer follow the numbers.                                 *)
LEMMA LinkedEffect ==
    ASSUME IsGraph(graph), EndsExist(graph), LanesComplete(graph), NEW layer,
           NEW order \in Orders(layer), NEW D, D = InLayer(layer),
           NEW r, r = Linked(order)
    PROVE  /\ IsGraph(r) /\ SameButLinks(r, graph)
           /\ \A n \in DOMAIN graph.nodes \ D : /\ r.nodes[n].above = graph.nodes[n].above
                                                /\ r.nodes[n].below = graph.nodes[n].below
           /\ \A n \in D : IsLinkedList(r, SameLane(D, n))
<1>1. DOMAIN order = D /\ \A n \in D : Numbered(order, SameLane(D, n))
  BY OrdersNumber
<1>2. D \subseteq DOMAIN graph.nodes /\ 0 \notin D /\ D \subseteq Nat
  BY GraphParts DEF InLayer
<1>3. PICK above, below : /\ above = [n \in D |-> NodeAt(order, n, order[n] - 1)]
                          /\ below = [n \in D |-> NodeAt(order, n, order[n] + 1)]
  OBVIOUS
<1>4. ASSUME NEW n \in D, NEW p
      PROVE  /\ NodeAt(order, n, p) \in SameLane(D, n) \union {0}
             /\ \A m \in SameLane(D, n) : NodeAt(order, n, p) = m <=> order[m] = p
  BY <1>1, <1>2, NodeAtFinds
<1>5. \A n \in D : above[n] \in Nat /\ below[n] \in Nat
  <2>1. \A p : \A n \in D : NodeAt(order, n, p) \in Nat
    BY <1>2, <1>4 DEF SameLane
  <2> QED
    BY <1>3, <2>1
<1>6. IsGraph(r) /\ LinksSet(r, graph, D, above, below)
  <2>1. r = [graph EXCEPT !.nodes = [n \in DOMAIN graph.nodes |->
                IF n \in D THEN Relinked(graph.nodes[n], above[n], below[n]) ELSE graph.nodes[n]]]
    <3>1. r = [graph EXCEPT !.nodes = [n \in DOMAIN graph.nodes |->
                IF n \in D
                THEN Relinked(graph.nodes[n], NodeAt(order, n, order[n] - 1), NodeAt(order, n, order[n] + 1))
                ELSE graph.nodes[n]]]
      BY <1>1 DEF Linked, Relinked
    <3>2. \A n \in DOMAIN graph.nodes :
             (IF n \in D
              THEN Relinked(graph.nodes[n], NodeAt(order, n, order[n] - 1), NodeAt(order, n, order[n] + 1))
              ELSE graph.nodes[n]) =
             (IF n \in D THEN Relinked(graph.nodes[n], above[n], below[n]) ELSE graph.nodes[n])
      BY <1>3
    <3> QED
      BY <3>1, <3>2
  <2> QED
    BY <1>5, <2>1, LinksReplaced
<1>7. ASSUME NEW n \in D
      PROVE  IsLinkedList(r, SameLane(D, n))
  <2>1. PICK S, k : S = SameLane(D, n) /\ k = Cardinality(S)
    OBVIOUS
  <2>2. Numbered(order, S) /\ S \subseteq D
    BY <1>1, <2>1 DEF SameLane
  <2>3. \A m \in S : SameLane(D, m) = S
    BY <2>1 DEF SameLane
  <2>4. ASSUME NEW m \in S
        PROVE  /\ r.nodes[m].above = NodeAt(order, m, order[m] - 1)
               /\ r.nodes[m].below = NodeAt(order, m, order[m] + 1)
               /\ \A p : /\ NodeAt(order, m, p) \in S \union {0}
                         /\ \A x \in S : NodeAt(order, m, p) = x <=> order[x] = p
    <3>1. m \in D /\ m \in DOMAIN graph.nodes
      BY <1>2, <2>2
    <3>2. r.nodes[m].above = above[m] /\ r.nodes[m].below = below[m]
      BY <1>6, <3>1 DEF LinksSet
    <3> QED
      BY <1>3, <1>4, <2>3, <3>1, <3>2
  <2>5. PICK position : position = [m \in S |-> order[m]]
    OBVIOUS
  <2>6. position \in [S -> 1..k] /\ \A m \in S : position[m] = order[m] /\ order[m] \in Nat
    <3>1. \A m \in S : order[m] \in 1..k
      BY <2>1, <2>2 DEF Numbered
    <3>2. \A m \in S : order[m] \in Nat
      BY <3>1
    <3> QED
      BY <2>5, <3>1, <3>2
  <2>7. \A m \in S : {r.nodes[m].above, r.nodes[m].below} \subseteq S \union {0}
    BY <2>4
  <2>8. ASSUME NEW x \in S, NEW y \in S
        PROVE  /\ position[x] = position[y] => x = y
               /\ r.nodes[x].below = y <=> position[y] = position[x] + 1
               /\ r.nodes[y].above = x <=> position[y] = position[x] + 1
    <3>1. PICK i, j : i = order[x] /\ j = order[y]
      OBVIOUS
    <3>2. i \in Nat /\ j \in Nat /\ position[x] = i /\ position[y] = j
      BY <2>6, <3>1
    <3>3. order[x] = order[y] => x = y
      BY <2>2 DEF Numbered
    <3>4. r.nodes[x].below = y <=> j = i + 1
      BY <2>4, <3>1
    <3>5. r.nodes[y].above = x <=> i = j - 1
      BY <2>4, <3>1
    <3> QED
      BY <3>1, <3>2, <3>3, <3>4, <3>5
  <2>9. InPositions(r, S, k, position)
    BY <2>6, <2>7, <2>8 DEF InPositions
  <2> QED
    BY <2>1, <2>9, LinkedListPositions
<1> QED
  BY <1>6, <1>7 DEF LinksSet

(* Links do not matter to which nodes are kept.                             *)
LEMMA KeptKept ==
    ASSUME NEW g, NEW r, SameButLinks(r, g), NEW b, NEW ph, KeptAt(g, b, ph)
    PROVE  KeptAt(r, b, ph)
BY DEF SameButLinks, KeptAt

(* A layer more is linked.                                                  *)
LEMMA OrderedLayerLinks ==
    ASSUME IsGraph(graph), EndsExist(graph), LanesComplete(graph), NEW i \in Nat,
           NEW L, L = LinkedIn(graph, "order", i), LinksHold(graph, L),
           NEW order \in Orders(i - 1), NEW r, r = Linked(order)
    PROVE  LinksHold(r, LinkedIn(r, "order", i + 1))
<1>1. PICK D : D = InLayer(i - 1)
  OBVIOUS
<1>2. /\ IsGraph(r) /\ SameButLinks(r, graph)
      /\ \A n \in DOMAIN graph.nodes \ D : /\ r.nodes[n].above = graph.nodes[n].above
                                           /\ r.nodes[n].below = graph.nodes[n].below
      /\ \A n \in D : IsLinkedList(r, SameLane(D, n))
  BY <1>1, LinkedEffect
<1>3. PICK M : M = LinkedIn(r, "order", i + 1)
  OBVIOUS
<1>4. ASSUME NEW n \in DOMAIN graph.nodes
      PROVE  n \in M <=> n \in L \/ n \in D
  <2>1. PICK layer, count : layer = graph.nodes[n].layer /\ count = graph.numLayers
    OBVIOUS
  <2>2. layer \in Nat /\ count \in Nat
    BY <2>1, GraphParts DEF GraphNodes
  <2>3. n \in M <=> layer < count /\ ~IsLoneData(graph.nodes[n]) /\ layer + 1 < i + 1
    <3>1. n \in DOMAIN r.nodes /\ r.nodes[n].layer = layer /\ r.numLayers = count
      BY <1>2, <2>1 DEF SameButLinks
    <3>2. IsLoneData(r.nodes[n]) <=> IsLoneData(graph.nodes[n])
      BY <1>2, WholeKept
    <3> QED
      BY <1>3, <3>1, <3>2 DEF LinkedIn
  <2>4. n \in L <=> layer < count /\ ~IsLoneData(graph.nodes[n]) /\ layer + 1 < i
    BY <2>1 DEF LinkedIn
  <2>5. n \in D <=> layer < count /\ ~IsLoneData(graph.nodes[n]) /\ layer = i - 1
    BY <1>1, <2>1 DEF InLayer, InProgram
  <2> QED
    BY <2>2, <2>3, <2>4, <2>5
<1>5. M \subseteq DOMAIN graph.nodes /\ L \subseteq DOMAIN graph.nodes /\ D \subseteq DOMAIN graph.nodes
  BY <1>1, <1>2, <1>3 DEF LinkedIn, InLayer, SameButLinks
<1>6. /\ \A n \in D : graph.nodes[n].layer = i - 1
      /\ \A n \in L : graph.nodes[n].layer # i - 1
  <2>1. \A n \in L : graph.nodes[n].layer + 1 < i /\ graph.nodes[n].layer \in Nat
    BY <1>5, GraphParts DEF LinkedIn, GraphNodes
  <2> QED
    BY <1>1, <2>1 DEF InLayer
<1>7. ASSUME NEW n \in M
      PROVE  IsLinkedList(r, InColumn(r, n) \intersect M)
  <2>1. InColumn(r, n) = InColumn(graph, n) /\ n \in DOMAIN graph.nodes
    BY <1>2, <1>5, WholeKept
  <2>2. \A m \in InColumn(graph, n) : /\ m \in DOMAIN graph.nodes
                                      /\ graph.nodes[m].layer = graph.nodes[n].layer
                                      /\ Place(graph.nodes[m]) = Place(graph.nodes[n])
    BY DEF InColumn, Column
  <2>3. CASE n \in D
    <3>1. InColumn(graph, n) \intersect M = SameLane(D, n)
      <4>1. \A m \in InColumn(graph, n) \intersect M : m \in D
        BY <1>4, <1>6, <2>2, <2>3
      <4>2. \A m \in SameLane(D, n) : m \in InColumn(graph, n) \intersect M
        <5>1. \A m \in D : graph.nodes[m].layer = graph.nodes[n].layer /\ m \in DOMAIN graph.nodes /\ m \in M
          BY <1>4, <1>5, <1>6, <2>3
        <5> QED
          BY <5>1 DEF SameLane, InColumn, Column
      <4> QED
        BY <2>2, <4>1, <4>2 DEF SameLane
    <3> QED
      BY <1>2, <2>1, <2>3, <3>1
  <2>4. CASE n \in L
    <3>1. PICK S : S = InColumn(graph, n) \intersect L
      OBVIOUS
    <3>2. InColumn(graph, n) \intersect M = S
      BY <1>4, <1>5, <1>6, <2>2, <2>4, <3>1
    <3>3. IsLinkedList(graph, S)
      BY <2>4, <3>1 DEF LinksHold
    <3>4. \A m \in S : r.nodes[m].above = graph.nodes[m].above /\ r.nodes[m].below = graph.nodes[m].below
      BY <1>2, <1>5, <1>6, <3>1
    <3>5. IsLinkedList(r, S)
      BY <3>3, <3>4, SameLinksSameList
    <3> QED
      BY <2>1, <3>2, <3>5
  <2> QED
    BY <1>4, <2>1, <2>3, <2>4
<1>8. \A n \in DOMAIN r.nodes \ M : r.nodes[n].above = 0 /\ r.nodes[n].below = 0
  <2>1. \A n \in DOMAIN graph.nodes \ M : n \notin D /\ n \notin L
    BY <1>4
  <2>2. \A n \in DOMAIN graph.nodes \ L : graph.nodes[n].above = 0 /\ graph.nodes[n].below = 0
    BY DEF LinksHold
  <2>3. DOMAIN r.nodes = DOMAIN graph.nodes
    BY <1>2 DEF SameButLinks
  <2> QED
    BY <1>2, <2>1, <2>2, <2>3
<1> QED
  BY <1>3, <1>7, <1>8 DEF LinksHold

(* Ordering a layer keeps the invariant.                                    *)
LEMMA OrderLayerKeeps ==
    ASSUME CrossingInv, OrderLayer
    PROVE  CrossingInv' \/ CrossingPanic
<1>1. phase = "order" /\ InvAt(graph, before, "order", at, saved)
  BY CrossingInvIn DEF OrderLayer, CrossingPhases
<1>2. /\ IsGraph(graph) /\ at \in Nat /\ Whole(graph) /\ KeptAt(graph, before, "order")
      /\ LinksHold(graph, LinkedIn(graph, "order", at))
  BY <1>1 DEF InvAt
<1>3. CASE at > graph.numLayers /\ phase' = "lone" /\ at' = 1 /\ UNCHANGED <<parsed, graph, before, saved>>
  <2>1. LinkedIn(graph, "lone", 1) = LinkedIn(graph, "order", at)
    <3>1. \A n \in DOMAIN graph.nodes : graph.nodes[n].layer \in Nat /\ n \in Nat /\ n >= 1
      <4>1. \A n \in DOMAIN graph.nodes : n \in Nat /\ n >= 1 /\ graph.nodes[n] \in GraphNodes
        BY <1>2, GraphParts
      <4> QED
        BY <4>1 DEF GraphNodes
    <3>2. graph.numLayers \in Nat
      BY <1>2, GraphParts
    <3>3. PICK count \in Nat : count = graph.numLayers /\ at > count
      BY <1>3, <3>2
    <3>4. \A layer \in Nat : layer < count => layer + 1 < at
      BY <1>2, <3>3
    <3>5. \A n \in DOMAIN graph.nodes : graph.nodes[n].layer < graph.numLayers => graph.nodes[n].layer + 1 < at
      BY <3>1, <3>3, <3>4
    <3>6. \A n \in DOMAIN graph.nodes : ~(n < 1)
      BY <3>1
    <3> QED
      BY <3>5, <3>6 DEF LinkedIn
  <2>2. InvAt(graph, before, "lone", 1, saved)
    BY <1>1, <2>1 DEF InvAt, CrossingPhases, KeptAt
  <2> QED
    BY <1>3, <2>2, CrossingInvIn
<1>4. CASE /\ \E order \in Orders(at - 1) : graph' = Linked(order)
           /\ at' = at + 1 /\ UNCHANGED <<parsed, phase, before, saved>>
  <2>1. PICK order : order \in Orders(at - 1) /\ graph' = Linked(order)
    BY <1>4
  <2>2. PICK r, L, D : r = Linked(order) /\ L = LinkedIn(graph, "order", at) /\ D = InLayer(at - 1)
    OBVIOUS
  <2>3. EndsExist(graph) /\ LanesComplete(graph)
    BY <1>2 DEF Whole
  <2>4. IsGraph(r) /\ SameButLinks(r, graph)
    BY <1>2, <2>1, <2>2, <2>3, LinkedEffect
  <2>5. LinksHold(r, LinkedIn(r, "order", at + 1))
    BY <1>2, <2>1, <2>2, <2>3, OrderedLayerLinks
  <2>6. KeptAt(r, before, "order") /\ Whole(r)
    BY <1>2, <2>4, KeptKept, WholeKept
  <2>7. InvAt(r, before, "order", at + 1, saved)
    BY <1>1, <2>4, <2>5, <2>6 DEF InvAt
  <2> QED
    BY <1>1, <1>4, <2>1, <2>2, <2>7, CrossingInvIn
<1> QED
  BY <1>3, <1>4 DEF OrderLayer

-----------------------------------------------------------------------------
(* process_data_nodes_which_should_become_immediate_neighbors() *)

(* The edge of a lone data node is its only one.                            *)
LEMMA LoneEdgeIsOnlyEdge ==
    ASSUME NEW g, IsGraph(g), EndsExist(g), Mirrored(g),
           NEW n \in DOMAIN g.nodes, IsLoneData(g.nodes[n])
    PROVE  IF g.nodes[n].outgoing = <<>>
           THEN LET e == g.nodes[n].incoming[1]
                IN e \in DOMAIN g.edges /\ IsOnlyEdge(g, n, e) /\ g.edges[e].to = n
           ELSE LET e == g.nodes[n].outgoing[1]
                IN e \in DOMAIN g.edges /\ IsOnlyEdge(g, n, e) /\ g.edges[e].from = n
<1>1. PICK in, out : in = g.nodes[n].incoming /\ out = g.nodes[n].outgoing
  OBVIOUS
<1>2. in \in Seq(Nat) /\ out \in Seq(Nat)
  BY <1>1, NodeLists
<1>3. Len(in) + Len(out) = 1
  BY <1>1 DEF IsLoneData
<1>4. /\ ToSet(in) \subseteq DOMAIN g.edges /\ ToSet(out) \subseteq DOMAIN g.edges
      /\ \A e \in DOMAIN g.edges :
            LET listed == IF g.edges[e].type = "Replaced" THEN 0 ELSE 1
            IN /\ Count(out, e) = IF g.edges[e].from = n THEN listed ELSE 0
               /\ Count(in, e) = IF g.edges[e].to = n THEN listed ELSE 0
  BY <1>1 DEF Mirrored
<1>5. \A e : (Count(in, e) = 0 <=> e \notin ToSet(in)) /\ (Count(out, e) = 0 <=> e \notin ToSet(out))
  BY <1>2, CountType
<1>6. ToSet(<<>>) = {} /\ \A s \in Seq(Nat) : Len(s) = 1 => ToSet(s) = {s[1]}
  BY DEF ToSet
<1>7. CASE out = <<>>
  <2>1. Len(in) = 1
    BY <1>2, <1>3, <1>7
  <2>2. PICK e : e = in[1]
    OBVIOUS
  <2>3. ToSet(in) = {e} /\ ToSet(out) = {}
    BY <1>2, <1>6, <1>7, <2>1, <2>2
  <2>4. /\ e \in DOMAIN g.edges /\ g.edges[e].type # "Replaced"
        /\ g.edges[e].to = n /\ g.edges[e].from # n
    BY <1>4, <1>5, <2>3
  <2>5. ASSUME NEW d \in DOMAIN g.edges, g.edges[d].type # "Replaced", n \in {g.edges[d].from, g.edges[d].to}
        PROVE  d = e
    BY <1>4, <1>5, <2>3, <2>5
  <2>6. IsOnlyEdge(g, n, e)
    BY <2>4, <2>5 DEF IsOnlyEdge
  <2> QED
    BY <1>1, <1>7, <2>2, <2>4, <2>6
<1>8. CASE out # <<>>
  <2>1. Len(out) = 1 /\ Len(in) = 0
    <3>1. Len(in) \in Nat /\ Len(out) \in Nat /\ Len(out) # 0
      BY <1>2, <1>8
    <3>2. PICK i, j : i = Len(in) /\ j = Len(out)
      OBVIOUS
    <3>3. i \in Nat /\ j \in Nat /\ j # 0 /\ i + j = 1
      BY <1>3, <3>1, <3>2
    <3>4. i = 0 /\ j = 1
      BY <3>3
    <3> QED
      BY <3>2, <3>4
  <2>2. PICK e : e = out[1]
    OBVIOUS
  <2>3. ToSet(in) = {} /\ ToSet(out) = {e}
    <3>1. in = <<>>
      BY <1>2, <2>1
    <3> QED
      BY <1>2, <1>6, <2>1, <2>2, <3>1
  <2>4. /\ e \in DOMAIN g.edges /\ g.edges[e].type # "Replaced"
        /\ g.edges[e].from = n /\ g.edges[e].to # n
    BY <1>4, <1>5, <2>3
  <2>5. ASSUME NEW d \in DOMAIN g.edges, g.edges[d].type # "Replaced", n \in {g.edges[d].from, g.edges[d].to}
        PROVE  d = e
    BY <1>4, <1>5, <2>3, <2>5
  <2>6. IsOnlyEdge(g, n, e)
    BY <2>4, <2>5 DEF IsOnlyEdge
  <2> QED
    BY <1>1, <1>8, <2>2, <2>4, <2>6
<1> QED
  BY <1>7, <1>8

(* A node comes between two others, of which one may be missing.            *)
InsertedBetween(r, g, n, a, b) ==
    /\ SameButLinks(r, g)
    /\ r.nodes[n].above = a /\ r.nodes[n].below = b
    /\ \A m \in DOMAIN g.nodes \ {n} :
          /\ r.nodes[m].below = IF m = a THEN n ELSE g.nodes[m].below
          /\ r.nodes[m].above = IF m = b THEN n ELSE g.nodes[m].above

LEMMA InsertedEffect ==
    ASSUME NEW g, IsGraph(g), NEW n \in DOMAIN g.nodes, NEW spot, NEW a, NEW b,
           a = spot.above, b = spot.below, a \in DOMAIN g.nodes \union {0}, b \in DOMAIN g.nodes \union {0},
           n # a, n # b, NEW r, r = Inserted(g, n, spot)
    PROVE  IsGraph(r) /\ InsertedBetween(r, g, n, a, b)
<1>1. DOMAIN g.nodes \subseteq Nat /\ 0 \notin DOMAIN g.nodes
  BY GraphParts
<1>2. PICK up : up = IF a = 0 THEN g ELSE [g EXCEPT !.nodes[a].below = n]
  OBVIOUS
<1>3. IsGraph(up) /\ BelowSet(up, g, a, n)
  <2>1. n \in Nat
    BY <1>1
  <2> QED
    BY <1>2, <2>1, BelowReplaced
<1>4. PICK down : down = IF b = 0 THEN up ELSE [up EXCEPT !.nodes[b].above = n]
  OBVIOUS
<1>5. IsGraph(down) /\ AboveSet(down, up, b, n)
  <2>1. n \in Nat /\ b \in DOMAIN up.nodes \union {0}
    BY <1>1, <1>3 DEF BelowSet, SameButLinks
  <2> QED
    BY <1>3, <1>4, <2>1, AboveReplaced
<1>6. DOMAIN up.nodes = DOMAIN g.nodes /\ DOMAIN down.nodes = DOMAIN g.nodes
  BY <1>3, <1>5 DEF BelowSet, AboveSet, SameButLinks
<1>7. PICK mid : mid = IF n = 0 THEN down ELSE [down EXCEPT !.nodes[n].above = a]
  OBVIOUS
<1>8. IsGraph(mid) /\ AboveSet(mid, down, n, a)
  <2>1. n \in DOMAIN down.nodes \union {0} /\ a \in Nat
    BY <1>1, <1>6
  <2> QED
    BY <1>5, <1>7, <2>1, AboveReplaced
<1>9. r = IF n = 0 THEN mid ELSE [mid EXCEPT !.nodes[n].below = b]
  <2>1. r = [down EXCEPT !.nodes[n].above = a, !.nodes[n].below = b]
    BY <1>2, <1>4 DEF Inserted
  <2>2. n # 0
    BY <1>1
  <2>3. mid = [down EXCEPT !.nodes[n].above = a]
    BY <1>7, <2>2
  <2> QED
    BY <2>1, <2>2, <2>3
<1>10. IsGraph(r) /\ BelowSet(r, mid, n, b)
  <2>1. DOMAIN mid.nodes = DOMAIN g.nodes
    BY <1>6, <1>8 DEF AboveSet, SameButLinks
  <2>2. n \in DOMAIN mid.nodes \union {0} /\ b \in Nat
    BY <1>1, <2>1
  <2> QED
    BY <1>8, <1>9, <2>2, BelowReplaced
<1>11. DOMAIN mid.nodes = DOMAIN g.nodes
  BY <1>6, <1>8 DEF AboveSet, SameButLinks
<1>12. SameButLinks(r, g)
  BY <1>3, <1>5, <1>8, <1>10 DEF BelowSet, AboveSet, SameButLinks
<1>13. ASSUME NEW m \in DOMAIN g.nodes
       PROVE  /\ r.nodes[m].below = IF m = n THEN b ELSE IF m = a THEN n ELSE g.nodes[m].below
              /\ r.nodes[m].above = IF m = n THEN a ELSE IF m = b THEN n ELSE g.nodes[m].above
  <2>1. /\ up.nodes[m].above = g.nodes[m].above
        /\ up.nodes[m].below = IF m = a THEN n ELSE g.nodes[m].below
    BY <1>3 DEF BelowSet
  <2>2. /\ down.nodes[m].below = up.nodes[m].below
        /\ down.nodes[m].above = IF m = b THEN n ELSE up.nodes[m].above
    BY <1>5, <1>6 DEF AboveSet
  <2>3. /\ mid.nodes[m].below = down.nodes[m].below
        /\ mid.nodes[m].above = IF m = n THEN a ELSE down.nodes[m].above
    BY <1>6, <1>8 DEF AboveSet
  <2>4. /\ r.nodes[m].above = mid.nodes[m].above
        /\ r.nodes[m].below = IF m = n THEN b ELSE mid.nodes[m].below
    BY <1>10, <1>11 DEF BelowSet
  <2> QED
    BY <2>1, <2>2, <2>3, <2>4
<1> QED
  BY <1>10, <1>12, <1>13 DEF InsertedBetween

(* The spot of a lone data node is beside a node of its column that was     *)
(* there before it.                                                         *)
IsBeside(n, ref, a, b) ==
    /\ ref \in DOMAIN graph.nodes /\ ref < n /\ Column(graph, ref) = Column(graph, n)
    /\ (a = ref /\ b = graph.nodes[ref].below) \/ (b = ref /\ a = graph.nodes[ref].above)

LEMMA SpotIsBeside ==
    ASSUME IsGraph(graph), Whole(graph), NEW n \in DOMAIN graph.nodes, IsLoneData(graph.nodes[n]),
           NEW spot, spot = Spot(n)
    PROVE  \E ref : IsBeside(n, ref, spot.above, spot.below)
<1>1. PICK node : node = graph.nodes[n]
  OBVIOUS
<1>2. EndsExist(graph) /\ Mirrored(graph)
  BY DEF Whole
<1>3. CASE node.outgoing = <<>>
  <2>1. PICK e, ref : e = node.incoming[1] /\ ref = graph.edges[e].from
    OBVIOUS
  <2>2. e \in DOMAIN graph.edges /\ IsOnlyEdge(graph, n, e) /\ graph.edges[e].to = n
    BY <1>1, <1>2, <1>3, <2>1, LoneEdgeIsOnlyEdge
  <2>3. OtherEnd(graph.edges[e], n) = ref /\ ref \in DOMAIN graph.nodes
    BY <1>2, <2>1, <2>2 DEF IsOnlyEdge, OtherEnd, EndsExist
  <2>4. ref < n /\ Column(graph, ref) = Column(graph, n)
    BY <2>2, <2>3 DEF Whole, LoneBeside, IsLoneData
  <2>5. spot = [above |-> ref, below |-> graph.nodes[ref].below]
    BY <1>1, <1>3, <2>1 DEF Spot
  <2> QED
    BY <2>3, <2>4, <2>5 DEF IsBeside
<1>4. CASE node.outgoing # <<>>
  <2>1. PICK e, ref : e = node.outgoing[1] /\ ref = graph.edges[e].to
    OBVIOUS
  <2>2. e \in DOMAIN graph.edges /\ IsOnlyEdge(graph, n, e) /\ graph.edges[e].from = n
    BY <1>1, <1>2, <1>4, <2>1, LoneEdgeIsOnlyEdge
  <2>3. OtherEnd(graph.edges[e], n) = ref /\ ref \in DOMAIN graph.nodes
    BY <1>2, <2>1, <2>2 DEF IsOnlyEdge, OtherEnd, EndsExist
  <2>4. ref < n /\ Column(graph, ref) = Column(graph, n)
    BY <2>2, <2>3 DEF Whole, LoneBeside, IsLoneData
  <2>5. spot = [above |-> graph.nodes[ref].above, below |-> ref]
    BY <1>1, <1>4, <2>1 DEF Spot
  <2> QED
    BY <2>3, <2>4, <2>5 DEF IsBeside
<1> QED
  BY <1>3, <1>4

(* Beside its neighbour, ref, there is room for it in the list S of its      *)
(* column, which it is not in.                                              *)
SpotFits(r, i, L, S, ref, a, b) ==
    /\ IsBeside(i, ref, a, b) /\ graph.nodes[i].layer < graph.numLayers
    /\ i \notin L /\ L \subseteq DOMAIN graph.nodes
    /\ \A n \in DOMAIN graph.nodes :
          n \in L <=> /\ graph.nodes[n].layer < graph.numLayers
                      /\ IsLoneData(graph.nodes[n]) => n < i
    /\ S = InColumn(graph, i) \intersect L
    /\ ref \in S /\ i \notin S /\ 0 \notin S /\ S \subseteq DOMAIN graph.nodes /\ IsLinkedList(graph, S)
    /\ a \in S \union {0} /\ b \in S \union {0}
    /\ IsGraph(r) /\ InsertedBetween(r, graph, i, a, b)

LEMMA LoneDataSpot ==
    ASSUME IsGraph(graph), Whole(graph), NEW old, KeptAt(graph, old, "lone"),
           NEW i \in DOMAIN graph.nodes, IsLoneData(graph.nodes[i]),
           NEW L, L = LinkedIn(graph, "lone", i), LinksHold(graph, L),
           NEW spot, spot = Spot(i), NEW r, r = Inserted(graph, i, spot)
    PROVE  \E S, ref : SpotFits(r, i, L, S, ref, spot.above, spot.below)
<1>1. PICK a, b : a = spot.above /\ b = spot.below
  OBVIOUS
<1>2. PICK ref : IsBeside(i, ref, a, b)
  <2>1. \E ref : IsBeside(i, ref, spot.above, spot.below)
    BY SpotIsBeside
  <2> QED
    BY <1>1, <2>1
<1>3. /\ ref \in DOMAIN graph.nodes /\ ref < i /\ Column(graph, ref) = Column(graph, i)
      /\ (a = ref /\ b = graph.nodes[ref].below) \/ (b = ref /\ a = graph.nodes[ref].above)
  BY <1>2 DEF IsBeside
<1>4. DOMAIN graph.nodes \subseteq Nat /\ 0 \notin DOMAIN graph.nodes
  BY GraphParts
<1>5. graph.nodes[i].layer < graph.numLayers /\ graph.nodes[ref].layer = graph.nodes[i].layer
  <2>1. graph.nodes[i].kind # "Dummy"
    BY DEF IsLoneData, IsData
  <2> QED
    BY <1>3, <2>1 DEF KeptAt, Column
<1>6. /\ ref \in L /\ i \notin L /\ L \subseteq DOMAIN graph.nodes
      /\ \A n \in DOMAIN graph.nodes :
            n \in L <=> /\ graph.nodes[n].layer < graph.numLayers
                        /\ IsLoneData(graph.nodes[n]) => n < i
  <2>1. \A n \in DOMAIN graph.nodes :
            n \in L <=> /\ graph.nodes[n].layer < graph.numLayers
                        /\ IsLoneData(graph.nodes[n]) => n < i
    BY DEF LinkedIn
  <2>2. L \subseteq DOMAIN graph.nodes
    BY DEF LinkedIn
  <2>3. ~(i < i)
    BY <1>4
  <2> QED
    BY <1>3, <1>5, <2>1, <2>2, <2>3
<1>7. PICK S : S = InColumn(graph, i) \intersect L
  OBVIOUS
<1>8. ref \in S /\ i \notin S /\ 0 \notin S /\ S \subseteq DOMAIN graph.nodes /\ IsLinkedList(graph, S)
  <2>1. InColumn(graph, ref) = InColumn(graph, i) /\ ref \in InColumn(graph, i)
    BY <1>3 DEF InColumn
  <2>2. IsLinkedList(graph, InColumn(graph, ref) \intersect L)
    BY <1>6 DEF LinksHold
  <2> QED
    BY <1>4, <1>6, <1>7, <2>1, <2>2
<1>9. a \in S \union {0} /\ b \in S \union {0}
  BY <1>3, <1>8 DEF IsLinkedList
<1>10. IsGraph(r) /\ InsertedBetween(r, graph, i, a, b)
  <2>1. a \in DOMAIN graph.nodes \union {0} /\ b \in DOMAIN graph.nodes \union {0} /\ i # a /\ i # b
    BY <1>4, <1>8, <1>9
  <2> QED
    BY <1>1, <2>1, InsertedEffect
<1> QED
  BY <1>1, <1>2, <1>5, <1>6, <1>7, <1>8, <1>9, <1>10 DEF SpotFits

(* A lone data node joins the list of its column beside its neighbour.      *)
LEMMA LoneDataLinks ==
    ASSUME IsGraph(graph), Whole(graph), NEW old, KeptAt(graph, old, "lone"),
           NEW i \in DOMAIN graph.nodes, IsLoneData(graph.nodes[i]),
           NEW L, L = LinkedIn(graph, "lone", i), LinksHold(graph, L),
           NEW spot, spot = Spot(i), NEW r, r = Inserted(graph, i, spot)
    PROVE  /\ IsGraph(r) /\ SameButLinks(r, graph)
           /\ LinksHold(r, LinkedIn(r, "lone", i + 1))
<1>1. PICK a, b : a = spot.above /\ b = spot.below
  OBVIOUS
<1>2. PICK S, ref : SpotFits(r, i, L, S, ref, a, b)
  <2>1. \E S, ref : SpotFits(r, i, L, S, ref, spot.above, spot.below)
    BY LoneDataSpot
  <2> QED
    BY <1>1, <2>1
<1>3. /\ ref \in DOMAIN graph.nodes /\ ref < i /\ Column(graph, ref) = Column(graph, i)
      /\ (a = ref /\ b = graph.nodes[ref].below) \/ (b = ref /\ a = graph.nodes[ref].above)
  BY <1>2 DEF SpotFits, IsBeside
<1>4. DOMAIN graph.nodes \subseteq Nat /\ 0 \notin DOMAIN graph.nodes
  BY GraphParts
<1>5. graph.nodes[i].layer < graph.numLayers
  BY <1>2 DEF SpotFits
<1>6. /\ i \notin L /\ L \subseteq DOMAIN graph.nodes
      /\ \A n \in DOMAIN graph.nodes :
            n \in L <=> /\ graph.nodes[n].layer < graph.numLayers
                        /\ IsLoneData(graph.nodes[n]) => n < i
  BY <1>2 DEF SpotFits
<1>7. S = InColumn(graph, i) \intersect L
  BY <1>2 DEF SpotFits
<1>8. ref \in S /\ i \notin S /\ 0 \notin S /\ S \subseteq DOMAIN graph.nodes /\ IsLinkedList(graph, S)
  BY <1>2 DEF SpotFits
<1>9. a \in S \union {0} /\ b \in S \union {0}
  BY <1>2 DEF SpotFits
<1>10. IsGraph(r) /\ InsertedBetween(r, graph, i, a, b)
  BY <1>2 DEF SpotFits
<1>11. /\ SameButLinks(r, graph) /\ r.nodes[i].above = a /\ r.nodes[i].below = b
       /\ \A m \in DOMAIN graph.nodes \ {i} :
             /\ r.nodes[m].below = IF m = a THEN i ELSE graph.nodes[m].below
             /\ r.nodes[m].above = IF m = b THEN i ELSE graph.nodes[m].above
  BY <1>10 DEF InsertedBetween
<1>12. /\ DOMAIN r.nodes = DOMAIN graph.nodes
       /\ \A n \in DOMAIN graph.nodes : /\ InColumn(r, n) = InColumn(graph, n)
                                        /\ IsLoneData(r.nodes[n]) <=> IsLoneData(graph.nodes[n])
  BY <1>11, WholeKept DEF SameButLinks
<1>13. PICK M : M = LinkedIn(r, "lone", i + 1)
  OBVIOUS
<1>14. M = L \union {i}
  <2>1. \A n \in DOMAIN graph.nodes : n < i + 1 <=> n < i \/ n = i
    BY <1>4
  <2>2. \A n \in DOMAIN graph.nodes :
            n \in M <=> /\ graph.nodes[n].layer < graph.numLayers
                        /\ IsLoneData(graph.nodes[n]) => n < i + 1
    BY <1>11, <1>12, <1>13 DEF LinkedIn, SameButLinks
  <2>3. M \subseteq DOMAIN graph.nodes
    BY <1>12, <1>13 DEF LinkedIn
  <2> QED
    BY <1>5, <1>6, <2>1, <2>2, <2>3
<1>15. IsLinkedList(r, S \union {i})
  <2>1. PICK m \in Nat : DOMAIN graph.nodes = 1..m
    BY GraphParts
  <2>2. IsFiniteSet(S)
    <3>1. IsFiniteSet(1..m) /\ S \in SUBSET (1..m)
      BY <1>8, <2>1, FS_Interval
    <3> QED
      BY <3>1, FS_Subset
  <2>3. PICK k : k = Cardinality(S)
    OBVIOUS
  <2>4. k \in Nat /\ Cardinality(S \union {i}) = k + 1
    BY <1>8, <2>2, <2>3, FS_CardinalityType, FS_AddElement
  <2>5. PICK position : InPositions(graph, S, k, position)
    BY <1>8, <2>3, LinkedListPositions
  <2>6. Between(r, graph, S, i, a, b)
    BY <1>8, <1>11 DEF Between
  <2>7. i # 0 /\ ((a \in S /\ b = graph.nodes[a].below) \/ (b \in S /\ a = graph.nodes[b].above))
    BY <1>3, <1>4, <1>8
  <2>8. \E q : InPositions(r, S \union {i}, k + 1, q)
    BY <1>8, <2>4, <2>5, <2>6, <2>7, BetweenIsInList
  <2> QED
    BY <2>4, <2>8, LinkedListPositions
<1>16. ASSUME NEW n \in M
       PROVE  IsLinkedList(r, InColumn(r, n) \intersect M)
  <2>1. n \in DOMAIN graph.nodes /\ InColumn(r, n) = InColumn(graph, n)
    BY <1>6, <1>12, <1>14
  <2>2. CASE Column(graph, n) = Column(graph, i)
    <3>1. InColumn(graph, n) = InColumn(graph, i) /\ i \in InColumn(graph, i)
      BY <2>2 DEF InColumn
    <3>2. InColumn(graph, n) \intersect M = S \union {i}
      BY <1>7, <1>14, <3>1
    <3> QED
      BY <1>15, <2>1, <3>2
  <2>3. CASE Column(graph, n) # Column(graph, i)
    <3>1. PICK T : T = InColumn(graph, n) \intersect L
      OBVIOUS
    <3>2. i \notin InColumn(graph, n) /\ \A m \in InColumn(graph, n) : m \notin InColumn(graph, i)
      BY <2>3 DEF InColumn
    <3>3. InColumn(graph, n) \intersect M = T /\ n \in L
      BY <1>14, <2>1, <2>3, <3>1, <3>2
    <3>4. \A m \in T : m \in DOMAIN graph.nodes \ {i} /\ m # a /\ m # b
      BY <1>4, <1>6, <1>7, <1>9, <3>1, <3>2
    <3>5. \A m \in T : r.nodes[m].above = graph.nodes[m].above /\ r.nodes[m].below = graph.nodes[m].below
      BY <1>11, <3>4
    <3>6. IsLinkedList(graph, T)
      BY <3>1, <3>3 DEF LinksHold
    <3>7. IsLinkedList(r, T)
      BY <3>5, <3>6, SameLinksSameList
    <3> QED
      BY <2>1, <3>3, <3>7
  <2> QED
    BY <2>2, <2>3
<1>17. \A n \in DOMAIN r.nodes \ M : r.nodes[n].above = 0 /\ r.nodes[n].below = 0
  <2>1. \A n \in DOMAIN graph.nodes \ M : n # i /\ n \notin L /\ n # a /\ n # b
    BY <1>4, <1>7, <1>9, <1>14
  <2>2. \A n \in DOMAIN graph.nodes \ L : graph.nodes[n].above = 0 /\ graph.nodes[n].below = 0
    BY DEF LinksHold
  <2> QED
    BY <1>11, <1>12, <2>1, <2>2
<1> QED
  BY <1>10, <1>11, <1>13, <1>16, <1>17 DEF LinksHold

(* Lanes of nodes that remain.                                              *)
LEMMA LanesRetained ==
    ASSUME NEW g, IsGraph(g), NEW T,
           NEW r, r = [g EXCEPT !.lanes = [place \in DOMAIN g.lanes |-> Retained(g.lanes[place], T)]]
    PROVE  IsGraph(r) /\ r.nodes = g.nodes /\ r.edges = g.edges /\ r.numLayers = g.numLayers
<1>1. PICK N, E, P, L : N = Seq(GraphNodes) /\ E = Seq(GraphEdges) /\ P = DOMAIN g.lanes /\ L = Seq(Nat)
  OBVIOUS
<1>2. g \in [nodes : N, edges : E, lanes : [P -> L], numLayers : Nat]
  BY <1>1 DEF IsGraph
<1>3. PICK lanes : lanes = [place \in P |-> Retained(g.lanes[place], T)]
  OBVIOUS
<1>4. \A place \in P : Retained(g.lanes[place], T) \in L
  <2>1. \A place \in P : g.lanes[place] \in Seq(Nat)
    BY <1>1, <1>2
  <2>2. \A s \in Seq(Nat) : Retained(s, T) \in Seq(Nat)
    BY CountRetained
  <2> QED
    BY <1>1, <2>1, <2>2
<1>5. lanes \in [P -> L]
  BY <1>3, <1>4
<1>6. r = [g EXCEPT !.lanes = lanes]
  BY <1>1, <1>3
<1>7. /\ r \in [nodes : N, edges : E, lanes : [P -> L], numLayers : Nat]
      /\ r.nodes = g.nodes /\ r.edges = g.edges /\ r.numLayers = g.numLayers /\ r.lanes = lanes
  BY <1>2, <1>5, <1>6
<1>8. DOMAIN r.lanes = P
  BY <1>5, <1>7
<1>9. IsGraph(r)
  BY <1>1, <1>7, <1>8 DEF IsGraph
<1> QED
  BY <1>7, <1>9

(* Placing lone data keeps the invariant.                                   *)
LEMMA PlaceLoneDataKeeps ==
    ASSUME CrossingInv, PlaceLoneData
    PROVE  CrossingInv' \/ CrossingPanic
<1>1. phase = "lone" /\ InvAt(graph, before, "lone", at, saved)
  BY CrossingInvIn DEF PlaceLoneData, CrossingPhases
<1>2. /\ IsGraph(graph) /\ at \in Nat /\ Whole(graph) /\ KeptAt(graph, before, "lone")
      /\ LinksHold(graph, LinkedIn(graph, "lone", at))
  BY <1>1 DEF InvAt
<1>3. DOMAIN graph.nodes = 1..Len(graph.nodes) /\ Len(graph.nodes) \in Nat
  BY <1>2, GraphParts
<1>4. CASE /\ at > Len(graph.nodes) /\ phase' = "undo" /\ at' = 1 /\ UNCHANGED <<parsed, before, saved>>
           /\ graph' = [graph EXCEPT !.lanes = [place \in DOMAIN @ |-> Retained(@[place], DOMAIN before.nodes)]]
  <2>1. PICK r : r = [graph EXCEPT !.lanes = [place \in DOMAIN graph.lanes |->
                                                 Retained(graph.lanes[place], DOMAIN before.nodes)]]
    OBVIOUS
  <2>2. IsGraph(r) /\ r.nodes = graph.nodes /\ r.edges = graph.edges /\ r.numLayers = graph.numLayers
    <3>1. PICK T : T = DOMAIN before.nodes
      OBVIOUS
    <3>2. r = [graph EXCEPT !.lanes = [place \in DOMAIN graph.lanes |-> Retained(graph.lanes[place], T)]]
      BY <2>1, <3>1
    <3> QED
      BY <1>2, <3>2, LanesRetained
  <2>3. PICK L : L = LinkedIn(graph, "lone", at)
    OBVIOUS
  <2>4. LinkedIn(r, "undo", 1) = L
    <3>1. \A n \in DOMAIN graph.nodes : n < at
      BY <1>2, <1>3, <1>4
    <3> QED
      BY <2>2, <2>3, <3>1 DEF LinkedIn
  <2>5. LinksHold(r, L)
    <3>1. SameColumns(r, graph) /\ L \in SUBSET DOMAIN graph.nodes
      BY <2>2, <2>3 DEF SameColumns, LinkedIn
    <3> QED
      BY <1>2, <2>3, <3>1, LinksKept
  <2>6. KeptAt(r, before, "undo")
    BY <1>2, <2>2 DEF KeptAt
  <2>7. InvAt(r, before, "undo", 1, saved)
    BY <1>1, <2>2, <2>4, <2>5, <2>6 DEF InvAt, CrossingPhases
  <2>8. graph' = r
    BY <1>4, <2>1
  <2> QED
    BY <1>4, <2>7, <2>8, CrossingInvIn
<1>5. CASE /\ at <= Len(graph.nodes) /\ ~IsLoneData(graph.nodes[at])
           /\ at' = at + 1 /\ UNCHANGED <<parsed, graph, phase, before, saved>>
  <2>1. LinkedIn(graph, "lone", at + 1) = LinkedIn(graph, "lone", at)
    <3>1. \A n \in DOMAIN graph.nodes : IsLoneData(graph.nodes[n]) => (n < at + 1 <=> n < at)
      BY <1>2, <1>3, <1>5
    <3> QED
      BY <3>1 DEF LinkedIn
  <2>2. InvAt(graph, before, "lone", at + 1, saved)
    BY <1>1, <2>1 DEF InvAt
  <2> QED
    BY <1>1, <1>5, <2>2, CrossingInvIn
<1>6. CASE /\ at <= Len(graph.nodes) /\ IsLoneData(graph.nodes[at])
           /\ graph' = Inserted(graph, at, Spot(at))
           /\ at' = at + 1 /\ UNCHANGED <<parsed, phase, before, saved>>
  <2>1. CASE at \in DOMAIN graph.nodes
    <3>1. PICK r, spot, L : /\ spot = Spot(at) /\ r = Inserted(graph, at, spot)
                            /\ L = LinkedIn(graph, "lone", at)
      OBVIOUS
    <3>2. /\ IsGraph(r) /\ SameButLinks(r, graph)
          /\ LinksHold(r, LinkedIn(r, "lone", at + 1))
      BY <1>2, <1>6, <2>1, <3>1, LoneDataLinks
    <3>3. Whole(r) /\ KeptAt(r, before, "lone")
      BY <1>2, <3>2, WholeKept, KeptKept
    <3>4. InvAt(r, before, "lone", at + 1, saved)
      BY <1>1, <3>2, <3>3 DEF InvAt
    <3> QED
      BY <1>1, <1>6, <3>1, <3>4, CrossingInvIn
  <2>2. at >= 1
    BY <1>1 DEF InvAt
  <2> QED
    BY <1>2, <1>3, <1>6, <2>1, <2>2
<1> QED
  BY <1>4, <1>5, <1>6 DEF PlaceLoneData

-----------------------------------------------------------------------------
(* remove_temporarily_added_dummy_nodes_for_edges_within_same_layer() *)

(* Only lists of edges, and edges, are different.                           *)
SameButLists(r, g) ==
    /\ DOMAIN r.nodes = DOMAIN g.nodes /\ Len(r.nodes) = Len(g.nodes) /\ r.numLayers = g.numLayers
    /\ \A n \in DOMAIN g.nodes : SameNode(r.nodes[n], g.nodes[n])

LEMMA SameButListsTransitive ==
    ASSUME NEW g, NEW h, NEW r, SameButLists(h, g), SameButLists(r, h)
    PROVE  SameButLists(r, g)
BY DEF SameButLists, SameNode

(* What changing one list of edges does to the rest.                        *)
LEMMA ListReplaced ==
    ASSUME NEW g, IsGraph(g), NEW n \in DOMAIN g.nodes, NEW list \in Seq(Nat), NEW r,
           \/ r = [g EXCEPT !.nodes[n].incoming = list]
           \/ r = [g EXCEPT !.nodes[n].outgoing = list]
    PROVE  IsGraph(r) /\ SameButLists(r, g)
<1>1. CASE r = [g EXCEPT !.nodes[n].incoming = list]
  <2>1. IsGraph(r) /\ RelistedAt(r, g, n, list, g.nodes[n].outgoing)
    BY <1>1, IncomingReplaced
  <2> QED
    BY <2>1 DEF RelistedAt, SameButLists
<1>2. CASE r = [g EXCEPT !.nodes[n].outgoing = list]
  <2>1. IsGraph(r) /\ RelistedAt(r, g, n, g.nodes[n].incoming, list)
    BY <1>2, OutgoingReplaced
  <2> QED
    BY <2>1 DEF RelistedAt, SameButLists
<1> QED
  BY <1>1, <1>2

(* An edge gets other values.                                               *)
LEMMA EdgeReplaced ==
    ASSUME NEW g, IsGraph(g), NEW id, NEW edge \in GraphEdges,
           NEW r, r = [g EXCEPT !.edges[id] = edge]
    PROVE  IsGraph(r) /\ r.nodes = g.nodes /\ r.lanes = g.lanes /\ r.numLayers = g.numLayers
<1>1. PICK N, E, P, L : N = Seq(GraphNodes) /\ E = GraphEdges /\ P = DOMAIN g.lanes /\ L = Seq(Nat)
  OBVIOUS
<1>2. g \in [nodes : N, edges : Seq(E), lanes : [P -> L], numLayers : Nat]
  BY <1>1 DEF IsGraph
<1>3. PICK s \in Seq(E) : s = g.edges
  BY <1>2
<1>4. PICK t : t = [s EXCEPT ![id] = edge]
  OBVIOUS
<1>5. t \in Seq(E)
  <2>1. PICK m : m = Len(s)
    OBVIOUS
  <2>2. m \in Nat /\ s \in [1..m -> E] /\ edge \in E
    BY <1>1, <2>1
  <2>3. t \in [1..m -> E]
    BY <1>4, <2>2
  <2> QED
    BY <2>2, <2>3, FunctionIsSeq
<1>6. r = [g EXCEPT !.edges = t]
  BY <1>3, <1>4
<1>7. /\ r \in [nodes : N, edges : Seq(E), lanes : [P -> L], numLayers : Nat]
      /\ r.nodes = g.nodes /\ r.lanes = g.lanes /\ r.numLayers = g.numLayers
  BY <1>2, <1>5, <1>6
<1>8. IsGraph(r)
  BY <1>1, <1>7 DEF IsGraph
<1> QED
  BY <1>7, <1>8

(* A list without its last element.                                         *)
LEMMA PoppedType ==
    ASSUME NEW s \in Seq(Nat)
    PROVE  Popped(s) \in Seq(Nat)
<1>1. CASE s = <<>>
  BY <1>1 DEF Popped
<1>2. CASE s # <<>>
  <2>1. PICK k : k = Len(s) - 1
    OBVIOUS
  <2>2. k \in Int /\ \A i \in 1..k : s[i] \in Nat
    BY <2>1
  <2>3. SubSeq(s, 1, k) \in Seq(Nat)
    BY <2>2, SubSeqProperties
  <2> QED
    BY <1>2, <2>1, <2>3 DEF Popped, Front
<1> QED
  BY <1>1, <1>2

(* An edge that is restored is in other lists.                              *)
LEMMA LeftPoppedKeeps ==
    ASSUME NEW g, IsGraph(g), NEW edge, edge.from \in DOMAIN g.nodes, edge.to \in DOMAIN g.nodes,
           NEW r, r = LeftPopped(g, edge)
    PROVE  IsGraph(r) /\ SameButLists(r, g)
<1>1. PICK from, to : from = edge.from /\ to = edge.to
  OBVIOUS
<1>2. PICK l1 : l1 = Popped(g.nodes[to].incoming)
  OBVIOUS
<1>3. PICK h : h = [g EXCEPT !.nodes[to].incoming = l1]
  OBVIOUS
<1>4. IsGraph(h) /\ SameButLists(h, g)
  <2>1. l1 \in Seq(Nat)
    BY <1>1, <1>2, NodeLists, PoppedType
  <2> QED
    BY <1>1, <1>3, <2>1, ListReplaced
<1>5. PICK l2 : l2 = Popped(h.nodes[from].incoming)
  OBVIOUS
<1>6. from \in DOMAIN h.nodes
  BY <1>1, <1>4 DEF SameButLists
<1>7. r = [h EXCEPT !.nodes[from].incoming = l2]
  BY <1>1, <1>2, <1>3, <1>5 DEF LeftPopped
<1>8. IsGraph(r) /\ SameButLists(r, h)
  <2>1. l2 \in Seq(Nat)
    BY <1>4, <1>5, <1>6, NodeLists, PoppedType
  <2> QED
    BY <1>4, <1>6, <1>7, <2>1, ListReplaced
<1> QED
  BY <1>4, <1>8, SameButListsTransitive

LEMMA ListedAgainKeeps ==
    ASSUME NEW g, IsGraph(g), NEW id \in Nat, NEW n \in DOMAIN g.nodes,
           NEW r, r = ListedAgain(g, id, n)
    PROVE  IsGraph(r) /\ SameButLists(r, g)
<1>1. PICK l1, l2 : l1 = Popped(g.nodes[n].outgoing) /\ l2 = Append(g.nodes[n].incoming, id)
  OBVIOUS
<1>2. l1 \in Seq(Nat) /\ l2 \in Seq(Nat)
  <2>1. g.nodes[n].incoming \in Seq(Nat) /\ g.nodes[n].outgoing \in Seq(Nat)
    BY NodeLists
  <2> QED
    BY <1>1, <2>1, PoppedType
<1>3. PICK h : h = [g EXCEPT !.nodes[n].outgoing = l1]
  OBVIOUS
<1>4. IsGraph(h) /\ SameButLists(h, g)
  BY <1>2, <1>3, ListReplaced
<1>5. n \in DOMAIN h.nodes
  BY <1>4 DEF SameButLists
<1>6. r = [h EXCEPT !.nodes[n].incoming = l2]
  <2>1. r = [g EXCEPT !.nodes[n].outgoing = l1, !.nodes[n].incoming = l2]
    BY <1>1 DEF ListedAgain
  <2> QED
    BY <1>3, <2>1
<1>7. IsGraph(r) /\ SameButLists(r, h)
  BY <1>2, <1>4, <1>5, <1>6, ListReplaced
<1> QED
  BY <1>4, <1>7, SameButListsTransitive

LEMMA RestoredKeeps ==
    ASSUME NEW g, IsGraph(g), NEW id \in Nat, NEW edge \in GraphEdges,
           edge.from \in DOMAIN g.nodes, edge.to \in DOMAIN g.nodes,
           NEW r, r = Restored(g, id, edge)
    PROVE  IsGraph(r) /\ SameButLists(r, g)
<1>1. PICK old : old = [g EXCEPT !.edges[id] = edge]
  OBVIOUS
<1>2. IsGraph(old) /\ SameButLists(old, g)
  <2>1. IsGraph(old) /\ old.nodes = g.nodes /\ old.lanes = g.lanes /\ old.numLayers = g.numLayers
    BY <1>1, EdgeReplaced
  <2> QED
    BY <2>1 DEF SameButLists, SameNode
<1>3. PICK popped : popped = IF g.nodes[edge.to].layer = 0 THEN old ELSE LeftPopped(old, edge)
  OBVIOUS
<1>4. IsGraph(popped) /\ SameButLists(popped, g)
  <2>1. PICK left : left = LeftPopped(old, edge)
    OBVIOUS
  <2>2. edge.from \in DOMAIN old.nodes /\ edge.to \in DOMAIN old.nodes
    BY <1>2 DEF SameButLists
  <2>3. IsGraph(left) /\ SameButLists(left, old)
    BY <1>2, <2>1, <2>2, LeftPoppedKeeps
  <2>4. SameButLists(left, g)
    BY <1>2, <2>3, SameButListsTransitive
  <2> QED
    BY <1>2, <1>3, <2>1, <2>3, <2>4
<1>5. r = ListedAgain(popped, id, edge.to)
  BY <1>1, <1>3 DEF Restored
<1>6. IsGraph(r) /\ SameButLists(r, popped)
  <2>1. PICK n : n = edge.to
    OBVIOUS
  <2>2. n \in DOMAIN popped.nodes
    BY <1>4, <2>1 DEF SameButLists
  <2>3. r = ListedAgain(popped, id, n)
    BY <1>5, <2>1
  <2> QED
    BY <1>4, <2>2, <2>3, ListedAgainKeeps
<1> QED
  BY <1>4, <1>6, SameButListsTransitive

(* A saved edge is an edge of the old graph, whose ends are still there.    *)
LEMMA SavedEdgesFit ==
    ASSUME NEW g, NEW b, IsGraph(g), IsGraph(b), EndsExist(b), Len(b.nodes) <= Len(g.nodes),
           NEW s \in SavedEdges(b), NEW i \in DOMAIN s
    PROVE  /\ s[i].id \in Nat /\ s[i].edge \in GraphEdges
           /\ s[i].edge.from \in DOMAIN g.nodes /\ s[i].edge.to \in DOMAIN g.nodes
<1>1. PICK D, E : D = DOMAIN b.edges /\ E = ToSet(b.edges)
  OBVIOUS
<1>2. s[i] \in [id : D, edge : E]
  <2>1. PICK R : R = [id : D, edge : E]
    OBVIOUS
  <2>2. s \in Seq(R)
    BY <1>1, <2>1 DEF SavedEdges
  <2>3. s[i] \in R
    BY <2>2
  <2> QED
    BY <2>1, <2>3
<1>3. s[i].id \in D /\ s[i].edge \in E
  BY <1>2
<1>4. PICK e : e \in DOMAIN b.edges /\ s[i].edge = b.edges[e]
  BY <1>1, <1>3 DEF ToSet
<1>5. DOMAIN b.nodes \subseteq DOMAIN g.nodes
  <2>1. /\ DOMAIN b.nodes = 1..Len(b.nodes) /\ Len(b.nodes) \in Nat
        /\ DOMAIN g.nodes = 1..Len(g.nodes) /\ Len(g.nodes) \in Nat
    BY GraphParts
  <2> QED
    BY <2>1
<1>6. b.edges[e] \in GraphEdges /\ D \subseteq Nat
  BY <1>1, <1>4, GraphParts
<1>7. {b.edges[e].from, b.edges[e].to} \subseteq DOMAIN b.nodes
  BY <1>4 DEF EndsExist
<1> QED
  BY <1>3, <1>4, <1>5, <1>6, <1>7

(* Some temporary nodes are out of their columns: those of M are still      *)
(* linked, in graph u, and next to those of M that they were next to.       *)
UnlinkedFrom(u, g, L, M) ==
    /\ IsGraph(u) /\ SameButLinks(u, g)
    /\ \A n \in M : IsLinkedList(u, InColumn(g, n) \intersect M)
    /\ \A n \in DOMAIN g.nodes \ L : u.nodes[n].above = 0 /\ u.nodes[n].below = 0
    /\ \A n \in M : /\ g.nodes[n].above \in M => u.nodes[n].above = g.nodes[n].above
                    /\ g.nodes[n].below \in M => u.nodes[n].below = g.nodes[n].below

(* A node between a and b is gone.                                          *)
UnlinkedBetween(g, a, b, joined) ==
    LET up == IF a = 0 THEN g ELSE [g EXCEPT !.nodes[a].below = IF joined THEN b ELSE 0]
    IN IF b = 0 THEN up ELSE [up EXCEPT !.nodes[b].above = IF joined THEN a ELSE 0]

LEMMA UnlinkOne ==
    ASSUME NEW g, IsGraph(g), NEW L \in SUBSET DOMAIN g.nodes, NEW M \in SUBSET L,
           NEW u, UnlinkedFrom(u, g, L, M),
           NEW t \in DOMAIN g.nodes, t \in M \/ t \notin L,
           NEW r, r = Unlinked(u, t)
    PROVE  UnlinkedFrom(r, g, L, M \ {t})
<1>1. IsGraph(u) /\ SameButLinks(u, g) /\ DOMAIN u.nodes = DOMAIN g.nodes
  BY DEF UnlinkedFrom, SameButLinks
<1>2. DOMAIN g.nodes \subseteq Nat /\ 0 \notin DOMAIN g.nodes
  BY GraphParts
<1>3. PICK a, b : a = u.nodes[t].above /\ b = u.nodes[t].below
  OBVIOUS
<1>4. CASE t \notin L
  <2>1. a = 0 /\ b = 0
    BY <1>3, <1>4 DEF UnlinkedFrom
  <2>2. r = u
    BY <1>3, <2>1 DEF Unlinked
  <2>3. M \ {t} = M
    BY <1>4
  <2> QED
    BY <2>2, <2>3
<1>5. CASE t \in M
  <2>1. PICK S : S = InColumn(g, t) \intersect M
    OBVIOUS
  <2>2. t \in S /\ S \subseteq DOMAIN g.nodes /\ 0 \notin S /\ IsLinkedList(u, S)
    BY <1>2, <1>5, <2>1 DEF InColumn, UnlinkedFrom
  <2>3. a \in S \union {0} /\ b \in S \union {0}
    BY <1>3, <2>2 DEF IsLinkedList
  <2>4. a = 0 \/ b = 0 \/ Place(u.nodes[a]) = Place(u.nodes[b])
    <3>1. \A n \in S : Place(g.nodes[n]) = Place(g.nodes[t])
      BY <2>1 DEF InColumn, Column
    <3>2. \A n \in DOMAIN g.nodes : Place(u.nodes[n]) = Place(g.nodes[n])
      BY <1>1 DEF SameButLinks, Place
    <3> QED
      BY <2>2, <2>3, <3>1, <3>2
  <2>5. PICK up : up = IF a = 0 THEN u ELSE [u EXCEPT !.nodes[a].below = b]
    OBVIOUS
  <2>6. a \in DOMAIN g.nodes \union {0} /\ b \in DOMAIN g.nodes \union {0} /\ a \in Nat /\ b \in Nat
    BY <1>2, <2>2, <2>3
  <2>7. IsGraph(up) /\ BelowSet(up, u, a, b)
    BY <1>1, <2>5, <2>6, BelowReplaced
  <2>8. r = IF b = 0 THEN up ELSE [up EXCEPT !.nodes[b].above = a]
    <3>1. PICK joined : joined = (a = 0 \/ b = 0 \/ Place(u.nodes[a]) = Place(u.nodes[b]))
      OBVIOUS
    <3>2. PICK v : v = IF a = 0 THEN u ELSE [u EXCEPT !.nodes[a].below = IF joined THEN b ELSE 0]
      OBVIOUS
    <3>3. r = IF b = 0 THEN v ELSE [v EXCEPT !.nodes[b].above = IF joined THEN a ELSE 0]
      <4>1. r = UnlinkedBetween(u, u.nodes[t].above, u.nodes[t].below,
                                \/ u.nodes[t].above = 0 \/ u.nodes[t].below = 0
                                \/ Place(u.nodes[u.nodes[t].above]) = Place(u.nodes[u.nodes[t].below]))
        BY DEF Unlinked, UnlinkedBetween
      <4>2. r = UnlinkedBetween(u, a, b, joined)
        BY <1>3, <3>1, <4>1
      <4> QED
        BY <3>2, <4>2 DEF UnlinkedBetween
    <3>4. joined /\ v = up
      BY <2>4, <2>5, <3>1, <3>2
    <3> QED
      BY <3>3, <3>4
  <2>9. DOMAIN up.nodes = DOMAIN g.nodes
    BY <1>1, <2>7 DEF BelowSet, SameButLinks
  <2>10. IsGraph(r) /\ AboveSet(r, up, b, a)
    BY <2>6, <2>7, <2>8, <2>9, AboveReplaced
  <2>11. SameButLinks(r, g)
    BY <1>1, <2>7, <2>10 DEF BelowSet, AboveSet, SameButLinks
  <2>12. \A m \in DOMAIN g.nodes :
            /\ r.nodes[m].below = IF m = a THEN b ELSE u.nodes[m].below
            /\ r.nodes[m].above = IF m = b THEN a ELSE u.nodes[m].above
    BY <1>1, <2>7, <2>9, <2>10 DEF BelowSet, AboveSet
  <2>13. IsLinkedList(r, S \ {t})
    <3>1. PICK j \in Nat : DOMAIN g.nodes = 1..j
      BY GraphParts
    <3>2. IsFiniteSet(S)
      <4>1. IsFiniteSet(1..j) /\ S \in SUBSET (1..j)
        BY <2>2, <3>1, FS_Interval
      <4> QED
        BY <4>1, FS_Subset
    <3>3. PICK k : k = Cardinality(S \ {t})
      OBVIOUS
    <3>4. k \in Nat /\ Cardinality(S) = k + 1
      <4>1. IsFiniteSet(S \ {t}) /\ k = Cardinality(S) - 1
        BY <2>2, <3>2, <3>3, FS_RemoveElement
      <4>2. k \in Nat /\ Cardinality(S) \in Nat
        BY <3>2, <3>3, <4>1, FS_CardinalityType
      <4> QED
        BY <4>1, <4>2
    <3>5. PICK position : InPositions(u, S, k + 1, position)
      BY <2>2, <3>4, LinkedListPositions
    <3>6. TakenOut(r, u, S, t)
      BY <1>3, <2>2, <2>12 DEF TakenOut
    <3>7. \E q : InPositions(r, S \ {t}, k, q)
      BY <2>2, <3>4, <3>5, <3>6, TakenOutIsList
    <3> QED
      BY <3>3, <3>7, LinkedListPositions
  <2>14. ASSUME NEW n \in M \ {t}
         PROVE  IsLinkedList(r, InColumn(g, n) \intersect (M \ {t}))
    <3>1. CASE Column(g, n) = Column(g, t)
      <4>1. InColumn(g, n) = InColumn(g, t)
        BY <3>1 DEF InColumn
      <4>2. InColumn(g, n) \intersect (M \ {t}) = S \ {t}
        BY <2>1, <4>1
      <4> QED
        BY <2>13, <4>2
    <3>2. CASE Column(g, n) # Column(g, t)
      <4>1. PICK T : T = InColumn(g, n) \intersect M
        OBVIOUS
      <4>2. \A m \in InColumn(g, n) : m \notin InColumn(g, t)
        BY <3>2 DEF InColumn
      <4>3. t \in InColumn(g, t) /\ T \subseteq DOMAIN g.nodes
        BY <4>1 DEF InColumn
      <4>4. InColumn(g, n) \intersect (M \ {t}) = T
        BY <4>1, <4>2, <4>3
      <4>5. \A m \in T : m # a /\ m # b
        BY <1>2, <2>1, <2>3, <4>1, <4>2, <4>3
      <4>6. \A m \in T : r.nodes[m].above = u.nodes[m].above /\ r.nodes[m].below = u.nodes[m].below
        BY <2>12, <4>3, <4>5
      <4>7. IsLinkedList(u, T)
        BY <4>1 DEF UnlinkedFrom
      <4>8. IsLinkedList(r, T)
        BY <4>6, <4>7, SameLinksSameList
      <4> QED
        BY <4>4, <4>8
    <3> QED
      BY <3>1, <3>2
  <2>15. \A n \in DOMAIN g.nodes \ L : r.nodes[n].above = 0 /\ r.nodes[n].below = 0
    <3>1. \A n \in DOMAIN g.nodes \ L : n # a /\ n # b
      BY <1>2, <2>1, <2>3
    <3> QED
      BY <2>12, <3>1 DEF UnlinkedFrom
  <2>16. ASSUME NEW n \in M \ {t}
         PROVE  /\ g.nodes[n].above \in M \ {t} => r.nodes[n].above = g.nodes[n].above
                /\ g.nodes[n].below \in M \ {t} => r.nodes[n].below = g.nodes[n].below
    <3>1. /\ g.nodes[n].above \in M => u.nodes[n].above = g.nodes[n].above
          /\ g.nodes[n].below \in M => u.nodes[n].below = g.nodes[n].below
      BY DEF UnlinkedFrom
    <3>2. \A p, q \in S : u.nodes[p].below = q <=> u.nodes[q].above = p
      BY <2>2 DEF IsLinkedList
    <3>3. n # 0 /\ n \in DOMAIN g.nodes
      BY <1>2
    <3>4. (n = b => u.nodes[n].above = t) /\ (n = a => u.nodes[n].below = t)
      BY <1>3, <2>2, <2>3, <3>2, <3>3
    <3> QED
      BY <2>12, <3>1, <3>3, <3>4
  <2> QED
    BY <2>10, <2>11, <2>14, <2>15, <2>16 DEF UnlinkedFrom
<1> QED
  BY <1>4, <1>5

(* One after the other the temporary nodes leave their columns.             *)
LEMMA TemporariesUnlinked ==
    ASSUME IsGraph(graph), NEW k \in Nat, k = Len(before.nodes), NEW j \in Nat, j = Len(graph.nodes),
           k <= j, NEW L \in SUBSET DOMAIN graph.nodes, LinksHold(graph, L),
           NEW u, u = WithoutTemporaries
    PROVE  UnlinkedFrom(u, graph, L, L \ ((k + 1)..j))
<1>a. j - k \in Nat
  OBVIOUS
<1>b. DOMAIN graph.nodes = 1..j
  BY GraphParts
<1>1. PICK m \in Nat : m = j - k
  BY <1>a
<1> DEFINE unlink(i, x) == Unlinked(x, k + i)
           M(i) == L \ ((k + 1)..(k + i))
           U == GraphsOn(DOMAIN graph.lanes)
           G == [i \in 0..m |-> {x \in U : UnlinkedFrom(x, graph, L, M(i))}]
           Is(unlinked) == unlinked = [i \in 0..m |-> IF i = 0 THEN graph
                                                      ELSE Unlinked(unlinked[i - 1], k + i)]
           next == [i \in 1..m |-> [x \in U |-> unlink(i, x)]]
<1>2. /\ \A i \in 0..m : \A x : x \in G[i] <=> x \in U /\ UnlinkedFrom(x, graph, L, M(i))
      /\ \A i \in 1..m : i \in 0..m /\ i - 1 \in 0..m /\ i # 0
  OBVIOUS
<1>3. \A x : x \in U <=> IsGraph(x) /\ DOMAIN x.lanes = DOMAIN graph.lanes
  <2>1. PICK P : P = DOMAIN graph.lanes
    OBVIOUS
  <2> QED
    BY <2>1, GraphsOnLanes
<1>4. ASSUME NEW i \in 1..m, NEW x \in G[i - 1]
      PROVE  unlink(i, x) \in G[i]
  <2>1. PICK t, S, T, r : t = k + i /\ S = M(i - 1) /\ T = M(i) /\ r = Unlinked(x, t)
    OBVIOUS
  <2>2. UnlinkedFrom(x, graph, L, S)
    BY <1>2, <2>1
  <2>3. t \in DOMAIN graph.nodes
    <3>1. t = k + i
      BY <2>1
    <3>2. i \in 1..m
      OBVIOUS
    <3> HIDE DEF G
    <3>3. t \in 1..j
      BY <1>1, <3>1, <3>2
    <3> QED
      BY <1>b, <3>3
  <2>4. S \subseteq L /\ (t \in S \/ t \notin L) /\ S \ {t} = T
    <3>1. /\ t \notin (k + 1)..(k + (i - 1))
          /\ (k + 1)..(k + i) = ((k + 1)..(k + (i - 1))) \union {t}
      <4>1. k \in Nat /\ i \in Nat /\ i >= 1 /\ t = k + i
        BY <2>1
      <4> HIDE DEF G, M
      <4> QED
        BY <4>1
    <3> QED
      BY <2>1, <3>1
  <2>5. UnlinkedFrom(r, graph, L, S \ {t})
    BY <2>1, <2>2, <2>3, <2>4, UnlinkOne
  <2>6. IsGraph(r) /\ DOMAIN r.lanes = DOMAIN graph.lanes
    BY <2>5 DEF UnlinkedFrom, SameButLinks
  <2>7. r \in U /\ UnlinkedFrom(r, graph, L, T)
    BY <1>3, <2>4, <2>5, <2>6
  <2> QED
    BY <1>2, <2>1, <2>7
<1>5. graph \in G[0]
  <2>1. M(0) = L
    OBVIOUS
  <2>2. SameButLinks(graph, graph)
    BY DEF SameButLinks
  <2>3. UnlinkedFrom(graph, graph, L, L)
    BY <2>2 DEF UnlinkedFrom, LinksHold
  <2>4. 0 \in 0..m /\ graph \in U
    BY <1>1, <1>3
  <2> QED
    BY <1>2, <2>1, <2>3, <2>4
<1> HIDE DEF M, U
<1>6. \A i \in 1..m : \A x \in G[i - 1] : next[i][x] = unlink(i, x)
  BY <1>2
<1> HIDE DEF G, next
<1>7. \E unlinked : Is(unlinked) /\ \A i \in 0..m : unlinked[i] \in G[i]
  <2>1. Stages(m, G, graph, next)
    BY <1>4, <1>5, <1>6 DEF Stages
  <2>2. PICK unlinked : unlinked \in UnfoldedIn(m, G, graph, next)
    BY <2>1, StagesUnfold
  <2>3. /\ DOMAIN unlinked = 0..m /\ unlinked = [i \in 0..m |-> unlinked[i]]
        /\ \A i \in 0..m : /\ unlinked[i] \in G[i]
                           /\ unlinked[i] = IF i = 0 THEN graph ELSE next[i][unlinked[i - 1]]
    BY <2>2 DEF UnfoldedIn
  <2>4. \A i \in 0..m : unlinked[i] = IF i = 0 THEN graph ELSE unlink(i, unlinked[i - 1])
    <3>1. \A i \in 0..m : i # 0 => i \in 1..m /\ i - 1 \in 0..m
      OBVIOUS
    <3> HIDE DEF unlink
    <3> QED
      BY <1>6, <2>3, <3>1
  <2>5. Is(unlinked)
    BY <2>3, <2>4
  <2> HIDE DEF Is
  <2> QED
    BY <2>3, <2>5
<1>8. PICK unlinked : Is(unlinked) /\ u = unlinked[m]
  <2>1. u = (CHOOSE unlinked : Is(unlinked))[m]
    BY <1>1 DEF WithoutTemporaries
  <2> HIDE DEF Is
  <2> QED
    BY <1>7, <2>1
<1>9. unlinked[0] = graph /\ \A i \in 1..m : unlinked[i] = unlink(i, unlinked[i - 1])
  <2>1. \A i \in 0..m : unlinked[i] = IF i = 0 THEN graph ELSE unlink(i, unlinked[i - 1])
    BY <1>8
  <2>2. 0 \in 0..m
    BY <1>1
  <2> HIDE DEF unlink
  <2> QED
    BY <1>2, <2>1, <2>2
<1> HIDE DEF unlink, Is
<1>10. \A i \in 0..m : unlinked[i] \in G[i]
  <2>1. \A i \in 1..m : unlinked[i - 1] \in G[i - 1] => unlinked[i] \in G[i]
    BY <1>4, <1>9
  <2>2. unlinked[0] \in G[0]
    BY <1>5, <1>9
  <2> QED
    BY <2>1, <2>2, StagesHold
<1>11. UnlinkedFrom(u, graph, L, M(m))
  <2>1. m \in 0..m
    BY <1>1
  <2> QED
    BY <1>2, <1>8, <1>10, <2>1
<1>12. M(m) = L \ ((k + 1)..j)
  BY <1>1 DEF M
<1> QED
  BY <1>11, <1>12

(* What is cut off is at the end.                                           *)
LEMMA TruncatedEffect ==
    ASSUME NEW g, IsGraph(g), NEW k \in Nat, k = Len(before.nodes), k <= Len(g.nodes),
           NEW S, saved \in Seq(S), NEW r, r = Truncated(g)
    PROVE  /\ IsGraph(r) /\ r.numLayers = g.numLayers
           /\ DOMAIN r.nodes = 1..k /\ Len(r.nodes) = k
           /\ \A n \in 1..k : n \in DOMAIN g.nodes /\ r.nodes[n] = g.nodes[n]
<1>1. PICK N, E, P, L : N = GraphNodes /\ E = GraphEdges /\ P = DOMAIN g.lanes /\ L = Seq(Nat)
  OBVIOUS
<1>2. g \in [nodes : Seq(N), edges : Seq(E), lanes : [P -> L], numLayers : Nat]
  BY <1>1 DEF IsGraph
<1>3. PICK s \in Seq(N), t \in Seq(E) : s = g.nodes /\ t = g.edges
  <2>1. g.nodes \in Seq(N) /\ g.edges \in Seq(E)
    BY <1>2
  <2> QED
    BY <2>1
<1>4. PICK left : left = {i \in DOMAIN saved : g.nodes[saved[i].edge.to].layer > 0}
  OBVIOUS
<1>5. Cardinality(left) \in Nat
  <2>1. PICK m \in Nat : m = Len(saved) /\ DOMAIN saved = 1..m
    OBVIOUS
  <2>2. IsFiniteSet(1..m) /\ left \in SUBSET (1..m)
    BY <1>4, <2>1, FS_Interval
  <2> QED
    BY <2>2, FS_Subset, FS_CardinalityType
<1>6. PICK c, l, e : c = Cardinality(left) /\ l = Len(saved) /\ e = Len(t)
  OBVIOUS
<1>7. c \in Nat /\ l \in Nat /\ e \in Nat
  BY <1>5, <1>6
<1>8. PICK retain : retain = e - l - 2 * c
  OBVIOUS
<1>9. retain \in Int /\ retain <= e
  BY <1>7, <1>8
<1>10. PICK nodes, edges : nodes = SubSeq(s, 1, k) /\ edges = SubSeq(t, 1, retain)
  OBVIOUS
<1>11. r = [g EXCEPT !.nodes = nodes, !.edges = edges]
  BY <1>3, <1>4, <1>6, <1>8, <1>10 DEF Truncated
<1>12. /\ nodes \in Seq(N) /\ Len(nodes) = k /\ DOMAIN nodes = 1..k
       /\ \A n \in 1..k : n \in DOMAIN s /\ nodes[n] = s[n]
  <2>1. k \in Int /\ \A n \in 1..k : s[n] \in N /\ n \in DOMAIN s
    BY <1>3
  <2>2. /\ nodes \in Seq(N) /\ Len(nodes) = IF 1 <= k THEN k - 1 + 1 ELSE 0
        /\ \A n \in 1..(k - 1 + 1) : nodes[n] = s[1 + n - 1]
    BY <1>10, <2>1, SubSeqProperties
  <2>3. Len(nodes) = k
    BY <2>2
  <2>4. DOMAIN nodes = 1..k
    BY <2>2, <2>3
  <2>5. \A n \in 1..k : nodes[n] = s[n]
    BY <2>2
  <2> QED
    BY <2>1, <2>2, <2>3, <2>4, <2>5
<1>13. edges \in Seq(E)
  <2>1. \A n \in 1..retain : t[n] \in E
    BY <1>6, <1>9
  <2> QED
    BY <1>9, <1>10, <2>1, SubSeqProperties
<1>14. /\ r \in [nodes : Seq(N), edges : Seq(E), lanes : [P -> L], numLayers : Nat]
       /\ r.nodes = nodes /\ r.lanes = g.lanes /\ r.numLayers = g.numLayers
  BY <1>2, <1>11, <1>12, <1>13
<1>15. IsGraph(r)
  BY <1>1, <1>14 DEF IsGraph
<1> QED
  BY <1>3, <1>12, <1>14, <1>15

(* The undo keeps the invariant.                                            *)
LEMMA UndoKeeps ==
    ASSUME CrossingInv, Undo
    PROVE  CrossingInv'
<1>1. phase = "undo" /\ InvAt(graph, before, "undo", at, saved)
  BY CrossingInvIn DEF Undo, CrossingPhases
<1>2. /\ IsGraph(graph) /\ IsGraph(before) /\ at \in Nat /\ at >= 1 /\ saved \in SavedEdges(before)
      /\ KeptAt(graph, before, "undo") /\ LinksHold(graph, LinkedIn(graph, "undo", at))
  BY <1>1 DEF InvAt
<1>3. PICK k \in Nat : k = Len(before.nodes) /\ DOMAIN before.nodes = 1..k
  BY <1>2, GraphParts
<1>4. PICK j \in Nat : j = Len(graph.nodes) /\ DOMAIN graph.nodes = 1..j
  BY <1>2, GraphParts
<1>5. k <= j /\ EndsExist(before)
  BY <1>2, <1>3, <1>4 DEF KeptAt
<1>6. PICK S : S = [id : DOMAIN before.edges, edge : ToSet(before.edges)]
  OBVIOUS
<1>7. saved \in Seq(S)
  BY <1>2, <1>6 DEF SavedEdges
<1>8. CASE /\ at <= Len(saved) /\ graph' = Restored(graph, saved[at].id, saved[at].edge)
           /\ at' = at + 1 /\ UNCHANGED <<parsed, phase, before, saved>>
  <2>1. at \in DOMAIN saved
    BY <1>2, <1>7, <1>8
  <2>2. PICK id, edge : id = saved[at].id /\ edge = saved[at].edge
    OBVIOUS
  <2>3. id \in Nat /\ edge \in GraphEdges /\ edge.from \in DOMAIN graph.nodes /\ edge.to \in DOMAIN graph.nodes
    BY <1>2, <1>3, <1>4, <1>5, <2>1, <2>2, SavedEdgesFit
  <2>4. PICK r : r = Restored(graph, id, edge)
    OBVIOUS
  <2>5. IsGraph(r) /\ SameButLists(r, graph)
    BY <1>2, <2>3, <2>4, RestoredKeeps
  <2>6. InvAt(r, before, "undo", at + 1, saved)
    BY <1>1, <2>5, RelistingKeeps DEF SameButLists
  <2> QED
    BY <1>1, <1>8, <2>2, <2>4, <2>6, CrossingInvIn
<1>9. CASE /\ graph' = Truncated(WithoutTemporaries) /\ phase' = "edges" /\ at' = 1
           /\ UNCHANGED <<parsed, before, saved>>
  <2>1. PICK L, M : L = LinkedIn(graph, "undo", at) /\ M = L \ ((k + 1)..j)
    OBVIOUS
  <2>2. L \subseteq DOMAIN graph.nodes /\ 1..k \subseteq L /\ M = 1..k
    <3>1. L = {n \in DOMAIN graph.nodes : graph.nodes[n].layer < graph.numLayers}
      BY <2>1 DEF LinkedIn
    <3>2. \A n \in 1..k : n \in DOMAIN graph.nodes /\ graph.nodes[n].layer < graph.numLayers
      BY <1>2, <1>3, <1>4, <1>5 DEF KeptAt
    <3>3. \A n \in 1..j : n \in 1..k <=> n \notin (k + 1)..j
      OBVIOUS
    <3>4. \A n \in M : n \in 1..k
      BY <1>4, <2>1, <3>1, <3>3
    <3>5. \A n \in 1..k : n \in M
      BY <1>4, <2>1, <3>1, <3>2, <3>3
    <3> QED
      BY <3>1, <3>2, <3>4, <3>5
  <2>3. PICK u : u = WithoutTemporaries
    OBVIOUS
  <2>4. UnlinkedFrom(u, graph, L, M)
    BY <1>2, <1>3, <1>4, <1>5, <2>1, <2>2, <2>3, TemporariesUnlinked
  <2>5. IsGraph(u) /\ SameButLinks(u, graph) /\ Len(u.nodes) = j /\ DOMAIN u.nodes = 1..j
    BY <1>4, <2>4 DEF UnlinkedFrom, SameButLinks
  <2>6. PICK r : r = Truncated(u)
    OBVIOUS
  <2>7. /\ IsGraph(r) /\ r.numLayers = u.numLayers
        /\ DOMAIN r.nodes = 1..k /\ Len(r.nodes) = k
        /\ \A n \in 1..k : n \in DOMAIN u.nodes /\ r.nodes[n] = u.nodes[n]
    BY <1>3, <1>5, <1>7, <2>5, <2>6, TruncatedEffect
  <2>8. \A n \in 1..k : r.nodes[n].layer = graph.nodes[n].layer /\ Place(r.nodes[n]) = Place(graph.nodes[n])
    <3>1. \A n \in DOMAIN graph.nodes : /\ u.nodes[n].layer = graph.nodes[n].layer
                                         /\ Place(u.nodes[n]) = Place(graph.nodes[n])
      BY <2>5 DEF SameButLinks, Place
    <3>2. DOMAIN u.nodes = DOMAIN graph.nodes
      BY <1>4, <2>5
    <3> QED
      BY <2>7, <3>1, <3>2
  <2>9. \A n \in 1..k : r.nodes[n].layer < r.numLayers
    <3>1. \A n \in 1..k : n \in DOMAIN graph.nodes /\ graph.nodes[n].layer < graph.numLayers
      BY <1>2, <1>3, <1>4, <1>5 DEF KeptAt
    <3> QED
      BY <2>5, <2>7, <2>8, <3>1 DEF SameButLinks
  <2>10. KeptAt(r, before, "edges")
    BY <1>3, <1>5, <2>7, <2>9 DEF KeptAt
  <2>11. LinkedIn(r, "edges", 1) = 1..k
    BY <2>7, <2>9 DEF LinkedIn
  <2>12. ASSUME NEW n \in 1..k
         PROVE  IsLinkedList(r, InColumn(r, n) \intersect (1..k))
    <3>1. PICK T : T = InColumn(graph, n) \intersect M
      OBVIOUS
    <3>2. InColumn(r, n) \intersect (1..k) = T
      <4>1. \A m \in 1..k : m \in DOMAIN graph.nodes /\ Column(r, m) = Column(graph, m)
        BY <1>4, <1>5, <2>8 DEF Column
      <4> QED
        BY <2>2, <2>7, <3>1, <4>1 DEF InColumn
    <3>3. IsLinkedList(u, T)
      BY <2>2, <2>4, <3>1 DEF UnlinkedFrom
    <3>4. \A m \in T : r.nodes[m].above = u.nodes[m].above /\ r.nodes[m].below = u.nodes[m].below
      BY <2>2, <2>7, <3>1
    <3>5. IsLinkedList(r, T)
      BY <3>3, <3>4, SameLinksSameList
    <3> QED
      BY <3>2, <3>5
  <2>13. LinksHold(r, LinkedIn(r, "edges", 1))
    BY <2>7, <2>11, <2>12 DEF LinksHold
  <2>14. InvAt(r, before, "edges", 1, saved)
    BY <1>2, <2>7, <2>10, <2>13 DEF InvAt, CrossingPhases
  <2> QED
    BY <1>9, <2>3, <2>6, <2>14, CrossingInvIn
<1> QED
  BY <1>1, <1>8, <1>9 DEF Undo

-----------------------------------------------------------------------------
(* temporarily_add_dummy_nodes_for_edges_within_same_layer() *)

(* A node that has been added to reroute an edge.                           *)
IsTemporary(node) == node.kind = "Dummy" /\ node.above = 0 /\ node.below = 0

(* Those of two nodes that were there before are ends of edge a.            *)
JoinsEnds(g, a, from, to) ==
    {from, to} \intersect DOMAIN g.nodes \subseteq {g.edges[a].from, g.edges[a].to}

(* Graph g after some of the changes that reroute edge a.                   *)
Extended(r, g, a) ==
    /\ IsGraph(r) /\ EndsExist(r) /\ LanesComplete(r) /\ MirroredBut(r, 0)
    /\ r.numLayers = g.numLayers /\ DOMAIN r.lanes = DOMAIN g.lanes
    /\ Len(g.nodes) <= Len(r.nodes) /\ Len(g.edges) <= Len(r.edges)
    /\ \A n \in DOMAIN g.nodes : SameNode(r.nodes[n], g.nodes[n])
    /\ \A n \in DOMAIN r.nodes \ DOMAIN g.nodes : IsTemporary(r.nodes[n])
    /\ \A d \in DOMAIN g.edges \ {a} : r.edges[d] = g.edges[d]
    /\ r.edges[a].from = g.edges[a].from /\ r.edges[a].type = g.edges[a].type
    /\ \A d \in DOMAIN r.edges \ DOMAIN g.edges : JoinsEnds(g, a, r.edges[d].from, r.edges[d].to)

(* A temporary node more.                                                   *)
LEMMA NodeGrows ==
    ASSUME NEW g, IsGraph(g), NEW a, NEW r, Extended(r, g, a),
           NEW place \in Nat \X Nat, place \in DOMAIN g.lanes, NEW layer \in Nat,
           NEW s, s = AddNode(r, "Dummy", place, layer)
    PROVE  Extended(s, g, a) /\ s.edges = r.edges /\ Len(s.nodes) = Len(r.nodes) + 1
<1>1. PICK m \in Nat : m = Len(r.nodes) /\ DOMAIN r.nodes = 1..m
  BY GraphParts DEF Extended
<1>2. PICK k \in Nat : k = Len(g.nodes) /\ DOMAIN g.nodes = 1..k
  BY GraphParts
<1>3. k <= m
  BY <1>1, <1>2 DEF Extended
<1>4. IsGraph(r) /\ EndsExist(r) /\ LanesComplete(r) /\ MirroredBut(r, 0) /\ place \in DOMAIN r.lanes
  BY DEF Extended
<1>5. IsGraph(s) /\ NodeAdded(s, r, "Dummy", place, layer)
  BY <1>4, AddNodeEffect
<1>6. EndsExist(s) /\ LanesComplete(s) /\ MirroredBut(s, 0)
  BY <1>4, <1>5, AddNodeKeeps
<1>7. PICK node : node = NewNode("Dummy", place, layer)
  OBVIOUS
<1>8. node \in GraphNodes /\ IsTemporary(node)
  <2>1. IsNewNode(node, "Dummy", place, layer)
    BY <1>7, NewNodeIsNode
  <2> QED
    BY <2>1 DEF IsNewNode, IsTemporary
<1>9. /\ s.nodes = Append(r.nodes, node) /\ s.edges = r.edges /\ s.numLayers = r.numLayers
      /\ DOMAIN s.lanes = DOMAIN r.lanes
  BY <1>5, <1>7 DEF NodeAdded
<1>10. /\ DOMAIN s.nodes = 1..(m + 1) /\ Len(s.nodes) = m + 1 /\ s.nodes[m + 1] = node
       /\ \A n \in 1..m : s.nodes[n] = r.nodes[n]
  <2>1. PICK T : T = GraphNodes
    OBVIOUS
  <2>2. r.nodes \in Seq(T) /\ node \in T
    BY <1>4, <1>8, <2>1, GraphParts
  <2> QED
    BY <1>1, <1>9, <2>2
<1>11. \A n \in DOMAIN g.nodes : SameNode(s.nodes[n], g.nodes[n])
  <2>1. \A n \in 1..k : n \in 1..m
    BY <1>3
  <2> QED
    BY <1>2, <1>10, <2>1 DEF Extended
<1>12. \A n \in DOMAIN s.nodes \ DOMAIN g.nodes : IsTemporary(s.nodes[n])
  <2>1. \A n \in 1..(m + 1) : n = m + 1 \/ n \in 1..m
    OBVIOUS
  <2> QED
    BY <1>1, <1>8, <1>10, <2>1 DEF Extended
<1>13. Len(g.nodes) <= Len(s.nodes)
  BY <1>2, <1>3, <1>10
<1> QED
  BY <1>1, <1>5, <1>6, <1>9, <1>10, <1>11, <1>12, <1>13 DEF Extended

(* An edge more, which reaches no other node than the ends of edge a.       *)
HasEdgeMore(s, r, edge) ==
    /\ DOMAIN s.nodes = DOMAIN r.nodes /\ Len(s.edges) = Len(r.edges) + 1
    /\ s.edges[Len(r.edges) + 1] = edge
    /\ \A d \in DOMAIN r.edges : d \in DOMAIN s.edges /\ s.edges[d] = r.edges[d]

LEMMA EdgeGrows ==
    ASSUME NEW g, IsGraph(g), NEW a \in DOMAIN g.edges, NEW r, Extended(r, g, a),
           NEW edge \in GraphEdges, edge.type # "Replaced",
           edge.from \in DOMAIN r.nodes, edge.to \in DOMAIN r.nodes,
           JoinsEnds(g, a, edge.from, edge.to),
           NEW s, s = AddEdge(r, edge)
    PROVE  Extended(s, g, a) /\ HasEdgeMore(s, r, edge)
<1>1. PICK m \in Nat : m = Len(r.edges) /\ DOMAIN r.edges = 1..m
  BY GraphParts DEF Extended
<1>2. PICK k \in Nat : k = Len(g.edges) /\ DOMAIN g.edges = 1..k
  BY GraphParts
<1>3. k <= m
  BY <1>1, <1>2 DEF Extended
<1>4. IsGraph(r) /\ EndsExist(r) /\ LanesComplete(r) /\ MirroredBut(r, 0)
  BY DEF Extended
<1>5. IsGraph(s) /\ EdgeAdded(s, r, edge)
  BY <1>4, AddEdgeEffect
<1>6. EndsExist(s) /\ SamePlaces(s, r)
  BY <1>4, <1>5, AddEdgeEnds
<1>7. MirroredBut(s, 0)
  BY <1>4, <1>5, AddEdgeMirrored
<1>8. LanesComplete(s)
  BY <1>4, <1>6, SamePlacesKeepLanes
<1>9. /\ DOMAIN s.edges = 1..(m + 1) /\ Len(s.edges) = m + 1 /\ s.edges[m + 1] = edge
      /\ \A d \in 1..m : s.edges[d] = r.edges[d]
  <2>1. PICK T : T = GraphEdges
    OBVIOUS
  <2>2. r.edges \in Seq(T) /\ edge \in T /\ s.edges = Append(r.edges, edge)
    BY <1>4, <1>5, <2>1, GraphParts DEF EdgeAdded
  <2> QED
    BY <1>1, <2>2
<1>10. /\ DOMAIN s.nodes = DOMAIN r.nodes /\ Len(s.nodes) = Len(r.nodes)
       /\ s.numLayers = r.numLayers /\ DOMAIN s.lanes = DOMAIN r.lanes
       /\ \A n \in DOMAIN r.nodes : SameNode(s.nodes[n], r.nodes[n])
  BY <1>5 DEF EdgeAdded
<1>11. \A n \in DOMAIN g.nodes : SameNode(s.nodes[n], g.nodes[n])
  <2>1. DOMAIN g.nodes \subseteq DOMAIN r.nodes
    <3>1. /\ DOMAIN g.nodes = 1..Len(g.nodes) /\ DOMAIN r.nodes = 1..Len(r.nodes)
          /\ Len(g.nodes) \in Nat /\ Len(r.nodes) \in Nat /\ Len(g.nodes) <= Len(r.nodes)
      BY <1>4, GraphParts DEF Extended
    <3>2. PICK i, j : i = Len(g.nodes) /\ j = Len(r.nodes)
      OBVIOUS
    <3>3. i \in Nat /\ j \in Nat /\ i <= j
      BY <3>1, <3>2
    <3>4. 1..i \subseteq 1..j
      BY <3>3
    <3> QED
      BY <3>1, <3>2, <3>4
  <2>2. ASSUME NEW n \in DOMAIN g.nodes
        PROVE  SameNode(s.nodes[n], g.nodes[n])
    <3>1. SameNode(s.nodes[n], r.nodes[n]) /\ SameNode(r.nodes[n], g.nodes[n])
      BY <1>10, <2>1 DEF Extended
    <3> QED
      BY <3>1 DEF SameNode
  <2> QED
    BY <2>2
<1>12. \A n \in DOMAIN s.nodes \ DOMAIN g.nodes : IsTemporary(s.nodes[n])
  <2>1. ASSUME NEW n \in DOMAIN s.nodes \ DOMAIN g.nodes
        PROVE  IsTemporary(s.nodes[n])
    <3>1. SameNode(s.nodes[n], r.nodes[n]) /\ IsTemporary(r.nodes[n])
      BY <1>10 DEF Extended
    <3> QED
      BY <3>1 DEF IsTemporary, SameNode
  <2> QED
    BY <2>1
<1>13. a \in 1..m /\ \A d \in 1..k : d \in 1..m
  BY <1>2, <1>3
<1>14. /\ \A d \in DOMAIN g.edges \ {a} : s.edges[d] = g.edges[d]
       /\ s.edges[a].from = g.edges[a].from /\ s.edges[a].type = g.edges[a].type
  BY <1>2, <1>9, <1>13 DEF Extended
<1>15. ASSUME NEW d \in DOMAIN s.edges \ DOMAIN g.edges
       PROVE  JoinsEnds(g, a, s.edges[d].from, s.edges[d].to)
  <2>1. CASE d = m + 1
    BY <1>9, <2>1
  <2>2. CASE d # m + 1
    <3>1. d \in 1..m
      BY <1>9, <2>2
    <3> QED
      BY <1>1, <1>9, <3>1 DEF Extended
  <2> QED
    BY <2>1, <2>2
<1>16. Len(g.edges) <= Len(s.edges)
  BY <1>2, <1>3, <1>9
<1>17. Extended(s, g, a)
  BY <1>5, <1>6, <1>7, <1>8, <1>10, <1>11, <1>12, <1>14, <1>15, <1>16 DEF Extended
<1>18. \A d \in 1..m : d \in 1..(m + 1)
  OBVIOUS
<1> QED
  BY <1>1, <1>9, <1>10, <1>17, <1>18 DEF HasEdgeMore

(* What leading an edge to another node does, field by field.               *)
EdgeRedirected(r, g, e, n) ==
    /\ r.lanes = g.lanes /\ r.numLayers = g.numLayers
    /\ DOMAIN r.nodes = DOMAIN g.nodes /\ Len(r.nodes) = Len(g.nodes)
    /\ DOMAIN r.edges = DOMAIN g.edges /\ Len(r.edges) = Len(g.edges)
    /\ r.edges[e].to = n /\ r.edges[e].from = g.edges[e].from /\ r.edges[e].type = g.edges[e].type
    /\ \A d \in DOMAIN g.edges \ {e} : r.edges[d] = g.edges[d]
    /\ \A m \in DOMAIN g.nodes :
          /\ SameNode(r.nodes[m], g.nodes[m])
          /\ r.nodes[m].outgoing = g.nodes[m].outgoing
          /\ r.nodes[m].incoming = IF m = g.edges[e].to THEN Dropped(g.nodes[m].incoming, e)
                                   ELSE IF m = n THEN Append(g.nodes[m].incoming, e)
                                   ELSE g.nodes[m].incoming

LEMMA RedirectedEffect ==
    ASSUME NEW g, IsGraph(g), NEW e \in DOMAIN g.edges,
           NEW to \in DOMAIN g.nodes, to = g.edges[e].to, NEW n \in DOMAIN g.nodes, n # to,
           NEW r, r = Redirected(g, e, n)
    PROVE  IsGraph(r) /\ EdgeRedirected(r, g, e, n)
<1>1. PICK edge : edge = [g.edges[e] EXCEPT !.to = n]
  OBVIOUS
<1>2. /\ edge \in GraphEdges /\ edge.to = n
      /\ edge.from = g.edges[e].from /\ edge.type = g.edges[e].type
  <2>1. g.edges[e] \in GraphEdges /\ n \in Nat
    BY GraphParts
  <2> QED
    BY <1>1, <2>1 DEF GraphEdges
<1>3. PICK h : h = [g EXCEPT !.edges[e] = edge]
  OBVIOUS
<1>4. IsGraph(h) /\ h.nodes = g.nodes /\ h.lanes = g.lanes /\ h.numLayers = g.numLayers
  BY <1>2, <1>3, EdgeReplaced
<1>5. /\ DOMAIN h.edges = DOMAIN g.edges /\ Len(h.edges) = Len(g.edges) /\ h.edges[e] = edge
      /\ \A d \in DOMAIN g.edges \ {e} : h.edges[d] = g.edges[d]
  <2>1. PICK N, E, L : N = Seq(GraphNodes) /\ E = GraphEdges /\ L = [DOMAIN g.lanes -> Seq(Nat)]
    OBVIOUS
  <2>2. g \in [nodes : N, edges : Seq(E), lanes : L, numLayers : Nat]
    BY <2>1 DEF IsGraph
  <2>3. PICK s \in Seq(E) : s = g.edges
    BY <2>2
  <2>4. PICK t : t = [s EXCEPT ![e] = edge]
    OBVIOUS
  <2>5. h.edges = t
    BY <1>3, <2>2, <2>3, <2>4
  <2>6. e \in DOMAIN s /\ edge \in E
    BY <1>2, <2>1, <2>3
  <2>7. DOMAIN t = DOMAIN s /\ Len(t) = Len(s) /\ t[e] = edge /\ \A d \in DOMAIN s \ {e} : t[d] = s[d]
    BY <2>4, <2>6
  <2> QED
    BY <2>3, <2>5, <2>7
<1>6. PICK l1 : l1 = Dropped(g.nodes[to].incoming, e)
  OBVIOUS
<1>7. PICK h1 : h1 = [h EXCEPT !.nodes[to].incoming = l1]
  OBVIOUS
<1>8. IsGraph(h1) /\ RelistedAt(h1, h, to, l1, h.nodes[to].outgoing)
  <2>1. g.nodes[to].incoming \in Seq(Nat)
    BY NodeLists
  <2>2. l1 \in Seq(Nat)
    BY <1>6, <2>1, CountDropped
  <2>3. to \in DOMAIN h.nodes
    BY <1>4
  <2> QED
    BY <1>4, <1>7, <2>2, <2>3, IncomingReplaced
<1>9. PICK l2 : l2 = Append(h1.nodes[n].incoming, e)
  OBVIOUS
<1>10. h1.nodes[n].incoming = g.nodes[n].incoming /\ n \in DOMAIN h1.nodes
  BY <1>4, <1>8 DEF RelistedAt
<1>11. r = [h1 EXCEPT !.nodes[n].incoming = l2]
  <2>1. h = [g EXCEPT !.edges[e].to = n]
    BY <1>1, <1>3
  <2>2. h1 = [h EXCEPT !.nodes[g.edges[e].to].incoming = Dropped(h.nodes[g.edges[e].to].incoming, e)]
    BY <1>4, <1>6, <1>7
  <2>3. r = [h1 EXCEPT !.nodes[n].incoming = Append(h1.nodes[n].incoming, e)]
    BY <2>1, <2>2 DEF Redirected
  <2> QED
    BY <1>9, <2>3
<1>12. IsGraph(r) /\ RelistedAt(r, h1, n, l2, h1.nodes[n].outgoing)
  <2>1. h1.nodes[n].incoming \in Seq(Nat)
    BY <1>8, <1>10, NodeLists
  <2>2. e \in Nat
    BY GraphParts
  <2>3. l2 \in Seq(Nat)
    BY <1>9, <2>1, <2>2
  <2> QED
    BY <1>8, <1>10, <1>11, <2>3, IncomingReplaced
<1>13. /\ r.edges = h.edges /\ r.lanes = g.lanes /\ r.numLayers = g.numLayers
       /\ DOMAIN r.nodes = DOMAIN g.nodes /\ Len(r.nodes) = Len(g.nodes)
  BY <1>4, <1>8, <1>12 DEF RelistedAt
<1>14. ASSUME NEW m \in DOMAIN g.nodes
       PROVE  /\ SameNode(r.nodes[m], g.nodes[m])
              /\ r.nodes[m].outgoing = g.nodes[m].outgoing
              /\ r.nodes[m].incoming = IF m = to THEN l1 ELSE IF m = n THEN l2 ELSE g.nodes[m].incoming
  <2>1. /\ SameNode(r.nodes[m], h1.nodes[m]) /\ SameNode(h1.nodes[m], g.nodes[m])
        /\ r.nodes[m].outgoing = g.nodes[m].outgoing
        /\ r.nodes[m].incoming = IF m = to THEN l1 ELSE IF m = n THEN l2 ELSE g.nodes[m].incoming
    BY <1>4, <1>8, <1>12 DEF RelistedAt
  <2>2. SameNode(r.nodes[m], g.nodes[m])
    BY <2>1 DEF SameNode
  <2> QED
    BY <2>1, <2>2
<1>15. /\ r.edges[e].to = n /\ r.edges[e].from = g.edges[e].from /\ r.edges[e].type = g.edges[e].type
       /\ DOMAIN r.edges = DOMAIN g.edges /\ Len(r.edges) = Len(g.edges)
       /\ \A d \in DOMAIN g.edges \ {e} : r.edges[d] = g.edges[d]
  BY <1>2, <1>5, <1>13
<1>16. \A m \in DOMAIN g.nodes :
          r.nodes[m].incoming = IF m = g.edges[e].to THEN Dropped(g.nodes[m].incoming, e)
                                ELSE IF m = n THEN Append(g.nodes[m].incoming, e)
                                ELSE g.nodes[m].incoming
  BY <1>6, <1>9, <1>10, <1>14
<1> QED
  BY <1>12, <1>13, <1>14, <1>15, <1>16 DEF EdgeRedirected

(* The edge is listed where it ends now.                                    *)
LEMMA RedirectedMirrored ==
    ASSUME NEW g, IsGraph(g), MirroredBut(g, 0), NEW e \in DOMAIN g.edges, g.edges[e].type # "Replaced",
           NEW to, to = g.edges[e].to, NEW n, n # to, NEW r, EdgeRedirected(r, g, e, n)
    PROVE  MirroredBut(r, 0)
<1>1. DOMAIN r.nodes = DOMAIN g.nodes /\ DOMAIN r.edges = DOMAIN g.edges /\ e \in Nat /\ e # 0
  BY GraphParts DEF EdgeRedirected
<1>2. ASSUME NEW m \in DOMAIN g.nodes
      PROVE  /\ ToSet(r.nodes[m].incoming) \subseteq DOMAIN g.edges
             /\ ToSet(r.nodes[m].outgoing) \subseteq DOMAIN g.edges
             /\ \A d : Count(r.nodes[m].outgoing, d) = Count(g.nodes[m].outgoing, d)
             /\ \A d \in DOMAIN g.edges \ {e} :
                   Count(r.nodes[m].incoming, d) = Count(g.nodes[m].incoming, d)
             /\ Count(r.nodes[m].incoming, e) = IF m = n THEN 1 ELSE 0
  <2>1. PICK in, rin : in = g.nodes[m].incoming /\ rin = r.nodes[m].incoming
    OBVIOUS
  <2>2. in \in Seq(Nat) /\ ToSet(in) \subseteq DOMAIN g.edges
    BY <2>1, NodeLists DEF MirroredBut
  <2>3. Count(in, e) = IF m = to THEN 1 ELSE 0
    BY <1>1, <2>1 DEF MirroredBut
  <2>4. /\ r.nodes[m].outgoing = g.nodes[m].outgoing
        /\ rin = IF m = to THEN Dropped(in, e) ELSE IF m = n THEN Append(in, e) ELSE in
    BY <2>1 DEF EdgeRedirected
  <2>5. ListsTurned(rin, in, e, IF m = n THEN 1 ELSE 0)
    <3>1. CASE m = to
      <4>1. ListsTurned(Dropped(in, e), in, e, 0)
        BY <1>1, <2>2, CountTurnedEdge
      <4> QED
        BY <2>4, <3>1, <4>1
    <3>2. CASE m # to /\ m = n
      <4>1. ListsTurned(Append(in, e), in, e, 1)
        BY <1>1, <2>2, <2>3, <3>2, CountTurnedEdge
      <4> QED
        BY <2>4, <3>2, <4>1
    <3>3. CASE m # to /\ m # n
      BY <2>3, <2>4, <3>3 DEF ListsTurned
    <3> QED
      BY <3>1, <3>2, <3>3
  <2>6. ToSet(g.nodes[m].outgoing) \subseteq DOMAIN g.edges
    BY DEF MirroredBut
  <2> QED
    BY <2>1, <2>2, <2>4, <2>5, <2>6 DEF ListsTurned
<1>3. ASSUME NEW d \in DOMAIN g.edges, NEW m \in DOMAIN g.nodes
      PROVE  LET listed == IF r.edges[d].type = "Replaced" /\ d # 0 THEN 0 ELSE 1
             IN /\ Count(r.nodes[m].outgoing, d) = IF r.edges[d].from = m THEN listed ELSE 0
                /\ Count(r.nodes[m].incoming, d) = IF r.edges[d].to = m THEN listed ELSE 0
  <2>1. LET listed == IF g.edges[d].type = "Replaced" /\ d # 0 THEN 0 ELSE 1
        IN /\ Count(g.nodes[m].outgoing, d) = IF g.edges[d].from = m THEN listed ELSE 0
           /\ Count(g.nodes[m].incoming, d) = IF g.edges[d].to = m THEN listed ELSE 0
    BY DEF MirroredBut
  <2>2. CASE d = e
    <3>1. r.edges[e].to = n /\ r.edges[e].from = g.edges[e].from /\ r.edges[e].type = g.edges[e].type
      BY DEF EdgeRedirected
    <3> QED
      BY <1>2, <2>1, <2>2, <3>1
  <2>3. CASE d # e
    <3>1. r.edges[d] = g.edges[d]
      BY <2>3 DEF EdgeRedirected
    <3> QED
      BY <1>2, <2>1, <2>3, <3>1
  <2> QED
    BY <2>2, <2>3
<1> QED
  BY <1>1, <1>2, <1>3 DEF MirroredBut

(* Edge a leads to a temporary node.                                        *)
LEMMA RedirectionGrows ==
    ASSUME NEW g, IsGraph(g), NEW a \in DOMAIN g.edges, g.edges[a].type # "Replaced",
           NEW r, Extended(r, g, a), r.edges[a].to \in DOMAIN g.nodes,
           NEW n \in DOMAIN r.nodes \ DOMAIN g.nodes, NEW s, s = Redirected(r, a, n)
    PROVE  /\ Extended(s, g, a) /\ s.edges[a].to = n
           /\ DOMAIN s.nodes = DOMAIN r.nodes /\ Len(s.edges) = Len(r.edges)
<1>1. IsGraph(r) /\ EndsExist(r) /\ LanesComplete(r) /\ MirroredBut(r, 0)
  BY DEF Extended
<1>2. a \in DOMAIN r.edges /\ DOMAIN g.nodes \subseteq DOMAIN r.nodes
  <2>1. PICK i, j, k, l : i = Len(g.nodes) /\ j = Len(r.nodes) /\ k = Len(g.edges) /\ l = Len(r.edges)
    OBVIOUS
  <2>2. /\ i \in Nat /\ j \in Nat /\ k \in Nat /\ l \in Nat
        /\ DOMAIN g.nodes = 1..i /\ DOMAIN r.nodes = 1..j
        /\ DOMAIN g.edges = 1..k /\ DOMAIN r.edges = 1..l
    BY <1>1, <2>1, GraphParts
  <2>3. i <= j /\ k <= l
    BY <2>1 DEF Extended
  <2>4. 1..i \subseteq 1..j /\ 1..k \subseteq 1..l
    BY <2>2, <2>3
  <2> QED
    BY <2>2, <2>4
<1>3. PICK to : to = r.edges[a].to
  OBVIOUS
<1>4. to \in DOMAIN r.nodes /\ n \in DOMAIN r.nodes /\ n # to /\ r.edges[a].type # "Replaced"
  BY <1>2, <1>3 DEF Extended
<1>5. IsGraph(s) /\ EdgeRedirected(s, r, a, n)
  BY <1>1, <1>2, <1>3, <1>4, RedirectedEffect
<1>6. MirroredBut(s, 0)
  BY <1>1, <1>2, <1>3, <1>4, <1>5, RedirectedMirrored
<1>7. SamePlaces(s, r)
  BY <1>5 DEF EdgeRedirected, SamePlaces
<1>8. LanesComplete(s) /\ \A m \in DOMAIN r.nodes : Place(s.nodes[m]) = Place(r.nodes[m])
  BY <1>1, <1>7, SamePlacesKeepLanes
<1>9. EndsExist(s)
  <2>1. \A d \in DOMAIN s.edges : {s.edges[d].from, s.edges[d].to} \subseteq DOMAIN s.nodes
    <3> SUFFICES ASSUME NEW d \in DOMAIN s.edges
                 PROVE  {s.edges[d].from, s.edges[d].to} \subseteq DOMAIN s.nodes
      OBVIOUS
    <3>1. {r.edges[d].from, r.edges[d].to} \subseteq DOMAIN r.nodes
      BY <1>1, <1>5 DEF EndsExist, EdgeRedirected
    <3> QED
      BY <1>4, <1>5, <3>1 DEF EdgeRedirected
  <2>2. \A m \in DOMAIN s.nodes : Place(s.nodes[m]) \in DOMAIN s.lanes
    BY <1>1, <1>7, <1>8 DEF EndsExist, SamePlaces
  <2> QED
    BY <2>1, <2>2 DEF EndsExist
<1>10. ASSUME NEW m \in DOMAIN g.nodes
       PROVE  SameNode(s.nodes[m], g.nodes[m])
  <2>1. SameNode(s.nodes[m], r.nodes[m]) /\ SameNode(r.nodes[m], g.nodes[m])
    BY <1>2, <1>7 DEF Extended, SamePlaces
  <2> QED
    BY <2>1 DEF SameNode
<1>11. \A m \in DOMAIN s.nodes \ DOMAIN g.nodes : IsTemporary(s.nodes[m])
  BY <1>7 DEF Extended, SamePlaces, SameNode, IsTemporary
<1>12. \A d \in DOMAIN g.edges \ {a} : s.edges[d] = g.edges[d]
  <2>1. DOMAIN g.edges \subseteq DOMAIN r.edges
    <3>1. PICK k, l : k = Len(g.edges) /\ l = Len(r.edges)
      OBVIOUS
    <3>2. k \in Nat /\ l \in Nat /\ DOMAIN g.edges = 1..k /\ DOMAIN r.edges = 1..l
      BY <1>1, <3>1, GraphParts
    <3>3. k <= l
      BY <3>1 DEF Extended
    <3>4. 1..k \subseteq 1..l
      BY <3>2, <3>3
    <3> QED
      BY <3>2, <3>4
  <2> QED
    BY <1>5, <2>1 DEF Extended, EdgeRedirected
<1>13. \A d \in DOMAIN s.edges \ DOMAIN g.edges : d # a /\ s.edges[d] = r.edges[d] /\ d \in DOMAIN r.edges
  BY <1>5 DEF EdgeRedirected
<1>14. /\ s.numLayers = r.numLayers /\ DOMAIN s.lanes = DOMAIN r.lanes
       /\ DOMAIN s.nodes = DOMAIN r.nodes /\ Len(s.nodes) = Len(r.nodes) /\ Len(s.edges) = Len(r.edges)
       /\ s.edges[a].to = n /\ s.edges[a].from = r.edges[a].from /\ s.edges[a].type = r.edges[a].type
  BY <1>5 DEF EdgeRedirected
<1> QED
  BY <1>5, <1>6, <1>8, <1>9, <1>10, <1>11, <1>12, <1>13, <1>14 DEF Extended

(* Nothing has been done yet.                                               *)
LEMMA ExtendedByNothing ==
    ASSUME NEW g, IsGraph(g), EndsExist(g), Mirrored(g), LanesComplete(g), NEW a \in DOMAIN g.edges
    PROVE  Extended(g, g, a)
<1>1. MirroredBut(g, 0)
  BY MirroredButNone
<1>2. Len(g.nodes) <= Len(g.nodes) /\ Len(g.edges) <= Len(g.edges)
  BY GraphParts
<1> QED
  BY <1>1, <1>2 DEF Extended, SameNode

(* Edge a has left its end, and another edge is there.                      *)
HasRight(r, g, a) ==
    /\ Extended(r, g, a) /\ r.edges[a].to \notin DOMAIN g.nodes
    /\ \E d \in DOMAIN r.edges \ DOMAIN g.edges :
          r.edges[d].type # "Replaced" /\ r.edges[d].from = g.edges[a].to

LEMMA ReroutedRightExtends ==
    ASSUME NEW g, IsGraph(g), EndsExist(g), Mirrored(g), LanesComplete(g),
           NEW a \in DOMAIN g.edges, g.edges[a].type # "Replaced",
           NEW r, r = ReroutedRight(g, a)
    PROVE  HasRight(r, g, a)
<1>1. PICK m \in Nat : m = Len(g.nodes) /\ DOMAIN g.nodes = 1..m
  BY GraphParts
<1>2. PICK k \in Nat : k = Len(g.edges) /\ DOMAIN g.edges = 1..k
  BY GraphParts
<1>3. PICK from, to, flow : from = g.edges[a].from /\ to = g.edges[a].to /\ flow = g.edges[a].flow
  OBVIOUS
<1>4. from \in DOMAIN g.nodes /\ to \in DOMAIN g.nodes /\ flow \in {"sequence", "message", "data"} /\ a \in Nat
  <2>1. g.edges[a] \in GraphEdges
    BY GraphParts
  <2>2. from \in DOMAIN g.nodes /\ to \in DOMAIN g.nodes
    BY <1>3 DEF EndsExist
  <2>3. flow \in {"sequence", "message", "data"}
    BY <1>3, <2>1 DEF GraphEdges
  <2> QED
    BY <1>2, <2>2, <2>3
<1>5. PICK place, layer : place = Place(From(g, a)) /\ layer = From(g, a).layer + 1
  OBVIOUS
<1>6. place \in Nat \X Nat /\ place \in DOMAIN g.lanes /\ layer \in Nat
  <2>1. PICK node : node = g.nodes[from]
    OBVIOUS
  <2>2. node \in GraphNodes /\ Place(node) \in DOMAIN g.lanes
    BY <1>4, <2>1, GraphParts DEF EndsExist
  <2>3. PICK L : L = Seq(Nat)
    OBVIOUS
  <2>4. node.pool \in Nat /\ node.lane \in Nat /\ node.layer \in Nat
    BY <2>2, <2>3 DEF GraphNodes
  <2>5. From(g, a) = node
    BY <1>3, <2>1 DEF From
  <2> QED
    BY <1>5, <2>2, <2>4, <2>5 DEF Place
<1>7. Extended(g, g, a)
  BY ExtendedByNothing
<1>8. PICK q : q = AddNode(g, "Dummy", place, layer)
  OBVIOUS
<1>9. Extended(q, g, a) /\ q.edges = g.edges /\ Len(q.nodes) = m + 1
  BY <1>1, <1>6, <1>7, <1>8, NodeGrows
<1>10. PICK right : right = m + 1
  OBVIOUS
<1>11. DOMAIN q.nodes = 1..(m + 1) /\ right \in DOMAIN q.nodes \ DOMAIN g.nodes
  <2>1. DOMAIN q.nodes = 1..(m + 1)
    BY <1>9, GraphParts DEF Extended
  <2>2. right \in 1..(m + 1) /\ right \notin 1..m
    BY <1>10
  <2> QED
    BY <1>1, <2>1, <2>2
<1>12. PICK h : h = Redirected(q, a, right)
  OBVIOUS
<1>13. /\ Extended(h, g, a) /\ h.edges[a].to = right
       /\ DOMAIN h.nodes = 1..(m + 1) /\ Len(h.edges) = k
  <2>1. q.edges[a].to \in DOMAIN g.nodes /\ Len(q.edges) = k
    BY <1>2, <1>3, <1>4, <1>9
  <2> QED
    BY <1>9, <1>11, <1>12, <2>1, RedirectionGrows
<1>14. PICK edge : edge = DummyEdge(to, right, flow, FALSE, a)
  OBVIOUS
<1>15. IsDummyEdge(edge, to, right, flow, FALSE, a)
  <2>1. to \in Nat /\ right \in Nat
    BY <1>1, <1>4, <1>10
  <2>2. FALSE \in BOOLEAN
    OBVIOUS
  <2> QED
    BY <1>4, <1>14, <2>1, <2>2, DummyEdgeIsEdge
<1>16. edge \in GraphEdges /\ edge.type # "Replaced" /\ edge.from = to /\ edge.to = right
  BY <1>15 DEF IsDummyEdge
<1>17. r = AddEdge(h, edge)
  BY <1>1, <1>3, <1>5, <1>8, <1>10, <1>12, <1>14 DEF ReroutedRight
<1>18. /\ edge.from \in DOMAIN h.nodes /\ edge.to \in DOMAIN h.nodes
       /\ JoinsEnds(g, a, edge.from, edge.to)
  <2>1. \A n \in 1..m : n \in 1..(m + 1)
    OBVIOUS
  <2> QED
    BY <1>1, <1>3, <1>4, <1>11, <1>13, <1>16, <2>1 DEF JoinsEnds
<1>19. /\ Extended(r, g, a) /\ Len(r.edges) = k + 1 /\ r.edges[k + 1] = edge
       /\ \A d \in DOMAIN h.edges : r.edges[d] = h.edges[d]
  <2>1. Extended(r, g, a) /\ HasEdgeMore(r, h, edge)
    BY <1>13, <1>16, <1>17, <1>18, EdgeGrows
  <2> QED
    BY <1>13, <2>1 DEF HasEdgeMore
<1>20. r.edges[a].to = right
  <2>1. DOMAIN h.edges = 1..k
    BY <1>13, GraphParts DEF Extended
  <2> QED
    BY <1>2, <1>13, <1>19, <2>1
<1>21. k + 1 \in DOMAIN r.edges \ DOMAIN g.edges
  <2>1. DOMAIN r.edges = 1..(k + 1)
    BY <1>19, GraphParts DEF Extended
  <2> QED
    BY <1>2, <2>1
<1> QED
  BY <1>3, <1>11, <1>16, <1>19, <1>20, <1>21 DEF HasRight

(* An edge is added to a graph that has the right node.                     *)
LEMMA EdgeKeepsRight ==
    ASSUME NEW g, IsGraph(g), NEW a \in DOMAIN g.edges, NEW r, HasRight(r, g, a),
           NEW from \in DOMAIN r.nodes, NEW to \in DOMAIN r.nodes,
           JoinsEnds(g, a, from, to),
           NEW flow \in {"sequence", "message", "data"},
           NEW edge, edge = DummyEdge(from, to, flow, FALSE, a), NEW s, s = AddEdge(r, edge)
    PROVE  HasRight(s, g, a) /\ HasEdgeMore(s, r, edge)
<1>2. IsGraph(r) /\ Extended(r, g, a)
  BY DEF HasRight, Extended
<1>3. IsDummyEdge(edge, from, to, flow, FALSE, a)
  <2>1. from \in Nat /\ to \in Nat /\ a \in Nat
    BY <1>2, GraphParts
  <2>2. FALSE \in BOOLEAN
    OBVIOUS
  <2> QED
    BY <2>1, <2>2, DummyEdgeIsEdge
<1>4. edge \in GraphEdges /\ edge.type # "Replaced" /\ edge.from = from /\ edge.to = to
  BY <1>3 DEF IsDummyEdge
<1>5. Extended(s, g, a) /\ HasEdgeMore(s, r, edge)
  <2>1. edge.from \in DOMAIN r.nodes /\ edge.to \in DOMAIN r.nodes /\ JoinsEnds(g, a, edge.from, edge.to)
    BY <1>4
  <2> QED
    BY <1>2, <1>4, <2>1, EdgeGrows
<1>6. a \in DOMAIN r.edges
  <2>1. PICK k, l : k = Len(g.edges) /\ l = Len(r.edges)
    OBVIOUS
  <2>2. k \in Nat /\ l \in Nat /\ DOMAIN g.edges = 1..k /\ DOMAIN r.edges = 1..l
    BY <1>2, <2>1, GraphParts
  <2>3. k <= l
    BY <1>2, <2>1 DEF Extended
  <2>4. a \in 1..l
    BY <2>2, <2>3
  <2> QED
    BY <2>2, <2>4
<1>7. s.edges[a] = r.edges[a] /\ \A d \in DOMAIN r.edges : d \in DOMAIN s.edges /\ s.edges[d] = r.edges[d]
  BY <1>5, <1>6 DEF HasEdgeMore
<1> QED
  BY <1>5, <1>7 DEF HasRight

LEMMA WithLeftNodeExtends ==
    ASSUME NEW g, IsGraph(g), NEW a \in DOMAIN g.edges, NEW r, HasRight(r, g, a),
           NEW from \in DOMAIN g.nodes, from = g.edges[a].from, g.nodes[from].layer # 0,
           NEW to \in DOMAIN g.nodes, to = g.edges[a].to,
           NEW s, s = WithLeftNode(r, a, from, to)
    PROVE  HasRight(s, g, a)
<1>1. IsGraph(r) /\ EndsExist(r) /\ Extended(r, g, a)
  BY DEF HasRight, Extended
<1>2. PICK m \in Nat : m = Len(g.nodes) /\ DOMAIN g.nodes = 1..m
  BY GraphParts
<1>3. PICK j \in Nat : j = Len(r.nodes) /\ DOMAIN r.nodes = 1..j
  BY <1>1, GraphParts
<1>4. m <= j /\ \A n \in DOMAIN g.nodes : n \in DOMAIN r.nodes
  <2>1. m <= j
    BY <1>1, <1>2, <1>3 DEF Extended
  <2>2. \A n \in 1..m : n \in 1..j
    BY <2>1
  <2> QED
    BY <1>2, <1>3, <2>1, <2>2
<1>5. PICK flow : flow = r.edges[a].flow
  OBVIOUS
<1>6. flow \in {"sequence", "message", "data"}
  <2>1. a \in DOMAIN r.edges
    <3>1. PICK k, l : k = Len(g.edges) /\ l = Len(r.edges)
      OBVIOUS
    <3>2. k \in Nat /\ l \in Nat /\ DOMAIN g.edges = 1..k /\ DOMAIN r.edges = 1..l
      BY <1>1, <3>1, GraphParts
    <3>3. k <= l
      BY <1>1, <3>1 DEF Extended
    <3>4. a \in 1..l
      BY <3>2, <3>3
    <3> QED
      BY <3>2, <3>4
  <2>2. r.edges[a] \in GraphEdges
    BY <1>1, <2>1, GraphParts
  <2> QED
    BY <1>5, <2>2 DEF GraphEdges
<1>7. PICK place, layer : place = Place(r.nodes[from]) /\ layer = r.nodes[from].layer - 1
  OBVIOUS
<1>8. place \in Nat \X Nat /\ place \in DOMAIN g.lanes /\ layer \in Nat
  <2>1. r.nodes[from] \in GraphNodes /\ Place(r.nodes[from]) \in DOMAIN r.lanes
    BY <1>1, <1>4, GraphParts DEF EndsExist
  <2>2. r.nodes[from].layer = g.nodes[from].layer /\ DOMAIN r.lanes = DOMAIN g.lanes
    BY <1>1 DEF Extended, SameNode
  <2>3. PICK L : L = Seq(Nat)
    OBVIOUS
  <2>4. /\ r.nodes[from].pool \in Nat /\ r.nodes[from].lane \in Nat /\ r.nodes[from].layer \in Nat
        /\ r.nodes[from].layer # 0
    BY <2>1, <2>2, <2>3 DEF GraphNodes
  <2>5. layer \in Nat
    <3>1. PICK l \in Nat : l = r.nodes[from].layer /\ l # 0
      BY <2>4
    <3>2. l - 1 \in Nat
      BY <3>1
    <3> QED
      BY <1>7, <3>1, <3>2
  <2> QED
    BY <1>7, <2>1, <2>2, <2>4, <2>5 DEF Place
<1>9. PICK q : q = AddNode(r, "Dummy", place, layer)
  OBVIOUS
<1>10. Extended(q, g, a) /\ q.edges = r.edges /\ Len(q.nodes) = j + 1
  BY <1>1, <1>3, <1>8, <1>9, NodeGrows
<1>11. HasRight(q, g, a) /\ DOMAIN q.nodes = 1..(j + 1)
  <2>1. DOMAIN q.nodes = 1..(j + 1)
    BY <1>10, GraphParts DEF Extended
  <2> QED
    BY <1>10, <2>1 DEF HasRight
<1>12. PICK left : left = j + 1
  OBVIOUS
<1>13. /\ left \in DOMAIN q.nodes /\ from \in DOMAIN q.nodes /\ to \in DOMAIN q.nodes
       /\ left \notin DOMAIN g.nodes
  <2>1. left \in 1..(j + 1) /\ left \notin 1..m
    BY <1>4, <1>12
  <2>2. \A n \in 1..j : n \in 1..(j + 1)
    OBVIOUS
  <2> QED
    BY <1>2, <1>3, <1>4, <1>11, <2>1, <2>2
<1>14. PICK d, h : d = DummyEdge(left, from, flow, FALSE, a) /\ h = AddEdge(q, d)
  OBVIOUS
<1>15. HasRight(h, g, a) /\ DOMAIN h.nodes = DOMAIN q.nodes
  <2>1. JoinsEnds(g, a, left, from)
    BY <1>13 DEF JoinsEnds
  <2>2. HasRight(h, g, a) /\ HasEdgeMore(h, q, d)
    BY <1>6, <1>11, <1>13, <1>14, <2>1, EdgeKeepsRight
  <2> QED
    BY <2>2 DEF HasEdgeMore
<1>16. PICK e : e = DummyEdge(left, to, flow, FALSE, a) /\ s = AddEdge(h, e)
  BY <1>3, <1>5, <1>7, <1>9, <1>12, <1>14 DEF WithLeftNode
<1>17. JoinsEnds(g, a, left, to) /\ left \in DOMAIN h.nodes /\ to \in DOMAIN h.nodes
  BY <1>13, <1>15 DEF JoinsEnds
<1> QED
  BY <1>6, <1>13, <1>15, <1>16, <1>17, EdgeKeepsRight

(* Rerouting an edge puts it over temporary nodes.                          *)
LEMMA ReroutedExtends ==
    ASSUME NEW g, IsGraph(g), EndsExist(g), Mirrored(g), LanesComplete(g),
           NEW a \in DOMAIN g.edges, g.edges[a].type # "Replaced",
           NEW r, r = Rerouted(g, a)
    PROVE  HasRight(r, g, a)
<1>1. PICK q, from, to : q = ReroutedRight(g, a) /\ from = g.edges[a].from /\ to = g.edges[a].to
  OBVIOUS
<1>2. HasRight(q, g, a)
  BY <1>1, ReroutedRightExtends
<1>3. from \in DOMAIN g.nodes /\ to \in DOMAIN g.nodes
  BY <1>1 DEF EndsExist
<1>4. CASE From(g, a).layer = 0
  BY <1>1, <1>2, <1>4 DEF Rerouted
<1>5. CASE From(g, a).layer # 0
  <2>1. r = WithLeftNode(q, a, from, to)
    BY <1>1, <1>5 DEF Rerouted
  <2>2. g.nodes[from].layer # 0
    BY <1>1, <1>5 DEF From
  <2> QED
    BY <1>1, <1>2, <1>3, <2>1, <2>2, WithLeftNodeExtends
<1> QED
  BY <1>4, <1>5

(* A list of nothing but x.                                                 *)
LEMMA OneMemberLength ==
    ASSUME NEW s \in Seq(Nat), NEW x, ToSet(s) \subseteq {x}
    PROVE  Len(s) = Count(s, x)
<1>1. PICK k \in Nat : k = Len(s) /\ DOMAIN s = 1..k
  OBVIOUS
<1>2. \A i \in 1..k : s[i] = x
  BY <1>1 DEF ToSet
<1>3. {i \in DOMAIN s : s[i] = x} = 1..k
  BY <1>1, <1>2
<1>4. Cardinality(1..k) = k
  BY FS_Interval
<1> QED
  BY <1>1, <1>3, <1>4 DEF Count

(* A data node with an only edge is a lone one.                             *)
LEMMA OnlyEdgeIsLoneData ==
    ASSUME NEW g, IsGraph(g), Mirrored(g), NEW n \in DOMAIN g.nodes, IsData(g.nodes[n]),
           NEW e \in DOMAIN g.edges, IsOnlyEdge(g, n, e)
    PROVE  IsLoneData(g.nodes[n])
<1>1. PICK in, out : in = g.nodes[n].incoming /\ out = g.nodes[n].outgoing
  OBVIOUS
<1>2. in \in Seq(Nat) /\ out \in Seq(Nat)
  BY <1>1, NodeLists
<1>3. /\ ToSet(in) \subseteq DOMAIN g.edges /\ ToSet(out) \subseteq DOMAIN g.edges
      /\ \A d \in DOMAIN g.edges :
            LET listed == IF g.edges[d].type = "Replaced" THEN 0 ELSE 1
            IN /\ Count(out, d) = IF g.edges[d].from = n THEN listed ELSE 0
               /\ Count(in, d) = IF g.edges[d].to = n THEN listed ELSE 0
  BY <1>1 DEF Mirrored
<1>4. /\ g.edges[e].type # "Replaced" /\ n \in {g.edges[e].from, g.edges[e].to}
      /\ g.edges[e].from # g.edges[e].to
      /\ \A d \in DOMAIN g.edges :
            g.edges[d].type # "Replaced" /\ n \in {g.edges[d].from, g.edges[d].to} => d = e
  BY DEF IsOnlyEdge
<1>5. \A d : (Count(in, d) = 0 <=> d \notin ToSet(in)) /\ (Count(out, d) = 0 <=> d \notin ToSet(out))
  BY <1>2, CountType
<1>6. ToSet(in) \subseteq {e} /\ ToSet(out) \subseteq {e}
  BY <1>3, <1>4, <1>5
<1>7. Len(in) = Count(in, e) /\ Len(out) = Count(out, e)
  BY <1>2, <1>6, OneMemberLength
<1>8. Count(in, e) + Count(out, e) = 1
  BY <1>3, <1>4
<1> QED
  BY <1>1, <1>7, <1>8 DEF IsLoneData

(* The ends of a rerouted edge have others when they had before.            *)
LEMMA EndsHaveOthers ==
    ASSUME NEW g, IsGraph(g), Mirrored(g), NEW a \in DOMAIN g.edges, g.edges[a].type # "Replaced",
           NEW from, from = g.edges[a].from, NEW to, to = g.edges[a].to,
           ~IsLoneData(g.nodes[from]), ~IsLoneData(g.nodes[to]),
           NEW r, HasRight(r, g, a),
           NEW n \in DOMAIN g.nodes, n \in {from, to}, IsData(g.nodes[n]),
           NEW e \in DOMAIN r.edges, IsOnlyEdge(r, n, e)
    PROVE  FALSE
<1>1. IsGraph(r) /\ Extended(r, g, a)
  BY DEF HasRight, Extended
<1>2. \A d \in DOMAIN g.edges : d \in DOMAIN r.edges
  <2>1. PICK k, l : k = Len(g.edges) /\ l = Len(r.edges)
    OBVIOUS
  <2>2. k \in Nat /\ l \in Nat /\ DOMAIN g.edges = 1..k /\ DOMAIN r.edges = 1..l
    BY <1>1, <2>1, GraphParts
  <2>3. k <= l
    BY <1>1, <2>1 DEF Extended
  <2>4. 1..k \subseteq 1..l
    BY <2>2, <2>3
  <2> QED
    BY <2>2, <2>4
<1>3. PICK b \in DOMAIN r.edges \ DOMAIN g.edges : r.edges[b].type # "Replaced" /\ r.edges[b].from = to
  BY DEF HasRight
<1>4. /\ r.edges[a].from = from /\ r.edges[a].type # "Replaced" /\ r.edges[a].to \notin DOMAIN g.nodes
      /\ \A d \in DOMAIN g.edges \ {a} : r.edges[d] = g.edges[d]
  BY <1>1 DEF HasRight, Extended
<1>5. /\ r.edges[e].type # "Replaced" /\ n \in {r.edges[e].from, r.edges[e].to}
      /\ r.edges[e].from # r.edges[e].to
      /\ \A d \in DOMAIN r.edges :
            r.edges[d].type # "Replaced" /\ n \in {r.edges[d].from, r.edges[d].to} => d = e
  BY DEF IsOnlyEdge
<1>6. a \in DOMAIN r.edges /\ a # b
  BY <1>2, <1>3
<1>7. from # to
  BY <1>3, <1>4, <1>5, <1>6
<1>8. \A d \in DOMAIN g.edges :
         g.edges[d].type # "Replaced" /\ n \in {g.edges[d].from, g.edges[d].to} => d = a
  <2> SUFFICES ASSUME NEW d \in DOMAIN g.edges, g.edges[d].type # "Replaced",
                      n \in {g.edges[d].from, g.edges[d].to}, d # a
               PROVE  FALSE
    OBVIOUS
  <2>1. d \in DOMAIN r.edges /\ r.edges[d] = g.edges[d] /\ d # b
    BY <1>2, <1>3, <1>4
  <2>2. d = e
    BY <1>5, <2>1
  <2>3. CASE n = from
    BY <1>4, <1>5, <1>6, <2>2, <2>3
  <2>4. CASE n = to
    BY <1>3, <1>5, <2>1, <2>2, <2>4
  <2> QED
    BY <2>3, <2>4
<1>9. IsOnlyEdge(g, n, a)
  BY <1>7, <1>8 DEF IsOnlyEdge
<1>10. IsLoneData(g.nodes[n])
  BY <1>9, OnlyEdgeIsLoneData
<1> QED
  BY <1>10

(* Data nodes are in the columns of their only neighbours as before: the    *)
(* ends of a rerouted edge have others.                                     *)
LEMMA ReroutedStaysWhole ==
    ASSUME NEW g, IsGraph(g), Whole(g), NEW a \in DOMAIN g.edges, g.edges[a].type # "Replaced",
           NEW from, from = g.edges[a].from, NEW to, to = g.edges[a].to,
           ~IsLoneData(g.nodes[from]), ~IsLoneData(g.nodes[to]),
           NEW r, HasRight(r, g, a)
    PROVE  Whole(r)
<1>1. /\ EndsExist(g) /\ Mirrored(g) /\ IsGraph(r) /\ Extended(r, g, a)
      /\ EndsExist(r) /\ LanesComplete(r) /\ MirroredBut(r, 0)
  BY DEF Whole, HasRight, Extended
<1>2. Mirrored(r)
  BY <1>1, MirroredButNone
<1>3. /\ \A d \in DOMAIN g.edges : d \in DOMAIN r.edges
      /\ \A n \in DOMAIN g.nodes : n \in DOMAIN r.nodes
  <2>1. PICK i, j, k, l : i = Len(g.nodes) /\ j = Len(r.nodes) /\ k = Len(g.edges) /\ l = Len(r.edges)
    OBVIOUS
  <2>2. /\ i \in Nat /\ j \in Nat /\ k \in Nat /\ l \in Nat
        /\ DOMAIN g.nodes = 1..i /\ DOMAIN r.nodes = 1..j
        /\ DOMAIN g.edges = 1..k /\ DOMAIN r.edges = 1..l
    BY <1>1, <2>1, GraphParts
  <2>3. i <= j /\ k <= l
    BY <1>1, <2>1 DEF Extended
  <2>4. 1..i \subseteq 1..j /\ 1..k \subseteq 1..l
    BY <2>2, <2>3
  <2> QED
    BY <2>2, <2>4
<1>4. /\ r.edges[a].from = from /\ r.edges[a].type # "Replaced" /\ r.edges[a].to \notin DOMAIN g.nodes
      /\ \A d \in DOMAIN g.edges \ {a} : r.edges[d] = g.edges[d]
  BY <1>1 DEF HasRight, Extended
<1>5. ASSUME NEW n \in DOMAIN r.nodes, NEW e \in DOMAIN r.edges, IsData(r.nodes[n]), IsOnlyEdge(r, n, e)
      PROVE  LET other == OtherEnd(r.edges[e], n)
             IN other < n /\ Column(r, other) = Column(r, n)
  <2>1. n \in DOMAIN g.nodes /\ IsData(g.nodes[n])
    <3>1. n \in DOMAIN g.nodes
      BY <1>1, <1>5 DEF Extended, IsTemporary, IsData
    <3>2. SameNode(r.nodes[n], g.nodes[n])
      BY <1>1, <3>1 DEF Extended
    <3> QED
      BY <1>5, <3>1, <3>2 DEF SameNode, IsData
  <2>2. /\ r.edges[e].type # "Replaced" /\ n \in {r.edges[e].from, r.edges[e].to}
        /\ r.edges[e].from # r.edges[e].to
        /\ \A d \in DOMAIN r.edges :
              r.edges[d].type # "Replaced" /\ n \in {r.edges[d].from, r.edges[d].to} => d = e
    BY <1>5 DEF IsOnlyEdge
  <2>3. n \notin {from, to}
    BY <1>1, <1>5, <2>1, EndsHaveOthers
  <2>4. e # a /\ e \in DOMAIN g.edges
    <3>1. e # a
      BY <1>4, <2>1, <2>2, <2>3
    <3>2. CASE e \notin DOMAIN g.edges
      <4>1. JoinsEnds(g, a, r.edges[e].from, r.edges[e].to)
        BY <1>1, <3>2 DEF Extended
      <4> QED
        BY <2>1, <2>2, <2>3, <4>1 DEF JoinsEnds
    <3> QED
      BY <3>1, <3>2
  <2>5. r.edges[e] = g.edges[e]
    BY <1>4, <2>4
  <2>6. IsOnlyEdge(g, n, e)
    <3>1. ASSUME NEW d \in DOMAIN g.edges, g.edges[d].type # "Replaced",
                 n \in {g.edges[d].from, g.edges[d].to}
          PROVE  d = e
      <4>1. d # a
        BY <2>3, <3>1
      <4>2. d \in DOMAIN r.edges /\ r.edges[d] = g.edges[d]
        BY <1>3, <1>4, <4>1
      <4> QED
        BY <2>2, <3>1, <4>2
    <3> QED
      BY <2>2, <2>5, <3>1 DEF IsOnlyEdge
  <2>7. PICK other : other = OtherEnd(g.edges[e], n)
    OBVIOUS
  <2>8. other < n /\ Column(g, other) = Column(g, n)
    BY <2>1, <2>4, <2>6, <2>7 DEF Whole, LoneBeside
  <2>9. other \in DOMAIN g.nodes
    BY <1>1, <2>4, <2>7 DEF EndsExist, OtherEnd
  <2>10. SameNode(r.nodes[n], g.nodes[n]) /\ SameNode(r.nodes[other], g.nodes[other])
    BY <1>1, <2>1, <2>9 DEF Extended
  <2>11. Column(r, other) = Column(r, n)
    BY <2>8, <2>10 DEF SameNode, Column, Place
  <2> QED
    BY <2>5, <2>7, <2>8, <2>11
<1>6. \A n \in DOMAIN r.nodes, e \in DOMAIN r.edges : LoneBeside(r, n, e)
  BY <1>5 DEF LoneBeside
<1> QED
  BY <1>1, <1>2, <1>6 DEF Whole

(* Rerouting keeps the invariant.                                           *)
LEMMA RerouteKeeps ==
    ASSUME CrossingInv, Reroute
    PROVE  CrossingInv'
<1>1. phase = "crossings" /\ InvAt(graph, before, "crossings", at, saved)
  BY CrossingInvIn DEF Reroute, CrossingPhases
<1>2. /\ IsGraph(graph) /\ IsGraph(before) /\ at \in Nat /\ at >= 1 /\ saved \in SavedEdges(before)
      /\ KeptAt(graph, before, "crossings") /\ ReroutingAt(graph, before, at) /\ Whole(graph)
      /\ LinksHold(graph, LinkedIn(graph, "crossings", at))
  BY <1>1 DEF InvAt
<1>3. PICK k \in Nat : k = Len(before.edges) /\ DOMAIN before.edges = 1..k
  BY <1>2, GraphParts
<1>4. PICK j \in Nat : j = Len(graph.edges) /\ DOMAIN graph.edges = 1..j
  BY <1>2, GraphParts
<1>5. k <= j /\ \A d \in (at + 1)..k : d \in at..k /\ d \in 1..j /\ d # at
  <2>1. k <= j
    BY <1>2, <1>3, <1>4 DEF ReroutingAt
  <2> QED
    BY <1>2, <2>1
<1>6. \A n \in DOMAIN graph.nodes : graph.nodes[n].above = 0 /\ graph.nodes[n].below = 0
  <2>1. LinkedIn(graph, "crossings", at) = {}
    BY DEF LinkedIn
  <2> QED
    BY <1>2, <2>1 DEF LinksHold
<1>7. CASE at > Len(before.edges) /\ phase' = "order" /\ at' = 1 /\ UNCHANGED <<parsed, graph, before, saved>>
  <2>1. LinkedIn(graph, "order", 1) = {}
    <3>1. \A n \in DOMAIN graph.nodes : ~(graph.nodes[n].layer + 1 < 1)
      <4>1. \A n \in DOMAIN graph.nodes : graph.nodes[n].layer \in Nat
        <5>1. \A n \in DOMAIN graph.nodes : graph.nodes[n] \in GraphNodes
          BY <1>2, GraphParts
        <5> QED
          BY <5>1 DEF GraphNodes
      <4>2. \A l \in Nat : ~(l + 1 < 1)
        OBVIOUS
      <4> QED
        BY <4>1, <4>2
    <3> QED
      BY <3>1 DEF LinkedIn
  <2>2. LinksHold(graph, LinkedIn(graph, "order", 1))
    BY <1>6, <2>1 DEF LinksHold
  <2>3. InvAt(graph, before, "order", 1, saved)
    BY <1>2, <2>2 DEF InvAt, CrossingPhases, KeptAt
  <2> QED
    BY <1>7, <2>3, CrossingInvIn
<1>8. CASE /\ at <= Len(before.edges) /\ ~IsRerouted(at) /\ at' = at + 1
           /\ UNCHANGED <<parsed, graph, phase, before, saved>>
  <2>1. ReroutingAt(graph, before, at + 1)
    BY <1>2, <1>3, <1>5 DEF ReroutingAt
  <2>2. LinksHold(graph, LinkedIn(graph, "crossings", at + 1))
    BY <1>6, NothingLinked
  <2>3. InvAt(graph, before, "crossings", at + 1, saved)
    BY <1>1, <1>2, <2>1, <2>2 DEF InvAt
  <2> QED
    BY <1>1, <1>8, <2>3, CrossingInvIn
<1>9. CASE /\ at <= Len(before.edges) /\ IsRerouted(at) /\ at' = at + 1
           /\ saved' = Append(saved, [id |-> at, edge |-> graph.edges[at]])
           /\ graph' = Rerouted(graph, at) /\ UNCHANGED <<parsed, phase, before>>
  <2>1. at \in 1..k /\ at \in 1..j /\ at \in at..k
    BY <1>2, <1>3, <1>5, <1>9
  <2>2. PICK from, to : from = graph.edges[at].from /\ to = graph.edges[at].to
    OBVIOUS
  <2>3. /\ graph.edges[at] = before.edges[at]
        /\ From(graph, at).layer = To(graph, at).layer => graph.edges[at].type # "Replaced"
    BY <1>2, <1>3, <2>1 DEF ReroutingAt
  <2>4. /\ graph.edges[at].type # "Replaced"
        /\ ~IsLoneData(graph.nodes[from]) /\ ~IsLoneData(graph.nodes[to])
    BY <1>9, <2>2, <2>3 DEF IsRerouted, From, To
  <2>5. PICK r : r = Rerouted(graph, at)
    OBVIOUS
  <2>6. EndsExist(graph) /\ Mirrored(graph) /\ LanesComplete(graph)
    BY <1>2 DEF Whole
  <2>7. HasRight(r, graph, at)
    BY <1>2, <1>4, <2>1, <2>4, <2>5, <2>6, ReroutedExtends
  <2>8. Whole(r)
    BY <1>2, <1>4, <2>1, <2>2, <2>4, <2>7, ReroutedStaysWhole
  <2>9. IsGraph(r) /\ Extended(r, graph, at)
    BY <2>7 DEF HasRight, Extended
  <2>10. PICK m \in Nat : m = Len(graph.nodes) /\ DOMAIN graph.nodes = 1..m
    BY <1>2, GraphParts
  <2>11. KeptAt(r, before, "crossings")
    <3>1. PICK l \in Nat : l = Len(before.nodes) /\ DOMAIN before.nodes = 1..l
      BY <1>2, GraphParts
    <3>2. PICK i \in Nat : i = Len(r.nodes) /\ DOMAIN r.nodes = 1..i
      BY <2>9, GraphParts
    <3>3. l <= m /\ m <= i
      BY <1>2, <2>9, <2>10, <3>1, <3>2 DEF KeptAt, Extended
    <3>4. ASSUME NEW n \in DOMAIN r.nodes
          PROVE  IF n \in DOMAIN before.nodes THEN r.nodes[n].layer < r.numLayers
                 ELSE r.nodes[n].kind = "Dummy"
      <4>1. CASE n \in DOMAIN graph.nodes
        <5>1. SameNode(r.nodes[n], graph.nodes[n]) /\ r.numLayers = graph.numLayers
          BY <2>9, <4>1 DEF Extended
        <5> QED
          BY <1>2, <4>1, <5>1 DEF KeptAt, SameNode
      <4>2. CASE n \notin DOMAIN graph.nodes
        <5>1. n \notin DOMAIN before.nodes
          BY <2>10, <3>1, <3>3, <4>2
        <5>2. IsTemporary(r.nodes[n])
          BY <2>9, <4>2 DEF Extended
        <5> QED
          BY <5>1, <5>2 DEF IsTemporary
      <4> QED
        BY <4>1, <4>2
    <3>5. EndsExist(before) /\ l <= i
      BY <1>2, <3>3 DEF KeptAt
    <3> QED
      BY <3>1, <3>2, <3>4, <3>5 DEF KeptAt
  <2>12. ReroutingAt(r, before, at + 1)
    <3>1. Len(before.edges) <= Len(r.edges)
      <4>1. PICK l \in Nat : l = Len(r.edges)
        BY <2>9, GraphParts
      <4>2. j <= l
        BY <1>4, <2>9, <4>1 DEF Extended
      <4> QED
        BY <1>3, <1>5, <4>1, <4>2
    <3>2. ASSUME NEW d \in (at + 1)..k
          PROVE  /\ r.edges[d] = before.edges[d]
                 /\ From(r, d).layer = To(r, d).layer => r.edges[d].type # "Replaced"
      <4>1. d \in at..k /\ d \in DOMAIN graph.edges /\ d # at
        BY <1>4, <1>5
      <4>2. r.edges[d] = graph.edges[d]
        BY <2>9, <4>1 DEF Extended
      <4>3. /\ graph.edges[d] = before.edges[d]
            /\ From(graph, d).layer = To(graph, d).layer => graph.edges[d].type # "Replaced"
        BY <1>2, <1>3, <4>1 DEF ReroutingAt
      <4>4. graph.edges[d].from \in DOMAIN graph.nodes /\ graph.edges[d].to \in DOMAIN graph.nodes
        BY <2>6, <4>1 DEF EndsExist
      <4>5. From(r, d).layer = From(graph, d).layer /\ To(r, d).layer = To(graph, d).layer
        <5>1. \A n \in DOMAIN graph.nodes : r.nodes[n].layer = graph.nodes[n].layer
          BY <2>9 DEF Extended, SameNode
        <5> QED
          BY <4>2, <4>4, <5>1 DEF From, To
      <4> QED
        BY <4>2, <4>3, <4>5
    <3> QED
      BY <1>3, <3>1, <3>2 DEF ReroutingAt
  <2>13. \A n \in DOMAIN r.nodes : r.nodes[n].above = 0 /\ r.nodes[n].below = 0
    <3> SUFFICES ASSUME NEW n \in DOMAIN r.nodes
                 PROVE  r.nodes[n].above = 0 /\ r.nodes[n].below = 0
      OBVIOUS
    <3>1. CASE n \in DOMAIN graph.nodes
      <4>1. SameNode(r.nodes[n], graph.nodes[n])
        BY <2>9, <3>1 DEF Extended
      <4> QED
        BY <1>6, <3>1, <4>1 DEF SameNode
    <3>2. CASE n \notin DOMAIN graph.nodes
      BY <2>9, <3>2 DEF Extended, IsTemporary
    <3> QED
      BY <3>1, <3>2
  <2>14. LinksHold(r, LinkedIn(r, "crossings", at + 1))
    BY <2>13, NothingLinked
  <2>15. Append(saved, [id |-> at, edge |-> graph.edges[at]]) \in SavedEdges(before)
    <3>1. PICK S : S = [id : DOMAIN before.edges, edge : ToSet(before.edges)]
      OBVIOUS
    <3>2. [id |-> at, edge |-> graph.edges[at]] \in S
      <4>1. at \in DOMAIN before.edges
        BY <1>3, <2>1
      <4>2. graph.edges[at] \in ToSet(before.edges)
        BY <2>3, <4>1 DEF ToSet
      <4> QED
        BY <3>1, <4>1, <4>2
    <3>3. saved \in Seq(S)
      BY <1>2, <3>1 DEF SavedEdges
    <3>4. Append(saved, [id |-> at, edge |-> graph.edges[at]]) \in Seq(S)
      BY <3>2, <3>3
    <3> QED
      BY <3>1, <3>4 DEF SavedEdges
  <2>16. PICK s : s = Append(saved, [id |-> at, edge |-> graph.edges[at]])
    OBVIOUS
  <2>17. InvAt(r, before, "crossings", at + 1, s)
    BY <1>1, <1>2, <2>8, <2>9, <2>11, <2>12, <2>14, <2>15, <2>16 DEF InvAt
  <2> QED
    BY <1>1, <1>9, <2>5, <2>16, <2>17, CrossingInvIn
<1> QED
  BY <1>1, <1>7, <1>8, <1>9 DEF Reroute

-----------------------------------------------------------------------------
(* The lists of edges, for what is proved of them in CrossingOutcomeProofs  *)

(* What retain() collects step by step is in G[m] at the end.               *)
LEMMA RetainedHolds ==
    ASSUME NEW S, NEW s \in Seq(S), NEW T, NEW m \in Nat, m = Len(s), NEW G,
           <<>> \in G[0],
           \A i \in 1..m : \A t \in G[i - 1] : IF s[i] \in T THEN Append(t, s[i]) \in G[i] ELSE t \in G[i]
    PROVE  Retained(s, T) \in G[m]
<1> DEFINE grown(i, kept) == IF s[i] \in T THEN Append(kept, s[i]) ELSE kept
           Is(g) == g = [i \in 0..m |-> IF i = 0 THEN <<>>
                                        ELSE IF s[i] \in T THEN Append(g[i - 1], s[i]) ELSE g[i - 1]]
           next == [i \in 1..m |-> [kept \in G[i - 1] |-> grown(i, kept)]]
<1>1. \A i \in 1..m : i \in 0..m /\ i - 1 \in 0..m /\ i # 0
  OBVIOUS
<1>2. \A i \in 1..m : \A t \in G[i - 1] : next[i][t] = grown(i, t) /\ grown(i, t) \in G[i]
  OBVIOUS
<1> HIDE DEF next
<1>3. PICK g : g \in UnfoldedIn(m, G, <<>>, next)
  <2>1. Stages(m, G, <<>>, next)
    BY <1>2 DEF Stages
  <2> QED
    BY <2>1, StagesUnfold
<1>4. Is(g)
  <2>1. /\ g = [i \in 0..m |-> g[i]]
        /\ \A i \in 0..m : /\ g[i] \in G[i]
                           /\ g[i] = IF i = 0 THEN <<>> ELSE next[i][g[i - 1]]
    BY <1>3 DEF UnfoldedIn
  <2>2. \A i \in 0..m : i # 0 => i \in 1..m
    OBVIOUS
  <2>3. \A i \in 0..m : g[i] = IF i = 0 THEN <<>> ELSE grown(i, g[i - 1])
    <3> HIDE DEF grown
    <3> QED
      BY <1>1, <1>2, <2>1, <2>2
  <2> QED
    BY <2>1, <2>3
<1>5. PICK h : Is(h) /\ Retained(s, T) = h[m]
  <2>1. Retained(s, T) = (CHOOSE h : Is(h))[m]
    BY DEF Retained
  <2> HIDE DEF Is
  <2> QED
    BY <1>4, <2>1
<1>6. h[0] = <<>> /\ \A i \in 1..m : h[i] = grown(i, h[i - 1])
  <2>1. \A i \in 0..m : h[i] = IF i = 0 THEN <<>> ELSE grown(i, h[i - 1])
    BY <1>5
  <2>2. 0 \in 0..m
    OBVIOUS
  <2> HIDE DEF grown, Is
  <2> QED
    BY <1>1, <2>1, <2>2
<1>7. \A i \in 1..m : h[i - 1] \in G[i - 1] => h[i] \in G[i]
  BY <1>6
<1> HIDE DEF Is, grown
<1>8. h[0] \in G[0]
  BY <1>6
<1>9. \A i \in 0..m : h[i] \in G[i]
  BY <1>7, <1>8, StagesHold
<1>10. m \in 0..m
  OBVIOUS
<1> QED
  BY <1>5, <1>9, <1>10

(* What an insertion sort collects step by step.                            *)
LEMMA SortedHolds ==
    ASSUME NEW s, NEW key, NEW m \in Nat, m = Len(s), NEW G,
           <<>> \in G[0],
           \A i \in 1..m : \A t \in G[i - 1] : InsertedByKey(t, s[i], key) \in G[i]
    PROVE  SortedByKey(s, key) \in G[m]
<1> DEFINE insert(i, t) == InsertedByKey(t, s[i], key)
           Is(g) == g = [i \in 0..m |-> IF i = 0 THEN <<>> ELSE InsertedByKey(g[i - 1], s[i], key)]
           next == [i \in 1..m |-> [t \in G[i - 1] |-> insert(i, t)]]
<1>1. \A i \in 1..m : i \in 0..m /\ i - 1 \in 0..m /\ i # 0
  OBVIOUS
<1>2. \A i \in 1..m : \A t \in G[i - 1] : next[i][t] = insert(i, t) /\ insert(i, t) \in G[i]
  OBVIOUS
<1> HIDE DEF next
<1>3. PICK g : g \in UnfoldedIn(m, G, <<>>, next)
  <2>1. Stages(m, G, <<>>, next)
    BY <1>2 DEF Stages
  <2> QED
    BY <2>1, StagesUnfold
<1>4. Is(g)
  <2>1. /\ g = [i \in 0..m |-> g[i]]
        /\ \A i \in 0..m : /\ g[i] \in G[i]
                           /\ g[i] = IF i = 0 THEN <<>> ELSE next[i][g[i - 1]]
    BY <1>3 DEF UnfoldedIn
  <2>2. \A i \in 0..m : i # 0 => i \in 1..m
    OBVIOUS
  <2>3. \A i \in 0..m : g[i] = IF i = 0 THEN <<>> ELSE insert(i, g[i - 1])
    <3> HIDE DEF insert
    <3> QED
      BY <1>1, <1>2, <2>1, <2>2
  <2> QED
    BY <2>1, <2>3
<1>5. PICK h : Is(h) /\ SortedByKey(s, key) = h[m]
  <2>1. SortedByKey(s, key) = (CHOOSE h : Is(h))[m]
    BY DEF SortedByKey
  <2> HIDE DEF Is
  <2> QED
    BY <1>4, <2>1
<1>6. h[0] = <<>> /\ \A i \in 1..m : h[i] = insert(i, h[i - 1])
  <2>1. \A i \in 0..m : h[i] = IF i = 0 THEN <<>> ELSE insert(i, h[i - 1])
    BY <1>5
  <2>2. 0 \in 0..m
    OBVIOUS
  <2> HIDE DEF insert, Is
  <2> QED
    BY <1>1, <2>1, <2>2
<1>7. \A i \in 1..m : h[i - 1] \in G[i - 1] => h[i] \in G[i]
  BY <1>6
<1> HIDE DEF Is, insert
<1>8. h[0] \in G[0]
  BY <1>6
<1>9. \A i \in 0..m : h[i] \in G[i]
  BY <1>7, <1>8, StagesHold
<1>10. m \in 0..m
  OBVIOUS
<1> QED
  BY <1>5, <1>9, <1>10

LEMMA TopAppended ==
    ASSUME NEW m \in Nat, NEW s, NEW q, OnTop(s, q, m), NEW x \in Nat, NEW r, r = Append(s, x)
    PROVE  /\ x \notin 1..m => OnTop(r, q + 1, m)
           /\ q = 0 /\ x \in 1..m => OnTop(r, 0, m)
<1>1. PICK l \in Nat : l = Len(s) /\ DOMAIN s = 1..l
  BY DEF OnTop
<1>2. /\ r \in Seq(Nat) /\ Len(r) = l + 1 /\ DOMAIN r = 1..(l + 1) /\ r[l + 1] = x
      /\ \A p \in 1..l : r[p] = s[p]
  BY <1>1 DEF OnTop
<1>3. q \in Nat /\ q <= l /\ \A p \in 1..l : s[p] \in 1..m <=> p <= l - q
  BY <1>1 DEF OnTop
<1>4. \A p \in 1..(l + 1) : p = l + 1 \/ p \in 1..l
  BY <1>1
<1> DEFINE old == 1..m
<1> HIDE DEF old
<1>5. ASSUME x \notin old PROVE \A p \in 1..(l + 1) : r[p] \in old <=> p <= (l + 1) - (q + 1)
  BY <1>1, <1>2, <1>3, <1>4, <1>5 DEF old
<1>6. ASSUME x \in old, q = 0 PROVE \A p \in 1..(l + 1) : r[p] \in old <=> p <= (l + 1) - 0
  BY <1>1, <1>2, <1>3, <1>4, <1>6 DEF old
<1>7. x \notin old => OnTop(r, q + 1, m)
  <2>1. q + 1 \in Nat /\ q + 1 <= l + 1
    BY <1>3
  <2> QED
    BY <1>2, <1>5, <2>1 DEF OnTop, old
<1>8. q = 0 /\ x \in old => OnTop(r, 0, m)
  BY <1>2, <1>6 DEF OnTop, old
<1> QED
  BY <1>7, <1>8 DEF old

LEMMA TopDropped ==
    ASSUME NEW m \in Nat, NEW s, NEW q, OnTop(s, q, m), NEW e \in 1..m, NEW r, r = Dropped(s, e)
    PROVE  OnTop(r, q, m)
<1>1. PICK l \in Nat : l = Len(s) /\ DOMAIN s = 1..l
  BY DEF OnTop
<1>2. q \in Nat /\ q <= l /\ s \in Seq(Nat) /\ \A p \in 1..l : s[p] \in 1..m <=> p <= l - q
  BY <1>1 DEF OnTop
<1> DEFINE T == ToSet(s) \ {e}
           top(i) == IF i <= l - q THEN 0 ELSE i - (l - q)
           G == [i \in 0..l |-> {t \in Seq(Nat) : OnTop(t, top(i), m)}]
<1>3. \A i \in 0..l : \A t : t \in G[i] <=> OnTop(t, top(i), m)
  BY DEF OnTop
<1>4. \A i \in 1..l : i \in 0..l /\ i - 1 \in 0..l /\ s[i] \in Nat /\ s[i] \in ToSet(s)
  <2>1. \A i \in 1..l : i \in 0..l /\ i - 1 \in 0..l
    OBVIOUS
  <2>2. \A i \in 1..l : s[i] \in Nat
    BY <1>1, <1>2
  <2>3. \A i \in 1..l : s[i] \in ToSet(s)
    BY <1>1 DEF ToSet
  <2> QED
    BY <2>1, <2>2, <2>3
<1>5. top(0) = 0 /\ top(l) = q
  BY <1>2
<1>6. <<>> \in G[0]
  <2>1. OnTop(<<>>, 0, m)
    BY DEF OnTop
  <2>2. 0 \in 0..l
    OBVIOUS
  <2> HIDE DEF G, top
  <2> QED
    BY <1>3, <1>5, <2>1, <2>2
<1>7. ASSUME NEW i \in 1..l, NEW t \in G[i - 1]
      PROVE  IF s[i] \in T THEN Append(t, s[i]) \in G[i] ELSE t \in G[i]
  <2>1. OnTop(t, top(i - 1), m)
    BY <1>3, <1>4
  <2>2. s[i] \in Nat /\ s[i] \in ToSet(s)
    BY <1>4
  <2>3. CASE i <= l - q
    <3>1. top(i - 1) = 0 /\ top(i) = 0 /\ s[i] \in 1..m
      BY <1>2, <2>3
    <3> HIDE DEF G, top, T
    <3>2. OnTop(t, 0, m) /\ OnTop(Append(t, s[i]), 0, m)
      BY <2>1, <2>2, <3>1, TopAppended
    <3> QED
      BY <1>3, <1>4, <3>1, <3>2
  <2>4. CASE ~(i <= l - q)
    <3>1. top(i) = top(i - 1) + 1 /\ s[i] \notin 1..m
      BY <1>2, <2>4
    <3>2. s[i] \in T
      BY <2>2, <3>1
    <3> HIDE DEF G, top, T
    <3>3. OnTop(Append(t, s[i]), top(i - 1) + 1, m)
      BY <2>1, <2>2, <3>1, TopAppended
    <3> QED
      BY <1>3, <1>4, <3>1, <3>2, <3>3
  <2> QED
    BY <2>3, <2>4
<1>8. r = Retained(s, T)
  BY DEF Dropped
<1> HIDE DEF G, top, T
<1>9. r \in G[l]
  <2>1. \A i \in 1..l : \A t \in G[i - 1] : IF s[i] \in T THEN Append(t, s[i]) \in G[i] ELSE t \in G[i]
    BY <1>7
  <2>2. Retained(s, T) \in G[l]
    BY <1>1, <1>2, <1>6, <2>1, RetainedHolds
  <2> QED
    BY <1>8, <2>2
<1>10. l \in 0..l
  OBVIOUS
<1> QED
  BY <1>3, <1>5, <1>9, <1>10

(* The last element is popped off a list.                                   *)
IsPopped(r, s, l) ==
    /\ r \in Seq(Nat) /\ Len(r) = l /\ DOMAIN r = 1..l /\ Len(s) = l + 1 /\ s[l + 1] \in Nat
    /\ \A p \in 1..l : r[p] = s[p]
    /\ \A x : Count(r, x) \in Nat /\ Count(s, x) = Count(r, x) + (IF x = s[l + 1] THEN 1 ELSE 0)

LEMMA PoppedEffect ==
    ASSUME NEW s \in Seq(Nat), s # <<>>, NEW r, r = Popped(s)
    PROVE  \E l \in Nat : IsPopped(r, s, l)
<1>1. PICK k \in Nat : k = Len(s) /\ DOMAIN s = 1..k
  OBVIOUS
<1>2. k # 0
  BY <1>1
<1>3. PICK l \in Nat : l = k - 1
  BY <1>2
<1>4. r = SubSeq(s, 1, l)
  BY <1>1, <1>3 DEF Popped, Front
<1>5. /\ r \in Seq(Nat) /\ Len(r) = l /\ DOMAIN r = 1..l
      /\ \A p \in 1..l : r[p] = s[p]
  BY <1>1, <1>3, <1>4
<1>6. s[l + 1] \in Nat /\ Len(s) = l + 1
  BY <1>1, <1>2, <1>3
<1>7. s = Append(r, s[l + 1])
  BY <1>1, <1>3, <1>5, <1>6
<1>8. PICK y \in Nat : y = s[l + 1]
  BY <1>6
<1>9. \A x : Count(s, x) = Count(r, x) + (IF x = y THEN 1 ELSE 0)
  <2>1. \A x : Count(Append(r, y), x) = Count(r, x) + (IF x = y THEN 1 ELSE 0)
    BY <1>5, CountAppend
  <2> QED
    BY <1>7, <1>8, <2>1
<1>10. \A x : Count(r, x) \in Nat
  BY <1>5, CountType
<1> QED
  BY <1>5, <1>6, <1>8, <1>9, <1>10 DEF IsPopped

(* Popping takes off no edge up to m if there is another on top.            *)
LEMMA TopPopped ==
    ASSUME NEW m \in Nat, NEW s, NEW q, OnTop(s, q, m), q # 0, NEW r, r = Popped(s)
    PROVE  OnTop(r, q - 1, m) /\ \A x \in 1..m : Count(r, x) = Count(s, x)
<1>1. /\ s \in Seq(Nat) /\ q \in Nat /\ q <= Len(s)
      /\ \A p \in DOMAIN s : s[p] \in 1..m <=> p <= Len(s) - q
  BY DEF OnTop
<1>2. s # <<>>
  BY <1>1
<1>3. PICK l \in Nat : IsPopped(r, s, l)
  BY <1>1, <1>2, PoppedEffect
<1>4. /\ r \in Seq(Nat) /\ Len(r) = l /\ DOMAIN r = 1..l /\ Len(s) = l + 1
      /\ \A p \in 1..l : r[p] = s[p]
  BY <1>3 DEF IsPopped
<1>5. DOMAIN s = 1..(l + 1) /\ s[l + 1] \notin 1..m
  <2>1. DOMAIN s = 1..(l + 1)
    BY <1>1, <1>4
  <2>2. l + 1 \in 1..(l + 1) /\ ~(l + 1 <= (l + 1) - q)
    BY <1>1
  <2> QED
    BY <1>1, <1>4, <2>1, <2>2
<1>6. \A p \in 1..l : r[p] \in 1..m <=> p <= l - (q - 1)
  <2>1. \A p \in 1..l : p \in 1..(l + 1) /\ (p <= l - (q - 1) <=> p <= (l + 1) - q)
    BY <1>1
  <2> QED
    BY <1>1, <1>4, <1>5, <2>1
<1>7. q - 1 \in Nat /\ q - 1 <= l
  BY <1>1, <1>4
<1>8. OnTop(r, q - 1, m)
  BY <1>4, <1>6, <1>7 DEF OnTop
<1>9. \A x \in 1..m : Count(r, x) = Count(s, x)
  BY <1>3, <1>5 DEF IsPopped
<1> QED
  BY <1>8, <1>9

(* Sorting a list changes its order only.                                   *)
LEMMA SortedCounts ==
    ASSUME NEW s \in Seq(Nat), NEW key, NEW r, r = SortedByKey(s, key)
    PROVE  r \in Seq(Nat) /\ \A x : Count(r, x) = Count(s, x)
<1>1. PICK m \in Nat : m = Len(s) /\ DOMAIN s = 1..m
  OBVIOUS
<1> DEFINE prefix(n) == SubSeq(s, 1, n)
           G == [i \in 0..m |-> {t \in Seq(Nat) : \A x : Count(t, x) = Count(prefix(i), x)}]
<1>2. \A n \in 0..m : prefix(n) \in Seq(Nat)
  BY <1>1, SubSeqProperties
<1>3. \A n \in 1..m : prefix(n) = Append(prefix(n - 1), s[n])
  BY <1>1
<1>4. prefix(0) = <<>> /\ prefix(m) = s
  BY <1>1
<1> HIDE DEF prefix
<1>5. \A i \in 0..m : \A t : t \in G[i] <=> t \in Seq(Nat) /\ \A x : Count(t, x) = Count(prefix(i), x)
  OBVIOUS
<1>6. \A i \in 1..m : i \in 0..m /\ i - 1 \in 0..m /\ s[i] \in Nat
  <2>1. \A i \in 1..m : i \in 0..m /\ i - 1 \in 0..m
    OBVIOUS
  <2> QED
    BY <1>1, <2>1
<1>7. 0 \in 0..m /\ m \in 0..m /\ <<>> \in Seq(Nat)
  OBVIOUS
<1> HIDE DEF G
<1>8. <<>> \in G[0]
  BY <1>4, <1>5, <1>7
<1>9. \A i \in 1..m : \A t \in G[i - 1] : InsertedByKey(t, s[i], key) \in G[i]
  <2> SUFFICES ASSUME NEW i \in 1..m, NEW t \in G[i - 1]
               PROVE  InsertedByKey(t, s[i], key) \in G[i]
    OBVIOUS
  <2>1. t \in Seq(Nat) /\ s[i] \in Nat /\ \A x : Count(t, x) = Count(prefix(i - 1), x)
    BY <1>5, <1>6
  <2>2. PICK e \in Nat : e = s[i]
    BY <2>1
  <2>3. PICK k : /\ k = Cardinality({j \in DOMAIN t : ~KeyLess(key[e], key[t[j]])}) + 1
                 /\ InsertedByKey(t, e, key) = InsertAt(t, k, e)
    BY DEF InsertedByKey
  <2>4. k \in 1..(Len(t) + 1)
    <3>1. PICK l \in Nat : l = Len(t) /\ DOMAIN t = 1..l
      BY <2>1
    <3>2. Cardinality({j \in DOMAIN t : ~KeyLess(key[e], key[t[j]])}) \in 0..l
      <4>1. IsFiniteSet(1..l) /\ Cardinality(1..l) = l
        BY FS_Interval
      <4>2. {j \in DOMAIN t : ~KeyLess(key[e], key[t[j]])} \subseteq 1..l
        BY <3>1
      <4> QED
        BY <4>1, <4>2, FS_Subset, FS_CardinalityType
    <3> QED
      BY <2>3, <3>1, <3>2
  <2>5. PICK w : w = InsertAt(t, k, e)
    OBVIOUS
  <2>6. w \in Seq(Nat) /\ \A x : Count(w, x) = Count(t, x) + (IF x = e THEN 1 ELSE 0)
    <3>1. IsInsertedAt(w, t, k, e) /\ w \in Seq(Nat)
      BY <2>1, <2>4, <2>5, InsertedAtIsSo
    <3> QED
      BY <3>1 DEF IsInsertedAt
  <2>7. \A x : Count(prefix(i), x) = Count(prefix(i - 1), x) + (IF x = e THEN 1 ELSE 0)
    <3>1. PICK p \in Seq(Nat) : p = prefix(i - 1)
      BY <1>2, <1>6
    <3>2. \A x : Count(Append(p, e), x) = Count(p, x) + (IF x = e THEN 1 ELSE 0)
      BY CountAppend
    <3> QED
      BY <1>3, <2>2, <3>1, <3>2
  <2>8. w \in G[i]
    BY <1>5, <1>6, <2>1, <2>6, <2>7
  <2> QED
    BY <2>2, <2>3, <2>5, <2>8
<1>10. r \in G[m]
  <2>1. SortedByKey(s, key) \in G[m]
    BY <1>1, <1>8, <1>9, SortedHolds
  <2> QED
    BY <2>1
<1> QED
  BY <1>4, <1>5, <1>7, <1>10

-----------------------------------------------------------------------------
(* What rerouting edge a from one node to another does to their lists       *)

LeadsRight(g, d) == g.nodes[g.edges[d].to].layer = g.nodes[g.edges[d].from].layer + 1

IsWithin(g, a, from, to, flow, layer) ==
    /\ IsGraph(g) /\ EndsExist(g) /\ Mirrored(g) /\ LanesComplete(g)
    /\ a \in DOMAIN g.edges /\ g.edges[a].type # "Replaced"
    /\ from = g.edges[a].from /\ to = g.edges[a].to /\ flow = g.edges[a].flow /\ from # to
    /\ from \in DOMAIN g.nodes /\ to \in DOMAIN g.nodes /\ flow \in {"sequence", "message", "data"}
    /\ layer \in Nat /\ g.nodes[from].layer = layer /\ g.nodes[to].layer = layer

(* Over the node on the right: its end is left by the last edge.            *)
ReroutedOverRight(r, g, a, to, flow, k) ==
    /\ HasRight(r, g, a) /\ k = Len(g.edges) /\ Len(r.edges) = k + 1
    /\ r.edges[a].flow = flow /\ r.edges[k + 1].flow = flow
    /\ LeadsRight(r, a) /\ LeadsRight(r, k + 1)
    /\ \A n \in DOMAIN g.nodes :
          /\ r.nodes[n].outgoing = IF n = to THEN Append(g.nodes[n].outgoing, k + 1)
                                   ELSE g.nodes[n].outgoing
          /\ r.nodes[n].incoming = IF n = to THEN Dropped(g.nodes[n].incoming, a)
                                   ELSE g.nodes[n].incoming

LEMMA RedirectedFlow ==
    ASSUME NEW g, IsGraph(g), NEW e \in DOMAIN g.edges, NEW n, NEW r, r = Redirected(g, e, n)
    PROVE  r.edges[e].flow = g.edges[e].flow
<1>1. PICK k \in Nat : k = Len(g.edges) /\ DOMAIN g.edges = 1..k
  BY GraphParts
<1>2. PICK edges : edges = [g.edges EXCEPT ![e].to = n]
  OBVIOUS
<1>3. r.edges = edges
  <2>1. PICK P : g \in [nodes : Seq(GraphNodes), edges : Seq(GraphEdges), lanes : P, numLayers : Nat]
    BY DEF IsGraph
  <2> QED
    BY <1>2, <2>1 DEF Redirected
<1>4. g.edges[e] \in GraphEdges /\ g.edges = [i \in 1..k |-> g.edges[i]]
  BY <1>1, GraphParts
<1>5. edges[e] = [g.edges[e] EXCEPT !.to = n]
  BY <1>1, <1>2, <1>4
<1>6. edges[e].flow = g.edges[e].flow
  BY <1>4, <1>5 DEF GraphEdges
<1> QED
  BY <1>3, <1>6

LEMMA ReroutedRightEffect ==
    ASSUME NEW g, NEW a, NEW from, NEW to, NEW flow, NEW layer, IsWithin(g, a, from, to, flow, layer),
           NEW k, k = Len(g.edges), NEW r, r = ReroutedRight(g, a)
    PROVE  ReroutedOverRight(r, g, a, to, flow, k)
<1>1. /\ IsGraph(g) /\ EndsExist(g) /\ Mirrored(g) /\ LanesComplete(g)
      /\ a \in DOMAIN g.edges /\ g.edges[a].type # "Replaced"
      /\ from = g.edges[a].from /\ to = g.edges[a].to /\ flow = g.edges[a].flow /\ from # to
      /\ from \in DOMAIN g.nodes /\ to \in DOMAIN g.nodes /\ flow \in {"sequence", "message", "data"}
      /\ layer \in Nat /\ g.nodes[from].layer = layer /\ g.nodes[to].layer = layer
  BY DEF IsWithin
<1>2. HasRight(r, g, a)
  BY <1>1, ReroutedRightExtends
<1>3. PICK m \in Nat : m = Len(g.nodes) /\ DOMAIN g.nodes = 1..m
  BY <1>1, GraphParts
<1>4. k \in Nat /\ DOMAIN g.edges = 1..k /\ a \in Nat
  BY <1>1, GraphParts
<1>5. PICK place : place = Place(g.nodes[from])
  OBVIOUS
<1>6. place \in Nat \X Nat
  <2>1. g.nodes[from] \in GraphNodes
    BY <1>1, GraphParts
  <2>2. PICK L : L = Seq(Nat)
    OBVIOUS
  <2> QED
    BY <1>5, <2>1, <2>2 DEF GraphNodes, Place
<1>7. PICK q, right, h, edge :
         /\ q = AddNode(g, "Dummy", place, layer + 1) /\ right = m + 1
         /\ h = Redirected(q, a, right)
         /\ edge = DummyEdge(to, right, flow, FALSE, a)
  OBVIOUS
<1>8. r = AddEdge(h, edge)
  BY <1>1, <1>3, <1>5, <1>7 DEF ReroutedRight, From
<1>9. IsGraph(q) /\ NodeAdded(q, g, "Dummy", place, layer + 1)
  <2>1. layer + 1 \in Nat /\ "Dummy" \in {"Event", "Gateway", "Task", "Data", "Dummy"}
    BY <1>1
  <2> QED
    BY <1>1, <1>6, <1>7, <2>1, AddNodeEffect
<1>10. PICK new : new = NewNode("Dummy", place, layer + 1)
  OBVIOUS
<1>11. new \in GraphNodes /\ new.layer = layer + 1
  <2>1. layer + 1 \in Nat /\ "Dummy" \in {"Event", "Gateway", "Task", "Data", "Dummy"}
    BY <1>1
  <2>2. IsNewNode(new, "Dummy", place, layer + 1)
    BY <1>6, <1>10, <2>1, NewNodeIsNode
  <2> QED
    BY <2>2 DEF IsNewNode
<1>12. /\ q.edges = g.edges /\ DOMAIN q.nodes = 1..(m + 1) /\ q.nodes[right] = new
       /\ \A n \in 1..m : n \in 1..(m + 1) /\ q.nodes[n] = g.nodes[n]
  <2>1. q.nodes = Append(g.nodes, new) /\ q.edges = g.edges
    BY <1>9, <1>10 DEF NodeAdded
  <2>2. PICK nodes \in Seq(GraphNodes) : nodes = g.nodes
    BY <1>1, GraphParts
  <2> QED
    BY <1>3, <1>7, <1>11, <2>1, <2>2
<1>13. right \in 1..(m + 1) /\ right \notin 1..m
  BY <1>7
<1>14. IsGraph(h) /\ EdgeRedirected(h, q, a, right) /\ h.edges[a].flow = flow
  <2>1. /\ a \in DOMAIN q.edges /\ to \in DOMAIN q.nodes /\ to = q.edges[a].to
        /\ right \in DOMAIN q.nodes /\ right # to
    BY <1>1, <1>3, <1>12, <1>13
  <2>2. IsGraph(h) /\ EdgeRedirected(h, q, a, right)
    BY <1>7, <1>9, <2>1, RedirectedEffect
  <2>3. h.edges[a].flow = q.edges[a].flow
    BY <1>7, <1>9, <2>1, RedirectedFlow
  <2> QED
    BY <1>1, <1>12, <2>2, <2>3
<1>15. /\ DOMAIN h.nodes = 1..(m + 1) /\ Len(h.edges) = k
       /\ h.edges[a].to = right /\ h.edges[a].from = from
       /\ \A n \in 1..(m + 1) : SameNode(h.nodes[n], q.nodes[n])
       /\ \A n \in 1..m : /\ h.nodes[n].outgoing = g.nodes[n].outgoing
                          /\ h.nodes[n].incoming = IF n = to THEN Dropped(g.nodes[n].incoming, a)
                                                   ELSE g.nodes[n].incoming
  <2>1. /\ DOMAIN h.nodes = 1..(m + 1) /\ Len(h.edges) = k
        /\ h.edges[a].to = right /\ h.edges[a].from = from
        /\ \A n \in 1..(m + 1) : /\ SameNode(h.nodes[n], q.nodes[n])
                                 /\ h.nodes[n].outgoing = q.nodes[n].outgoing
                                 /\ h.nodes[n].incoming = IF n = to THEN Dropped(q.nodes[n].incoming, a)
                                                          ELSE IF n = right THEN Append(q.nodes[n].incoming, a)
                                                          ELSE q.nodes[n].incoming
    <3>1. q.edges[a].to = to /\ q.edges[a].from = from /\ Len(q.edges) = k /\ DOMAIN q.nodes = 1..(m + 1)
      BY <1>1, <1>12
    <3>2. EdgeRedirected(h, q, a, right)
      BY <1>14
    <3> QED
      BY <3>1, <3>2 DEF EdgeRedirected
  <2>2. \A n \in 1..m : n \in 1..(m + 1) /\ n # right /\ q.nodes[n] = g.nodes[n]
    BY <1>12, <1>13
  <2> QED
    BY <2>1, <2>2
<1>16. IsDummyEdge(edge, to, right, flow, FALSE, a)
  <2>1. to \in Nat /\ right \in Nat /\ FALSE \in BOOLEAN
    BY <1>1, <1>3, <1>7
  <2> QED
    BY <1>1, <1>4, <1>7, <2>1, DummyEdgeIsEdge
<1>17. edge \in GraphEdges /\ edge.from = to /\ edge.to = right /\ edge.flow = flow
  BY <1>16 DEF IsDummyEdge
<1>18. IsGraph(r) /\ EdgeAdded(r, h, edge)
  <2>1. edge.from \in DOMAIN h.nodes /\ edge.to \in DOMAIN h.nodes
    BY <1>1, <1>3, <1>12, <1>13, <1>15, <1>17
  <2> QED
    BY <1>8, <1>14, <1>17, <2>1, AddEdgeEffect
<1>19. Len(r.edges) = k + 1 /\ r.edges[k + 1] = edge /\ \A d \in 1..k : r.edges[d] = h.edges[d]
  <2>1. PICK edges \in Seq(GraphEdges) : edges = h.edges
    BY <1>14, GraphParts
  <2>2. r.edges = Append(edges, edge)
    BY <1>18, <2>1 DEF EdgeAdded
  <2> QED
    BY <1>4, <1>15, <1>17, <2>1, <2>2
<1>20. \A n \in 1..(m + 1) : r.nodes[n].layer = q.nodes[n].layer
  <2>1. \A n \in 1..(m + 1) : SameNode(r.nodes[n], h.nodes[n])
    BY <1>15, <1>18 DEF EdgeAdded
  <2> QED
    BY <1>15, <2>1 DEF SameNode
<1>21. \A n \in DOMAIN g.nodes :
          /\ r.nodes[n].outgoing = IF n = to THEN Append(g.nodes[n].outgoing, k + 1)
                                   ELSE g.nodes[n].outgoing
          /\ r.nodes[n].incoming = IF n = to THEN Dropped(g.nodes[n].incoming, a)
                                   ELSE g.nodes[n].incoming
  <2>1. \A n \in 1..(m + 1) :
          /\ r.nodes[n].incoming = IF n = right THEN Append(h.nodes[n].incoming, k + 1)
                                   ELSE h.nodes[n].incoming
          /\ r.nodes[n].outgoing = IF n = to THEN Append(h.nodes[n].outgoing, k + 1)
                                   ELSE h.nodes[n].outgoing
    <3>1. Len(h.edges) + 1 = k + 1 /\ DOMAIN h.nodes = 1..(m + 1) /\ edge.from = to /\ edge.to = right
      BY <1>15, <1>17
    <3>2. EdgeAdded(r, h, edge)
      BY <1>18
    <3> QED
      BY <3>1, <3>2 DEF EdgeAdded
  <2>2. \A n \in DOMAIN g.nodes : n \in 1..m /\ n \in 1..(m + 1) /\ n # right
    BY <1>3, <1>12, <1>13
  <2>3. \A n \in DOMAIN g.nodes :
          /\ h.nodes[n].outgoing = g.nodes[n].outgoing
          /\ h.nodes[n].incoming = IF n = to THEN Dropped(g.nodes[n].incoming, a)
                                   ELSE g.nodes[n].incoming
    BY <1>15, <2>2
  <2> QED
    BY <2>1, <2>2, <2>3
<1>22. r.edges[a].from = from /\ r.edges[a].to = right /\ r.edges[a].flow = flow
  BY <1>1, <1>4, <1>14, <1>15, <1>19
<1>23. r.nodes[right].layer = layer + 1 /\ r.nodes[from].layer = layer /\ r.nodes[to].layer = layer
  BY <1>1, <1>3, <1>11, <1>12, <1>13, <1>20
<1>24. LeadsRight(r, a) /\ LeadsRight(r, k + 1)
  BY <1>17, <1>19, <1>22, <1>23 DEF LeadsRight
<1> QED
  BY <1>2, <1>17, <1>19, <1>21, <1>22, <1>24 DEF ReroutedOverRight

(* Over the node on the left as well: two more edges, the last ones, lead   *)
(* from it to the start and to the end.                                     *)
ReroutedOverBoth(r, g, a, from, to, flow, k) ==
    /\ HasRight(r, g, a) /\ k = Len(g.edges) /\ Len(r.edges) = k + 3
    /\ r.edges[a].flow = flow /\ LeadsRight(r, a)
    /\ \A d \in (k + 1)..(k + 3) : r.edges[d].flow = flow /\ LeadsRight(r, d)
    /\ \A n \in DOMAIN g.nodes :
          /\ r.nodes[n].outgoing = IF n = to THEN Append(g.nodes[n].outgoing, k + 1)
                                   ELSE g.nodes[n].outgoing
          /\ r.nodes[n].incoming = IF n = to THEN Append(Dropped(g.nodes[n].incoming, a), k + 3)
                                   ELSE IF n = from THEN Append(g.nodes[n].incoming, k + 2)
                                   ELSE g.nodes[n].incoming

LEMMA WithLeftNodeEffect ==
    ASSUME NEW g, NEW a, NEW from, NEW to, NEW flow, NEW layer, IsWithin(g, a, from, to, flow, layer),
           layer # 0, NEW k, NEW q, ReroutedOverRight(q, g, a, to, flow, k),
           NEW r, r = WithLeftNode(q, a, from, to)
    PROVE  ReroutedOverBoth(r, g, a, from, to, flow, k)
<1>1. /\ IsGraph(g) /\ a \in DOMAIN g.edges
      /\ from = g.edges[a].from /\ to = g.edges[a].to /\ flow = g.edges[a].flow /\ from # to
      /\ from \in DOMAIN g.nodes /\ to \in DOMAIN g.nodes /\ flow \in {"sequence", "message", "data"}
      /\ layer \in Nat /\ g.nodes[from].layer = layer /\ g.nodes[to].layer = layer
  BY DEF IsWithin
<1>2. /\ HasRight(q, g, a) /\ k = Len(g.edges) /\ Len(q.edges) = k + 1
      /\ q.edges[a].flow = flow /\ q.edges[k + 1].flow = flow
      /\ LeadsRight(q, a) /\ LeadsRight(q, k + 1)
      /\ \A n \in DOMAIN g.nodes :
            /\ q.nodes[n].outgoing = IF n = to THEN Append(g.nodes[n].outgoing, k + 1)
                                     ELSE g.nodes[n].outgoing
            /\ q.nodes[n].incoming = IF n = to THEN Dropped(g.nodes[n].incoming, a)
                                     ELSE g.nodes[n].incoming
  BY DEF ReroutedOverRight
<1>3. /\ IsGraph(q) /\ EndsExist(q) /\ Len(g.nodes) <= Len(q.nodes)
      /\ \A n \in DOMAIN g.nodes : SameNode(q.nodes[n], g.nodes[n])
  BY <1>2 DEF HasRight, Extended
<1>4. HasRight(r, g, a)
  <2>1. g.nodes[from].layer # 0
    BY <1>1
  <2> QED
    BY <1>1, <1>2, <2>1, WithLeftNodeExtends
<1>5. PICK m \in Nat : m = Len(g.nodes) /\ DOMAIN g.nodes = 1..m
  BY <1>1, GraphParts
<1>6. PICK j \in Nat : j = Len(q.nodes) /\ DOMAIN q.nodes = 1..j /\ m <= j
  BY <1>3, <1>5, GraphParts
<1>7. k \in Nat /\ DOMAIN g.edges = 1..k /\ DOMAIN q.edges = 1..(k + 1) /\ a \in Nat
  BY <1>1, <1>2, <1>3, GraphParts
<1>8. from \in 1..j /\ to \in 1..j /\ \A n \in 1..m : n \in 1..j
  BY <1>1, <1>5, <1>6
<1>9. PICK place : place = Place(q.nodes[from])
  OBVIOUS
<1>10. place \in Nat \X Nat /\ q.nodes[from].layer = layer /\ q.nodes[to].layer = layer
  <2>1. q.nodes[from] \in GraphNodes
    BY <1>3, <1>6, <1>8, GraphParts
  <2>2. PICK L : L = Seq(Nat)
    OBVIOUS
  <2>3. place \in Nat \X Nat
    BY <1>9, <2>1, <2>2 DEF GraphNodes, Place
  <2> QED
    BY <1>1, <1>3, <2>3 DEF SameNode
<1>11. layer - 1 \in Nat /\ "Dummy" \in {"Event", "Gateway", "Task", "Data", "Dummy"}
  BY <1>1
<1>12. PICK left, p, d, h, e :
          /\ left = j + 1 /\ p = AddNode(q, "Dummy", place, layer - 1)
          /\ d = DummyEdge(left, from, flow, FALSE, a) /\ h = AddEdge(p, d)
          /\ e = DummyEdge(left, to, flow, FALSE, a)
  OBVIOUS
<1>13. r = AddEdge(h, e)
  BY <1>2, <1>6, <1>9, <1>10, <1>12 DEF WithLeftNode
<1>14. IsGraph(p) /\ NodeAdded(p, q, "Dummy", place, layer - 1)
  BY <1>3, <1>10, <1>11, <1>12, AddNodeEffect
<1>15. PICK new : new = NewNode("Dummy", place, layer - 1)
  OBVIOUS
<1>16. new \in GraphNodes /\ new.layer = layer - 1
  <2>1. IsNewNode(new, "Dummy", place, layer - 1)
    BY <1>10, <1>11, <1>15, NewNodeIsNode
  <2> QED
    BY <2>1 DEF IsNewNode
<1>17. /\ p.edges = q.edges /\ DOMAIN p.nodes = 1..(j + 1) /\ p.nodes[left] = new
       /\ \A n \in 1..j : n \in 1..(j + 1) /\ p.nodes[n] = q.nodes[n]
  <2>1. p.nodes = Append(q.nodes, new) /\ p.edges = q.edges
    BY <1>14, <1>15 DEF NodeAdded
  <2>2. PICK nodes \in Seq(GraphNodes) : nodes = q.nodes
    BY <1>3, GraphParts
  <2> QED
    BY <1>6, <1>12, <1>16, <2>1, <2>2
<1>18. left \in 1..(j + 1) /\ left \notin 1..j /\ left \in Nat /\ from \in Nat /\ to \in Nat
  BY <1>8, <1>12
<1>19. /\ d \in GraphEdges /\ d.from = left /\ d.to = from /\ d.flow = flow
       /\ e \in GraphEdges /\ e.from = left /\ e.to = to /\ e.flow = flow
  <2>1. PICK no \in BOOLEAN : no = FALSE
    OBVIOUS
  <2>2. a \in Nat /\ flow \in {"sequence", "message", "data"}
    BY <1>1, <1>7
  <2>3. d = DummyEdge(left, from, flow, no, a) /\ e = DummyEdge(left, to, flow, no, a)
    BY <1>12, <2>1
  <2>4. IsDummyEdge(d, left, from, flow, no, a)
    BY <1>18, <2>2, <2>3, DummyEdgeIsEdge
  <2>5. IsDummyEdge(e, left, to, flow, no, a)
    BY <1>18, <2>2, <2>3, DummyEdgeIsEdge
  <2> QED
    BY <2>4, <2>5 DEF IsDummyEdge
<1>20. IsGraph(h) /\ EdgeAdded(h, p, d)
  <2>1. d.from \in DOMAIN p.nodes /\ d.to \in DOMAIN p.nodes
    BY <1>8, <1>17, <1>18, <1>19
  <2> QED
    BY <1>12, <1>14, <1>19, <2>1, AddEdgeEffect
<1>21. IsGraph(r) /\ EdgeAdded(r, h, e)
  <2>1. DOMAIN h.nodes = DOMAIN p.nodes
    BY <1>20 DEF EdgeAdded
  <2>2. e.from \in DOMAIN h.nodes /\ e.to \in DOMAIN h.nodes
    BY <1>8, <1>17, <1>18, <1>19, <2>1
  <2> QED
    BY <1>13, <1>19, <1>20, <2>2, AddEdgeEffect
<1>22. /\ Len(r.edges) = k + 3 /\ Len(h.edges) = k + 2 /\ r.edges[k + 2] = d /\ r.edges[k + 3] = e
       /\ \A x \in 1..(k + 1) : r.edges[x] = q.edges[x]
  <2>1. PICK edges \in Seq(GraphEdges) : edges = q.edges
    BY <1>3, GraphParts
  <2>2. h.edges = Append(edges, d) /\ r.edges = Append(Append(edges, d), e)
    BY <1>17, <1>20, <1>21, <2>1 DEF EdgeAdded
  <2>3. PICK l \in Nat : l = k + 1 /\ l = Len(edges)
    BY <1>2, <1>7, <2>1
  <2>4. PICK E : E = GraphEdges
    OBVIOUS
  <2>5. d \in E /\ e \in E /\ edges \in Seq(E)
    BY <1>19, <2>4
  <2>6. PICK more : more = Append(edges, d) /\ more \in Seq(E)
    <3>1. Append(edges, d) \in Seq(E)
      BY <2>5
    <3> QED
      BY <3>1
  <2>7. Len(more) = l + 1 /\ more[l + 1] = d /\ \A x \in 1..l : more[x] = edges[x]
    BY <2>3, <2>5, <2>6
  <2>8. PICK all : all = Append(more, e) /\ all \in Seq(E)
    <3>1. Append(more, e) \in Seq(E)
      BY <2>5, <2>6
    <3> QED
      BY <3>1
  <2>9. Len(all) = l + 2 /\ all[l + 2] = e /\ \A x \in 1..(l + 1) : all[x] = more[x]
    BY <2>3, <2>5, <2>6, <2>7, <2>8
  <2>10. l + 2 = k + 3 /\ l + 1 = k + 2
    BY <1>7, <2>3
  <2>11. \A x \in 1..l : all[x] = edges[x]
    BY <2>7, <2>9
  <2>12. all[l + 1] = d
    BY <2>3, <2>7, <2>9
  <2> QED
    BY <2>1, <2>2, <2>3, <2>6, <2>7, <2>8, <2>9, <2>10, <2>11, <2>12
<1>23. \A n \in 1..(j + 1) : r.nodes[n].layer = p.nodes[n].layer
  <2>1. \A n \in 1..(j + 1) : SameNode(r.nodes[n], h.nodes[n]) /\ SameNode(h.nodes[n], p.nodes[n])
    BY <1>17, <1>20, <1>21 DEF EdgeAdded
  <2> QED
    BY <2>1 DEF SameNode
<1>24. \A n \in DOMAIN g.nodes :
          /\ r.nodes[n].outgoing = q.nodes[n].outgoing
          /\ r.nodes[n].incoming = IF n = to THEN Append(q.nodes[n].incoming, k + 3)
                                   ELSE IF n = from THEN Append(q.nodes[n].incoming, k + 2)
                                   ELSE q.nodes[n].incoming
  <2>1. Len(p.edges) + 1 = k + 2 /\ Len(h.edges) + 1 = k + 3 /\ DOMAIN h.nodes = 1..(j + 1)
    <3>1. Len(p.edges) = k + 1 /\ Len(h.edges) = k + 2
      BY <1>2, <1>17, <1>22
    <3>2. (k + 1) + 1 = k + 2 /\ (k + 2) + 1 = k + 3
      BY <1>7
    <3>3. DOMAIN h.nodes = 1..(j + 1)
      BY <1>17, <1>20 DEF EdgeAdded
    <3> QED
      BY <3>1, <3>2, <3>3
  <2>2. \A n \in 1..(j + 1) :
          /\ h.nodes[n].incoming = IF n = from THEN Append(p.nodes[n].incoming, k + 2)
                                   ELSE p.nodes[n].incoming
          /\ h.nodes[n].outgoing = IF n = left THEN Append(p.nodes[n].outgoing, k + 2)
                                   ELSE p.nodes[n].outgoing
    BY <1>17, <1>19, <1>20, <2>1 DEF EdgeAdded
  <2>3. \A n \in 1..(j + 1) :
          /\ r.nodes[n].incoming = IF n = to THEN Append(h.nodes[n].incoming, k + 3)
                                   ELSE h.nodes[n].incoming
          /\ r.nodes[n].outgoing = IF n = left THEN Append(h.nodes[n].outgoing, k + 3)
                                   ELSE h.nodes[n].outgoing
    BY <1>19, <1>21, <2>1 DEF EdgeAdded
  <2>4. \A n \in 1..m : n \in 1..(j + 1) /\ n # left /\ p.nodes[n] = q.nodes[n]
    BY <1>8, <1>17, <1>18
  <2>5. \A n \in DOMAIN g.nodes : n \in 1..(j + 1) /\ n # left /\ p.nodes[n] = q.nodes[n]
    BY <1>5, <2>4
  <2>6. \A n \in DOMAIN g.nodes : r.nodes[n].outgoing = q.nodes[n].outgoing
    BY <2>2, <2>3, <2>5
  <2>7. ASSUME NEW n \in DOMAIN g.nodes
        PROVE  r.nodes[n].incoming = IF n = to THEN Append(q.nodes[n].incoming, k + 3)
                                     ELSE IF n = from THEN Append(q.nodes[n].incoming, k + 2)
                                     ELSE q.nodes[n].incoming
    <3>1. h.nodes[n].incoming = IF n = from THEN Append(q.nodes[n].incoming, k + 2)
                                ELSE q.nodes[n].incoming
      BY <2>2, <2>5
    <3>2. r.nodes[n].incoming = IF n = to THEN Append(h.nodes[n].incoming, k + 3)
                                ELSE h.nodes[n].incoming
      BY <2>3, <2>5
    <3>3. from # to
      BY <1>1
    <3> QED
      BY <3>1, <3>2, <3>3
  <2> QED
    BY <2>6, <2>7
<1>25. \A n \in 1..j : r.nodes[n].layer = q.nodes[n].layer
  BY <1>17, <1>23
<1>26. LeadsRight(r, a) /\ LeadsRight(r, k + 1)
  <2>1. a \in 1..(k + 1) /\ k + 1 \in 1..(k + 1)
    BY <1>1, <1>7
  <2>2. \A x \in 1..(k + 1) : q.edges[x].from \in 1..j /\ q.edges[x].to \in 1..j
    BY <1>3, <1>6, <1>7 DEF EndsExist
  <2>3. \A x \in 1..(k + 1) : LeadsRight(q, x) => LeadsRight(r, x)
    BY <1>22, <1>25, <2>2 DEF LeadsRight
  <2> QED
    BY <1>2, <2>1, <2>3
<1>27. LeadsRight(r, k + 2) /\ LeadsRight(r, k + 3)
  <2>1. r.nodes[left].layer = layer - 1 /\ r.nodes[from].layer = layer /\ r.nodes[to].layer = layer
    BY <1>8, <1>10, <1>16, <1>17, <1>18, <1>23, <1>25
  <2>2. layer = (layer - 1) + 1
    BY <1>1
  <2> QED
    BY <1>19, <1>22, <2>1, <2>2 DEF LeadsRight
<1>28. \A x \in (k + 1)..(k + 3) : r.edges[x].flow = flow /\ LeadsRight(r, x)
  <2>1. k + 1 \in 1..(k + 1) /\ \A x \in (k + 1)..(k + 3) : x = k + 1 \/ x = k + 2 \/ x = k + 3
    BY <1>7
  <2>2. r.edges[k + 1].flow = flow
    BY <1>2, <1>22, <2>1
  <2>3. r.edges[k + 2].flow = flow /\ r.edges[k + 3].flow = flow
    BY <1>19, <1>22
  <2> QED
    BY ONLY <1>26, <1>27, <2>1, <2>2, <2>3
<1>29. r.edges[a].flow = flow
  <2>1. a \in 1..(k + 1)
    BY <1>1, <1>7
  <2> QED
    BY <1>2, <1>22, <2>1
<1>30. \A n \in DOMAIN g.nodes :
          /\ r.nodes[n].outgoing = IF n = to THEN Append(g.nodes[n].outgoing, k + 1)
                                   ELSE g.nodes[n].outgoing
          /\ r.nodes[n].incoming = IF n = to THEN Append(Dropped(g.nodes[n].incoming, a), k + 3)
                                   ELSE IF n = from THEN Append(g.nodes[n].incoming, k + 2)
                                   ELSE g.nodes[n].incoming
  BY <1>2, <1>24
<1> HIDE DEF LeadsRight
<1> QED
  BY <1>2, <1>4, <1>22, <1>26, <1>28, <1>29, <1>30 DEF ReroutedOverBoth

(* Undoing it takes the last edges off the lists of its ends.               *)
IsRestored(r, g, id, edge, left) ==
    /\ IsGraph(r) /\ DOMAIN r.nodes = DOMAIN g.nodes /\ Len(r.nodes) = Len(g.nodes)
    /\ Len(r.edges) = Len(g.edges) /\ DOMAIN r.edges = DOMAIN g.edges /\ r.edges[id] = edge
    /\ \A d \in DOMAIN g.edges \ {id} : r.edges[d] = g.edges[d]
    /\ \A n \in DOMAIN g.nodes :
          /\ SameNode(r.nodes[n], g.nodes[n])
          /\ r.nodes[n].outgoing = IF n = edge.to THEN Popped(g.nodes[n].outgoing)
                                   ELSE g.nodes[n].outgoing
          /\ r.nodes[n].incoming =
                IF n = edge.to
                THEN Append(IF left THEN Popped(g.nodes[n].incoming) ELSE g.nodes[n].incoming, id)
                ELSE IF n = edge.from /\ left THEN Popped(g.nodes[n].incoming)
                ELSE g.nodes[n].incoming

LEMMA LeftPoppedEffect ==
    ASSUME NEW g, IsGraph(g), NEW edge, NEW from \in DOMAIN g.nodes, NEW to \in DOMAIN g.nodes,
           from = edge.from, to = edge.to, from # to, NEW r, r = LeftPopped(g, edge)
    PROVE  /\ IsGraph(r) /\ r.edges = g.edges
           /\ DOMAIN r.nodes = DOMAIN g.nodes /\ Len(r.nodes) = Len(g.nodes)
           /\ \A n \in DOMAIN g.nodes :
                 /\ SameNode(r.nodes[n], g.nodes[n])
                 /\ r.nodes[n].outgoing = g.nodes[n].outgoing
                 /\ r.nodes[n].incoming = IF n \in {from, to} THEN Popped(g.nodes[n].incoming)
                                          ELSE g.nodes[n].incoming
<1>1. PICK l1, l2 : l1 = Popped(g.nodes[to].incoming) /\ l2 = Popped(g.nodes[from].incoming)
  OBVIOUS
<1>2. l1 \in Seq(Nat) /\ l2 \in Seq(Nat)
  BY <1>1, NodeLists, PoppedType
<1>3. PICK h : h = [g EXCEPT !.nodes[to].incoming = l1]
  OBVIOUS
<1>4. IsGraph(h) /\ RelistedAt(h, g, to, l1, g.nodes[to].outgoing)
  BY <1>2, <1>3, IncomingReplaced
<1>5. /\ h.edges = g.edges /\ DOMAIN h.nodes = DOMAIN g.nodes /\ Len(h.nodes) = Len(g.nodes)
      /\ \A n \in DOMAIN g.nodes :
            /\ SameNode(h.nodes[n], g.nodes[n])
            /\ h.nodes[n].incoming = IF n = to THEN l1 ELSE g.nodes[n].incoming
            /\ h.nodes[n].outgoing = g.nodes[n].outgoing
  BY <1>4 DEF RelistedAt
<1>6. r = [h EXCEPT !.nodes[from].incoming = l2]
  <2>1. h.nodes[from].incoming = g.nodes[from].incoming
    BY <1>5
  <2>2. h = [g EXCEPT !.nodes[to].incoming = Popped(@)]
    BY <1>1, <1>3
  <2>3. r = [h EXCEPT !.nodes[from].incoming = Popped(@)]
    BY <2>2 DEF LeftPopped
  <2>4. r = [h EXCEPT !.nodes[from].incoming = Popped(h.nodes[from].incoming)]
    BY <2>3
  <2> QED
    BY <1>1, <2>1, <2>4
<1>7. IsGraph(r) /\ RelistedAt(r, h, from, l2, h.nodes[from].outgoing)
  <2>1. from \in DOMAIN h.nodes
    BY <1>5
  <2> QED
    BY <1>2, <1>4, <1>6, <2>1, IncomingReplaced
<1>8. /\ r.edges = h.edges /\ DOMAIN r.nodes = DOMAIN g.nodes /\ Len(r.nodes) = Len(g.nodes)
      /\ \A n \in DOMAIN g.nodes :
            /\ SameNode(r.nodes[n], h.nodes[n])
            /\ r.nodes[n].incoming = IF n = from THEN l2 ELSE h.nodes[n].incoming
            /\ r.nodes[n].outgoing = h.nodes[n].outgoing
  BY <1>5, <1>7 DEF RelistedAt
<1>9. \A n \in DOMAIN g.nodes : SameNode(r.nodes[n], g.nodes[n])
  BY <1>5, <1>8 DEF SameNode
<1> QED
  BY <1>1, <1>5, <1>7, <1>8, <1>9

LEMMA ListedAgainEffect ==
    ASSUME NEW g, IsGraph(g), NEW id \in Nat, NEW to \in DOMAIN g.nodes, NEW r, r = ListedAgain(g, id, to)
    PROVE  /\ IsGraph(r) /\ r.edges = g.edges
           /\ DOMAIN r.nodes = DOMAIN g.nodes /\ Len(r.nodes) = Len(g.nodes)
           /\ \A n \in DOMAIN g.nodes :
                 /\ SameNode(r.nodes[n], g.nodes[n])
                 /\ r.nodes[n].outgoing = IF n = to THEN Popped(g.nodes[n].outgoing)
                                          ELSE g.nodes[n].outgoing
                 /\ r.nodes[n].incoming = IF n = to THEN Append(g.nodes[n].incoming, id)
                                          ELSE g.nodes[n].incoming
<1>1. PICK l1, l2 : l1 = Popped(g.nodes[to].outgoing) /\ l2 = Append(g.nodes[to].incoming, id)
  OBVIOUS
<1>2. l1 \in Seq(Nat) /\ l2 \in Seq(Nat)
  <2>1. PICK s \in Seq(Nat) : s = g.nodes[to].incoming
    BY NodeLists
  <2>2. l2 \in Seq(Nat)
    BY <1>1, <2>1
  <2>3. l1 \in Seq(Nat)
    BY <1>1, NodeLists, PoppedType
  <2> QED
    BY <2>2, <2>3
<1>3. PICK h : h = [g EXCEPT !.nodes[to].outgoing = l1]
  OBVIOUS
<1>4. IsGraph(h) /\ RelistedAt(h, g, to, g.nodes[to].incoming, l1)
  BY <1>2, <1>3, OutgoingReplaced
<1>5. /\ h.edges = g.edges /\ DOMAIN h.nodes = DOMAIN g.nodes /\ Len(h.nodes) = Len(g.nodes)
      /\ \A n \in DOMAIN g.nodes :
            /\ SameNode(h.nodes[n], g.nodes[n])
            /\ h.nodes[n].incoming = g.nodes[n].incoming
            /\ h.nodes[n].outgoing = IF n = to THEN l1 ELSE g.nodes[n].outgoing
  BY <1>4 DEF RelistedAt
<1>6. r = [h EXCEPT !.nodes[to].incoming = l2]
  <2>2. r = [g EXCEPT !.nodes[to].outgoing = l1, !.nodes[to].incoming = Append(@, id)]
    BY <1>1 DEF ListedAgain
  <2>3. r = [h EXCEPT !.nodes[to].incoming = Append(g.nodes[to].incoming, id)]
    BY <1>3, <2>2
  <2> QED
    BY <1>1, <2>3
<1>7. IsGraph(r) /\ RelistedAt(r, h, to, l2, h.nodes[to].outgoing)
  BY <1>2, <1>4, <1>5, <1>6, IncomingReplaced
<1>8. /\ r.edges = h.edges /\ DOMAIN r.nodes = DOMAIN g.nodes /\ Len(r.nodes) = Len(g.nodes)
      /\ \A n \in DOMAIN g.nodes :
            /\ SameNode(r.nodes[n], h.nodes[n])
            /\ r.nodes[n].incoming = IF n = to THEN l2 ELSE h.nodes[n].incoming
            /\ r.nodes[n].outgoing = h.nodes[n].outgoing
  BY <1>5, <1>7 DEF RelistedAt
<1>9. \A n \in DOMAIN g.nodes : SameNode(r.nodes[n], g.nodes[n])
  BY <1>5, <1>8 DEF SameNode
<1> QED
  BY <1>1, <1>5, <1>7, <1>8, <1>9

LEMMA RestoredEffect ==
    ASSUME NEW g, IsGraph(g), NEW id \in DOMAIN g.edges, NEW edge \in GraphEdges,
           NEW from \in DOMAIN g.nodes, NEW to \in DOMAIN g.nodes,
           from = edge.from, to = edge.to, from # to,
           NEW left, left = (g.nodes[to].layer # 0), NEW r, r = Restored(g, id, edge)
    PROVE  IsRestored(r, g, id, edge, left)
<1>1. PICK h : h = [g EXCEPT !.edges[id] = edge]
  OBVIOUS
<1>2. IsGraph(h) /\ h.nodes = g.nodes
  BY <1>1, EdgeReplaced
<1>3. /\ h.edges = [g.edges EXCEPT ![id] = edge] /\ DOMAIN h.edges = DOMAIN g.edges
      /\ Len(h.edges) = Len(g.edges)
  <2>1. PICK k \in Nat : k = Len(g.edges) /\ DOMAIN g.edges = 1..k
    BY GraphParts
  <2>2. PICK j \in Nat : j = Len(h.edges) /\ DOMAIN h.edges = 1..j
    BY <1>2, GraphParts
  <2>3. h.edges = [g.edges EXCEPT ![id] = edge]
    <3>1. PICK P : g \in [nodes : Seq(GraphNodes), edges : Seq(GraphEdges), lanes : P, numLayers : Nat]
      BY DEF IsGraph
    <3> QED
      BY <1>1, <3>1
  <2>4. 1..j = 1..k
    BY <2>1, <2>2, <2>3
  <2>5. j = k
    BY <2>1, <2>2, <2>4
  <2> QED
    BY <2>1, <2>2, <2>3, <2>5
<1>4. PICK p : p = IF left THEN LeftPopped(h, edge) ELSE h
  OBVIOUS
<1>5. /\ IsGraph(p) /\ p.edges = h.edges
      /\ DOMAIN p.nodes = DOMAIN g.nodes /\ Len(p.nodes) = Len(g.nodes)
      /\ \A n \in DOMAIN g.nodes :
            /\ SameNode(p.nodes[n], g.nodes[n])
            /\ p.nodes[n].outgoing = g.nodes[n].outgoing
            /\ p.nodes[n].incoming = IF left /\ n \in {from, to} THEN Popped(g.nodes[n].incoming)
                                     ELSE g.nodes[n].incoming
  <2>1. CASE left
    <3>1. p = LeftPopped(h, edge) /\ from \in DOMAIN h.nodes /\ to \in DOMAIN h.nodes
      BY <1>2, <1>4, <2>1
    <3>2. /\ IsGraph(p) /\ p.edges = h.edges
          /\ DOMAIN p.nodes = DOMAIN h.nodes /\ Len(p.nodes) = Len(h.nodes)
          /\ \A n \in DOMAIN h.nodes :
                /\ SameNode(p.nodes[n], h.nodes[n])
                /\ p.nodes[n].outgoing = h.nodes[n].outgoing
                /\ p.nodes[n].incoming = IF n \in {from, to} THEN Popped(h.nodes[n].incoming)
                                         ELSE h.nodes[n].incoming
      BY <1>2, <3>1, LeftPoppedEffect
    <3> QED
      BY <1>2, <2>1, <3>2
  <2>2. CASE ~left
    BY <1>2, <1>4, <2>2 DEF SameNode
  <2> QED
    BY <2>1, <2>2
<1>6. id \in Nat
  BY GraphParts
<1>7. r = ListedAgain(p, id, to)
  <2>1. r = ListedAgain(IF g.nodes[edge.to].layer = 0 THEN h ELSE LeftPopped(h, edge), id, edge.to)
    BY <1>1 DEF Restored
  <2>2. (g.nodes[edge.to].layer = 0) = ~left
    OBVIOUS
  <2> QED
    BY <1>4, <2>1, <2>2
<1>8. /\ IsGraph(r) /\ r.edges = p.edges
      /\ DOMAIN r.nodes = DOMAIN p.nodes /\ Len(r.nodes) = Len(p.nodes)
      /\ \A n \in DOMAIN p.nodes :
            /\ SameNode(r.nodes[n], p.nodes[n])
            /\ r.nodes[n].outgoing = IF n = to THEN Popped(p.nodes[n].outgoing)
                                     ELSE p.nodes[n].outgoing
            /\ r.nodes[n].incoming = IF n = to THEN Append(p.nodes[n].incoming, id)
                                     ELSE p.nodes[n].incoming
  <2>1. IsGraph(p) /\ to \in DOMAIN p.nodes
    BY <1>5
  <2> QED
    BY <1>6, <1>7, <2>1, ListedAgainEffect
<1>9. \A n \in DOMAIN g.nodes : SameNode(r.nodes[n], g.nodes[n])
  BY <1>5, <1>8 DEF SameNode
<1>10. /\ Len(r.edges) = Len(g.edges) /\ DOMAIN r.edges = DOMAIN g.edges /\ r.edges[id] = edge
       /\ \A d \in DOMAIN g.edges \ {id} : r.edges[d] = g.edges[d]
  BY <1>3, <1>5, <1>8
<1>11. \A n \in DOMAIN g.nodes :
          /\ r.nodes[n].outgoing = IF n = to THEN Popped(g.nodes[n].outgoing)
                                   ELSE g.nodes[n].outgoing
          /\ r.nodes[n].incoming =
                IF n = to
                THEN Append(IF left THEN Popped(g.nodes[n].incoming) ELSE g.nodes[n].incoming, id)
                ELSE IF n = from /\ left THEN Popped(g.nodes[n].incoming)
                ELSE g.nodes[n].incoming
  BY <1>5, <1>8
<1>12. IsGraph(r) /\ DOMAIN r.nodes = DOMAIN g.nodes /\ Len(r.nodes) = Len(g.nodes)
  BY <1>5, <1>8
<1> QED
  BY <1>9, <1>10, <1>11, <1>12 DEF IsRestored

-----------------------------------------------------------------------------
(* The theorems *)

(* An ended process has no column to keep.                                  *)
LEMMA CrossingPanicKeeps ==
    ASSUME CrossingInv, CrossingPanic
    PROVE  CrossingInv'
<1>1. phase' = "panic" /\ UNCHANGED <<parsed, graph, at, before, saved>>
  BY DEF CrossingPanic, Panic
<1>2. phase' \notin Phases /\ phase' \notin CrossingPhases /\ phase' \notin {"crossings", "order", "lone"}
  BY <1>1 DEF Phases, CrossingPhases
<1>3. CrossingTypeOK'
  <2>1. IsGraph(graph)' /\ IsGraph(before)'
    BY <1>1 DEF CrossingInv, CrossingTypeOK, IsGraph
  <2> QED
    BY <1>1, <2>1 DEF CrossingInv, CrossingTypeOK
<1>4. StartInv' /\ KeptInv' /\ ReroutingInv' /\ WholeInv' /\ LinksInv'
  BY <1>1, <1>2, LinksInvIn DEF StartInv, KeptInv, ReroutingInv, WholeInv
<1> QED
  BY <1>3, <1>4 DEF CrossingInv

(* Nothing happens.                                                         *)
LEMMA CrossingStutterKeeps ==
    ASSUME CrossingInv, UNCHANGED crossingVars
    PROVE  CrossingInv'
<1>1. UNCHANGED <<parsed, graph, phase, at, before, saved>>
  BY DEF crossingVars
<1>2. CASE phase \in CrossingPhases
  <2>1. InvAt(graph', before', phase', at', saved')
    BY <1>1, <1>2, CrossingInvIn
  <2> QED
    BY <2>1, CrossingInvIn
<1>3. CASE phase \notin CrossingPhases
  <2>1. CrossingTypeOK'
    <3>1. IsGraph(graph)' /\ IsGraph(before)'
      BY <1>1 DEF CrossingInv, CrossingTypeOK, IsGraph
    <3> QED
      BY <1>1, <3>1 DEF CrossingInv, CrossingTypeOK
  <2>2. StartInv'
    <3>1. phase \in Phases => LayersInv
      BY DEF CrossingInv, StartInv
    <3>2. LayersInv => LayersInv'
      <4>1. UNCHANGED vars
        BY <1>1 DEF vars
      <4> QED
        BY <4>1, LayersStep
    <3> QED
      BY <1>1, <3>1, <3>2 DEF CrossingInv, StartInv
  <2>3. KeptInv' /\ ReroutingInv' /\ WholeInv' /\ LinksInv'
    <3>1. phase' \notin CrossingPhases /\ phase' \notin {"crossings", "order", "lone"}
      BY <1>1, <1>3 DEF CrossingPhases
    <3> QED
      BY <3>1, LinksInvIn DEF KeptInv, ReroutingInv, WholeInv
  <2> QED
    BY <2>1, <2>2, <2>3 DEF CrossingInv
<1> QED
  BY <1>2, <1>3

(* A parsed file is laid out from the start.                                *)
LEMMA CrossingStarts ==
    ASSUME CrossingInit
    PROVE  CrossingInv
<1>1. LayersInv /\ phase = "layers" /\ at = 1 /\ before = graph /\ saved = <<>>
  <2>1. Init /\ before = graph /\ saved = <<>>
    BY DEF CrossingInit
  <2>2. LayersInv
    BY <2>1, InitLayers
  <2> QED
    BY <2>1, <2>2 DEF Init
<1>2. CrossingTypeOK
  <2>1. /\ IsGraph(graph)
        /\ \A n \in DOMAIN graph.nodes : graph.nodes[n].above = 0 /\ graph.nodes[n].below = 0
    BY <1>1 DEF LayersInv, TypeOK
  <2>2. Len(graph.nodes) \in Nat
    BY <2>1, GraphParts
  <2> QED
    BY <1>1, <2>1, <2>2 DEF CrossingTypeOK, Phases
<1>3. StartInv
  BY <1>1 DEF StartInv
<1>4. phase \notin CrossingPhases /\ phase \notin {"crossings", "order", "lone"}
  BY <1>1 DEF CrossingPhases
<1> QED
  BY <1>1, <1>2, <1>3, <1>4, LinksInvIn DEF CrossingInv, KeptInv, ReroutingInv, WholeInv

(* Every step keeps the invariant.                                          *)
LEMMA CrossingStep ==
    ASSUME CrossingInv, [CrossingNext]_crossingVars
    PROVE  CrossingInv'
<1>1. CASE LayOut
  BY <1>1, LayOutKeeps
<1>2. CASE Reroute
  BY <1>2, RerouteKeeps
<1>3. CASE OrderLayer
  BY <1>3, OrderLayerKeeps, CrossingPanicKeeps
<1>4. CASE PlaceLoneData
  BY <1>4, PlaceLoneDataKeeps, CrossingPanicKeeps
<1>5. CASE Undo
  BY <1>5, UndoKeeps
<1>6. CASE SortEdges
  BY <1>6, SortEdgesKeeps, CrossingPanicKeeps
<1>7. CASE CrossingTerminated \/ UNCHANGED crossingVars
  <2>1. UNCHANGED crossingVars
    BY <1>7 DEF CrossingTerminated
  <2> QED
    BY <2>1, CrossingStutterKeeps
<1> QED
  BY <1>1, <1>2, <1>3, <1>4, <1>5, <1>6, <1>7 DEF CrossingNext, CrossingWork

(* The invariant of the reduction of crossings holds in every state,        *)
(* whatever file is laid out and whatever order is chosen for the nodes of  *)
(* each layer.                                                              *)
THEOREM CrossingInvariant == CrossingSpec => []CrossingInv
<1>1. CrossingInit => CrossingInv
  BY CrossingStarts
<1>2. CrossingInv /\ [CrossingNext]_crossingVars => CrossingInv'
  BY CrossingStep
<1> QED
  BY <1>1, <1>2, PTL DEF CrossingSpec

(* When the rerouting is undone all nodes are linked.                       *)
LEMMA DoneColumns ==
    ASSUME CrossingInv, Done
    PROVE  /\ IsGraph(graph) /\ IsGraph(before) /\ EndsExist(before)
           /\ DOMAIN graph.nodes = DOMAIN before.nodes
           /\ LinkedIn(graph, phase, at) = DOMAIN graph.nodes
           /\ \A n \in DOMAIN graph.nodes : IsLinkedList(graph, InColumn(graph, n))
<1>1. phase \in {"edges", "ports"} /\ phase \in CrossingPhases
  BY DEF Done, CrossingPhases
<1>2. /\ IsGraph(graph) /\ IsGraph(before) /\ KeptAt(graph, before, phase)
      /\ LinksHold(graph, LinkedIn(graph, phase, at))
  BY <1>1, CrossingInvIn DEF InvAt
<1>3. DOMAIN graph.nodes = DOMAIN before.nodes
  <2>1. Len(graph.nodes) = Len(before.nodes)
    BY <1>1, <1>2 DEF KeptAt
  <2> QED
    BY <1>2, <2>1, GraphParts
<1>4. \A m \in DOMAIN graph.nodes : graph.nodes[m].layer < graph.numLayers
  BY <1>2, <1>3 DEF KeptAt
<1>5. LinkedIn(graph, phase, at) = DOMAIN graph.nodes
  BY <1>1, <1>4 DEF LinkedIn
<1>6. \A n \in DOMAIN graph.nodes : InColumn(graph, n) \intersect DOMAIN graph.nodes = InColumn(graph, n)
  BY DEF InColumn
<1>7. EndsExist(before)
  BY <1>2 DEF KeptAt
<1> QED
  BY <1>2, <1>3, <1>5, <1>6, <1>7 DEF LinksHold

(* When the rerouting is undone every column is one list from top to bottom:*)
(* no node is left out, none is linked across columns, and the temporary    *)
(* nodes have left no link behind.                                          *)
THEOREM ColumnsAlwaysLinked == CrossingSpec => []ColumnsAreLinkedLists
<1>1. CrossingInv => ColumnsAreLinkedLists
  BY DoneColumns DEF ColumnsAreLinkedLists
<1> QED
  BY <1>1, CrossingInvariant, PTL
=============================================================================
