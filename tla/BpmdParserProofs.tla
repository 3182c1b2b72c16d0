-------------------------- MODULE BpmdParserProofs --------------------------
(***************************************************************************)
(* Proofs about BpmdParser.  PoolInv is inductive: a sequence flow is made *)
(* either from the lifeline, which never leaves the pool of the grouping,  *)
(* or from two entries under one key, whose nodes are in the key's pool;   *)
(* a data node is put into the pool of all its recipients, and a message   *)
(* flow is refused within a pool.                                          *)
(***************************************************************************)
EXTENDS BpmdParser, FiniteSetTheorems, SequenceTheorems, TLAPS

(* Copies of one value are a sequence. *)
LEMMA CopiesAreSequence ==
    ASSUME NEW S, NEW c \in Nat, NEW x \in S
    PROVE  [i \in 1..c |-> x] \in Seq(S)
OBVIOUS

(* Replacing one element of a sequence leaves a sequence of the same length. *)
LEMMA ReplaceElement ==
    ASSUME NEW S, NEW s \in Seq(S), NEW i \in DOMAIN s, NEW x \in S
    PROVE  /\ [s EXCEPT ![i] = x] \in Seq(S)
           /\ DOMAIN [s EXCEPT ![i] = x] = DOMAIN s
OBVIOUS

(* What a node adds to the dangling flows of a label has the right type. *)
LEMMA MentionsAreDangling ==
    ASSUME NEW S, NEW flows \in Seq(S), NEW l, NEW n \in Nat
    PROVE  Mentions(flows, l, n) \in Seq(Dangling)
<1> DEFINE M == {j \in DOMAIN flows : flows[j] = l}
<1>1. IsFiniteSet(1..Len(flows))
  BY FS_Interval
<1>2. M \subseteq 1..Len(flows)
  OBVIOUS
<1>3. Cardinality(M) \in Nat
  BY <1>1, <1>2, FS_Subset, FS_CardinalityType
<1>4. [node |-> n, boundary |-> FALSE] \in Dangling
  BY DEF Dangling
<1> HIDE DEF M
<1>5. [i \in 1..Cardinality(M) |-> [node |-> n, boundary |-> FALSE]] \in Seq(Dangling)
  BY <1>3, <1>4, CopiesAreSequence
<1> QED
  BY <1>5 DEF Mentions, M

(* A node that mentions a label adds at least one entry under it. *)
LEMMA MentionsWhenMentioned ==
    ASSUME NEW S, NEW flows \in Seq(S), NEW i \in DOMAIN flows, NEW n \in Nat
    PROVE  Mentions(flows, flows[i], n) # <<>>
<1> DEFINE M == {j \in DOMAIN flows : flows[j] = flows[i]}
<1>1. IsFiniteSet(1..Len(flows))
  BY FS_Interval
<1>2. IsFiniteSet(M) /\ Cardinality(M) \in Nat
  BY <1>1, FS_Subset, FS_CardinalityType
<1>3. M # {}
  OBVIOUS
<1> HIDE DEF M
<1>4. Cardinality(M) # 0
  BY <1>2, <1>3, FS_EmptySet
<1>5. 1 \in DOMAIN [j \in 1..Cardinality(M) |-> [node |-> n, boundary |-> FALSE]]
  BY <1>2, <1>4
<1> QED
  BY <1>5 DEF Mentions, M

(* Pushing a node's labels keeps the type of the dangling flows. *)
LEMMA PushType ==
    ASSUME NEW dangling \in [Keys -> Seq(Dangling)], NEW pool,
           NEW flows \in Seq(Labels), NEW n \in Nat
    PROVE  Push(dangling, pool, flows, n) \in [Keys -> Seq(Dangling)]
<1>1. \A k \in Keys : Mentions(flows, k[2], n) \in Seq(Dangling)
  BY MentionsAreDangling
<1> QED
  BY <1>1 DEF Push

(* A bounded sequence is a sequence. *)
LEMMA BoundedIsSeq ==
    ASSUME NEW S, NEW m \in Nat, NEW s \in BoundedSeq(S, m)
    PROVE  s \in Seq(S)
<1>1. PICK k \in 0..m : s \in [1..k -> S]
  BY DEF BoundedSeq, SeqOf
<1>2. k \in Nat
  OBVIOUS
<1> QED
  BY <1>1, <1>2, SeqDef

-----------------------------------------------------------------------------
(* What the shared steps keep *)

(* Nodes are only added, and stay in their pools. *)
NodesKept ==
    /\ DOMAIN nodes \subseteq DOMAIN nodes'
    /\ \A n \in DOMAIN nodes : nodes'[n].pool = nodes[n].pool

(* add_node(): one more node, and the others keep their places. *)
LEMMA AppendNode ==
    ASSUME nodes \in Seq(Node), NEW node \in Node, nodes' = Append(nodes, node)
    PROVE  /\ nodes' \in Seq(Node)
           /\ DOMAIN nodes' = DOMAIN nodes \union {Len(nodes) + 1}
           /\ Len(nodes) + 1 \in Nat \ {0}
           /\ nodes'[Len(nodes) + 1] = node
           /\ NodesKept
BY DEF NodesKept

(* DanglingInPool, of the nodes after the step. *)
InNextPool(dangling) ==
    \A k \in Keys : \A i \in DOMAIN dangling[k] :
        /\ dangling[k][i].node \in DOMAIN nodes'
        /\ nodes'[dangling[k][i].node].pool = k[1]

(* Dangling flows that agree on the pool do so after nodes are added. *)
LEMMA DanglingKept ==
    ASSUME NodesKept, NEW dangling, DanglingInPool(dangling)
    PROVE  InNextPool(dangling)
BY DEF NodesKept, DanglingInPool, InNextPool

(* A node's labels are pushed under the pool of the node. *)
LEMMA PushInPool ==
    ASSUME NodesKept, NEW dangling \in [Keys -> Seq(Dangling)], DanglingInPool(dangling),
           NEW pool, NEW flows \in Seq(Labels), NEW n \in Nat,
           n \in DOMAIN nodes', nodes'[n].pool = pool
    PROVE  InNextPool(Push(dangling, pool, flows, n))
<1> SUFFICES ASSUME NEW k \in Keys, NEW i \in DOMAIN Push(dangling, pool, flows, n)[k]
             PROVE  /\ Push(dangling, pool, flows, n)[k][i].node \in DOMAIN nodes'
                    /\ nodes'[Push(dangling, pool, flows, n)[k][i].node].pool = k[1]
  BY DEF InNextPool
<1>1. CASE k[1] # pool
  BY <1>1, DanglingKept DEF Push, InNextPool
<1>2. CASE k[1] = pool
  <2> DEFINE old == dangling[k]
             new == Mentions(flows, k[2], n)
  <2>1. old \in Seq(Dangling) /\ new \in Seq(Dangling)
    BY MentionsAreDangling
  <2>2. Push(dangling, pool, flows, n)[k] = old \o new
    BY <1>2 DEF Push
  <2>3. \A j \in DOMAIN new : new[j].node = n
    BY DEF Mentions
  <2>4. \A j \in DOMAIN old : old[j].node \in DOMAIN nodes' /\ nodes'[old[j].node].pool = k[1]
    BY DanglingKept DEF InNextPool
  <2> HIDE DEF old, new
  <2>5. CASE i \in DOMAIN old
    BY <2>1, <2>2, <2>4, <2>5
  <2>6. CASE i \notin DOMAIN old
    <3>1. i - Len(old) \in DOMAIN new /\ (old \o new)[i] = new[i - Len(old)]
      BY <2>1, <2>2, <2>6
    <3> QED
      BY <3>1, <2>2, <2>3, <1>2
  <2> QED
    BY <2>5, <2>6
<1> QED
  BY <1>1, <1>2

(* An error drops everything, which keeps the invariant. *)
LEMMA RejectPool ==
    ASSUME NEW reason \in Errors \ {"flow_across_pools"}, Reject(reason)
    PROVE  PoolInv'
<1>1. line' \in 0..MaxLines
  BY BoundsAreNaturals DEF Reject
<1>2. /\ danglingEnd' \in [Keys -> Seq(Dangling)] /\ danglingStart' \in [Keys -> Seq(Dangling)]
      /\ \A k \in Keys : danglingEnd'[k] = <<>> /\ danglingStart'[k] = <<>>
  BY DEF Reject
<1>3. TypeOK'
  <2>1. grouping' \in Grouping /\ cursor' \in [start : Nat, end : Nat]
    BY DEF Reject, NoGrouping, NoCursor, Grouping
  <2>2. pools' \in Seq(Pool) /\ nodes' \in Seq(Node) /\ edges' \in Seq(Edge)
    BY DEF Reject
  <2>3. /\ afterData' \in BOOLEAN /\ elements' \in Nat /\ lifeline' \in Nat
        /\ pending' \in SUBSET Keys /\ key' \in Keys \union {NoKey}
        /\ outcome' \in Errors
    BY DEF Reject
  <2> QED
    BY <1>1, <1>2, <2>1, <2>2, <2>3 DEF TypeOK
<1>4. DanglingInPool(danglingEnd)' /\ DanglingInPool(danglingStart)'
  BY <1>2 DEF DanglingInPool
<1>5. GroupingInv' /\ LifelineInv' /\ CursorInv' /\ EdgesJoinNodes' /\ FlowsRespectPools'
  BY DEF Reject, GroupingInv, NoGrouping, LifelineInv, CursorInv, EdgesJoinNodes,
         FlowsRespectPools
<1>6. NoFlowAcrossPools'
  BY DEF Reject, NoFlowAcrossPools
<1> QED
  BY <1>3, <1>4, <1>5, <1>6 DEF PoolInv

(* Reading a line stays within the bound. *)
LEMMA NextLineType ==
    ASSUME TypeOK, NEW kind, line < MaxLines, NextLine(kind)
    PROVE  line' \in 0..MaxLines /\ afterData' \in BOOLEAN
BY BoundsAreNaturals DEF TypeOK, NextLine

(* The pool of the grouping state is an index. *)
LEMMA GroupingPoolType == ASSUME TypeOK PROVE grouping.pool \in Nat
<1>1. grouping \in Grouping
  BY DEF TypeOK
<1> QED
  BY <1>1 DEF Grouping

(* A new node's pool exists, is where the grouping then is, and was the
   grouping's pool if there was one. *)
LEMMA ManagePool ==
    ASSUME TypeOK, GroupingInv, ManagePoolAndLane
    PROVE  /\ pools' \in Seq(Pool) /\ grouping' \in Grouping
           /\ grouping'.state \notin {"Init", "Pool"}
           /\ grouping'.pool \in DOMAIN pools'
           /\ PlaceForNewNode = [pool |-> grouping'.pool, lane |-> grouping'.lane]
           /\ lifeline # 0 => grouping' = grouping
<1>1. CASE grouping.state = "Init"
  <2>1. /\ pools' = Append(pools, [anonymous |-> TRUE, lanes |-> 1])
        /\ grouping' = [state |-> "AnonymousPool", pool |-> Len(pools) + 1, lane |-> 1]
    BY <1>1 DEF ManagePoolAndLane
  <2>2. [anonymous |-> TRUE, lanes |-> 1] \in Pool
    BY DEF Pool
  <2>3. pools' \in Seq(Pool) /\ DOMAIN pools' = 1..Len(pools) + 1 /\ Len(pools) \in Nat
    BY <2>1, <2>2 DEF TypeOK
  <2>4. grouping' \in Grouping
    BY <2>1, <2>3 DEF Grouping
  <2>5. PlaceForNewNode = [pool |-> Len(pools) + 1, lane |-> 1]
    BY <1>1 DEF PlaceForNewNode
  <2> QED
    BY <1>1, <2>1, <2>3, <2>4, <2>5 DEF GroupingInv
<1>2. CASE grouping.state = "Pool"
  <2> DEFINE p == grouping.pool
  <2>1. p \in DOMAIN pools /\ pools[p] \in Pool
    BY <1>2 DEF TypeOK, GroupingInv
  <2> DEFINE q == [pools[p] EXCEPT !.lanes = @ + 1]
  <2>2. pools[p].lanes \in Nat /\ q \in Pool
    BY <2>1 DEF Pool
  <2>3. pools' = [pools EXCEPT ![p] = q]
    BY <1>2 DEF ManagePoolAndLane
  <2>4. pools' \in Seq(Pool) /\ DOMAIN pools' = DOMAIN pools
    <3>1. pools \in Seq(Pool) /\ q \in Pool
      BY <2>2 DEF TypeOK
    <3> HIDE DEF q
    <3> QED
      BY <2>1, <2>3, <3>1, ReplaceElement
  <2>5. grouping' = [state |-> "AnonymousLane", pool |-> p, lane |-> pools[p].lanes + 1]
    BY <1>2 DEF ManagePoolAndLane
  <2>6. grouping' \in Grouping
    <3>1. p \in Nat /\ pools[p].lanes + 1 \in Nat
      BY <2>2, GroupingPoolType
    <3> HIDE DEF p
    <3> QED
      BY <2>5, <3>1 DEF Grouping
  <2>7. PlaceForNewNode = [pool |-> p, lane |-> pools[p].lanes + 1]
    BY <1>2 DEF PlaceForNewNode
  <2> QED
    BY <1>2, <2>1, <2>4, <2>5, <2>6, <2>7 DEF GroupingInv
<1>3. CASE grouping.state \notin {"Init", "Pool"}
  BY <1>3 DEF ManagePoolAndLane, PlaceForNewNode, TypeOK, GroupingInv
<1> QED
  BY <1>1, <1>2, <1>3

(* Edges that respect the pools, and join nodes, do so after more are added. *)
LEMMA AddEdges ==
    ASSUME TypeOK, EdgesJoinNodes, FlowsRespectPools, NodesKept,
           NEW new \in Seq(Edge), edges' = edges \o new,
           \A i \in DOMAIN new :
              /\ new[i].from \in DOMAIN nodes' /\ new[i].to \in DOMAIN nodes'
              /\ new[i].flow = "message" <=> nodes'[new[i].from].pool # nodes'[new[i].to].pool
    PROVE  edges' \in Seq(Edge) /\ EdgesJoinNodes' /\ FlowsRespectPools'
<1>1. edges \in Seq(Edge) /\ edges' \in Seq(Edge)
  BY DEF TypeOK
<1>2. ASSUME NEW e \in DOMAIN edges'
      PROVE  /\ edges'[e].from \in DOMAIN nodes' /\ edges'[e].to \in DOMAIN nodes'
             /\ edges'[e].flow = "message"
                  <=> nodes'[edges'[e].from].pool # nodes'[edges'[e].to].pool
  <2>1. CASE e \in DOMAIN edges
    <3>1. edges'[e] = edges[e]
      BY <1>1, <2>1
    <3> QED
      BY <2>1, <3>1 DEF EdgesJoinNodes, FlowsRespectPools, NodesKept
  <2>2. CASE e \notin DOMAIN edges
    <3>1. e - Len(edges) \in DOMAIN new /\ edges'[e] = new[e - Len(edges)]
      BY <1>1, <1>2, <2>2
    <3> QED
      BY <3>1
  <2> QED
    BY <2>1, <2>2
<1> QED
  BY <1>1, <1>2 DEF EdgesJoinNodes, FlowsRespectPools

(* add_edge() with ends in the right pools keeps what the edges respect. *)
LEMMA AddEdge ==
    ASSUME TypeOK, EdgesJoinNodes, FlowsRespectPools, NodesKept,
           NEW edge \in Edge, edges' = Append(edges, edge),
           edge.from \in DOMAIN nodes', edge.to \in DOMAIN nodes',
           edge.flow = "message" <=> nodes'[edge.from].pool # nodes'[edge.to].pool
    PROVE  edges' \in Seq(Edge) /\ EdgesJoinNodes' /\ FlowsRespectPools'
<1>1. edges' = edges \o <<edge>> /\ <<edge>> \in Seq(Edge)
  BY DEF TypeOK
<1>2. \A i \in DOMAIN <<edge>> : <<edge>>[i] = edge
  OBVIOUS
<1> QED
  BY <1>1, <1>2, AddEdges

(* Adding nodes disturbs no edge. *)
LEMMA KeepEdges ==
    ASSUME TypeOK, EdgesJoinNodes, FlowsRespectPools, NodesKept, edges' = edges
    PROVE  edges' \in Seq(Edge) /\ EdgesJoinNodes' /\ FlowsRespectPools'
BY DEF TypeOK, EdgesJoinNodes, FlowsRespectPools, NodesKept

-----------------------------------------------------------------------------
(* Every step keeps the invariant *)

(* A new flow node, connected to the lifeline, keeps it.                    *)
LEMMA AddFlowNodePool ==
    ASSUME PoolInv, outcome = "reading", line < MaxLines,
           NEW kind \in {"Event", "Gateway", "Task"}, NEW visual \in Visuals,
           NEW landings \in Seq(Labels), NEW jumps \in Seq(Labels), NEW position,
           AddFlowNode(kind, visual, landings, jumps, position)
    PROVE  PoolInv'
<1> DEFINE place == PlaceForNewNode
           n == Len(nodes) + 1
<1> USE DEF PoolInv
<1>1. CASE \E reason \in ConnectError(landings, position) : Reject(reason)
  <2>1. ConnectError(landings, position) \subseteq Errors \ {"flow_across_pools"}
    BY DEF ConnectError, Errors
  <2> QED
    BY <1>1, <2>1, RejectPool
<1>2. CASE /\ ConnectError(landings, position) = {}
           /\ NextLine(kind)
           /\ ManagePoolAndLane
           /\ nodes' = Append(nodes, FlowNode(kind, visual, place))
           /\ edges' = IF landings = <<>> /\ position # "Start"
                       THEN Append(edges, SequenceFlow(lifeline, n, FALSE))
                       ELSE edges
           /\ danglingStart' = Push(danglingStart, place.pool, landings, n)
           /\ danglingEnd' = Push(danglingEnd, place.pool, jumps, n)
           /\ lifeline' = IF jumps # <<>> \/ position = "End" THEN 0 ELSE n
           /\ UNCHANGED <<outcome, elements, connecting>>
  <2>1. /\ pools' \in Seq(Pool) /\ grouping' \in Grouping
        /\ grouping'.state \notin {"Init", "Pool"} /\ grouping'.pool \in DOMAIN pools'
        /\ place = [pool |-> grouping'.pool, lane |-> grouping'.lane]
        /\ lifeline # 0 => grouping' = grouping
    BY <1>2, ManagePool
  <2>2. /\ place.pool = grouping'.pool /\ place.pool \in Nat /\ place.lane \in Nat
        /\ FlowNode(kind, visual, place) \in Node
        /\ FlowNode(kind, visual, place).pool = grouping'.pool
    <3>1. grouping'.pool \in Nat /\ grouping'.lane \in Nat
      BY <2>1 DEF Grouping
    <3> HIDE DEF place
    <3> QED
      BY <2>1, <3>1 DEF FlowNode, Node, Kinds, Visuals
  <2> HIDE DEF place
  <2>3. /\ nodes' \in Seq(Node) /\ DOMAIN nodes' = DOMAIN nodes \union {n}
        /\ n \in Nat \ {0} /\ nodes'[n].pool = place.pool /\ NodesKept
    BY <1>2, <2>2, AppendNode DEF TypeOK
  <2> HIDE DEF n
  <2>4. edges' \in Seq(Edge) /\ EdgesJoinNodes' /\ FlowsRespectPools'
    <3>1. CASE landings = <<>> /\ position # "Start"
      <4>1. lifeline # 0
        BY <1>2, <3>1 DEF ConnectError
      <4>2. /\ lifeline \in DOMAIN nodes' /\ nodes'[lifeline].pool = place.pool
            /\ lifeline \in Nat
        BY <2>1, <2>2, <2>3, <4>1 DEF LifelineInv, NodesKept, TypeOK
      <4>3. edges' = Append(edges, SequenceFlow(lifeline, n, FALSE))
        BY <1>2, <3>1
      <4>4. /\ SequenceFlow(lifeline, n, FALSE) \in Edge
            /\ SequenceFlow(lifeline, n, FALSE).from = lifeline
            /\ SequenceFlow(lifeline, n, FALSE).to = n
            /\ SequenceFlow(lifeline, n, FALSE).flow = "sequence"
        BY <2>3, <4>2 DEF SequenceFlow, Edge
      <4> QED
        BY <2>3, <4>2, <4>3, <4>4, AddEdge
    <3>2. CASE ~(landings = <<>> /\ position # "Start")
      BY <1>2, <2>3, <3>2, KeepEdges
    <3> QED
      BY <3>1, <3>2
  <2>5. /\ danglingEnd' \in [Keys -> Seq(Dangling)]
        /\ danglingStart' \in [Keys -> Seq(Dangling)]
    BY <1>2, <2>3, PushType DEF TypeOK
  <2>6. DanglingInPool(danglingEnd)' /\ DanglingInPool(danglingStart)'
    <3>1. /\ danglingEnd \in [Keys -> Seq(Dangling)] /\ DanglingInPool(danglingEnd)
          /\ danglingStart \in [Keys -> Seq(Dangling)] /\ DanglingInPool(danglingStart)
          /\ n \in Nat /\ n \in DOMAIN nodes'
      BY <2>3 DEF TypeOK
    <3>2. DanglingInPool(danglingEnd)'
      <4>1. InNextPool(Push(danglingEnd, place.pool, jumps, n))
        BY <2>3, <3>1, PushInPool
      <4> QED
        BY <1>2, <4>1 DEF DanglingInPool, InNextPool
    <3>3. DanglingInPool(danglingStart)'
      <4>1. InNextPool(Push(danglingStart, place.pool, landings, n))
        BY <2>3, <3>1, PushInPool
      <4> QED
        BY <1>2, <4>1 DEF DanglingInPool, InNextPool
    <3> QED
      BY <3>2, <3>3
  <2>7. line' \in 0..MaxLines /\ afterData' \in BOOLEAN
    BY <1>2, NextLineType
  <2>8. TypeOK'
    BY <1>2, <2>1, <2>3, <2>4, <2>5, <2>7 DEF TypeOK, connecting
  <2>9. GroupingInv' /\ LifelineInv'
    <3>1. GroupingInv'
      BY <2>1 DEF GroupingInv
    <3>2. lifeline' \in {0, n}
      BY <1>2
    <3> QED
      BY <2>2, <2>3, <3>1, <3>2 DEF LifelineInv
  <2>10. CursorInv' /\ NoFlowAcrossPools'
    BY <1>2 DEF CursorInv, NoFlowAcrossPools, connecting
  <2> QED
    BY <2>4, <2>6, <2>8, <2>9, <2>10
<1> QED
  BY <1>1, <1>2 DEF AddFlowNode, NextLifeline

(* A pool statement, which needs an idle lifeline, keeps the invariant. *)
LEMMA ParsePoolPool ==
    ASSUME PoolInv, ParsePool
    PROVE  PoolInv'
<1> USE DEF PoolInv
<1>1. CASE lifeline # 0 /\ Reject("unfinished_lifeline")
  BY <1>1, RejectPool DEF Errors
<1>2. CASE lifeline = 0
  <2> DEFINE new == [anonymous |-> FALSE, lanes |-> 0]
  <2>1. /\ line < MaxLines /\ NextLine("Pool")
        /\ pools' = Append(pools, new)
        /\ grouping' = [state |-> "Pool", pool |-> Len(pools) + 1, lane |-> 0]
        /\ UNCHANGED <<outcome, nodes, edges, elements, lifeline,
                       danglingEnd, danglingStart, connecting>>
    BY <1>2 DEF ParsePool, CanRead
  <2>2. /\ pools' \in Seq(Pool) /\ DOMAIN pools' = DOMAIN pools \union {Len(pools) + 1}
        /\ Len(pools) \in Nat
    <3>1. new \in Pool
      BY DEF Pool
    <3> QED
      BY <2>1, <3>1 DEF TypeOK
  <2>3. grouping' \in Grouping /\ grouping'.pool \in DOMAIN pools' /\ grouping'.state = "Pool"
    BY <2>1, <2>2 DEF Grouping
  <2>4. line' \in 0..MaxLines /\ afterData' \in BOOLEAN
    BY <2>1, NextLineType
  <2>5. TypeOK'
    BY <2>1, <2>2, <2>3, <2>4 DEF TypeOK, connecting
  <2>6. GroupingInv' /\ LifelineInv'
    BY <1>2, <2>1, <2>3 DEF GroupingInv, LifelineInv
  <2>7. CursorInv' /\ DanglingInPool(danglingEnd)' /\ DanglingInPool(danglingStart)'
    BY <2>1 DEF CursorInv, DanglingInPool, connecting
  <2>8. EdgesJoinNodes' /\ FlowsRespectPools' /\ NoFlowAcrossPools'
    BY <2>1 DEF EdgesJoinNodes, FlowsRespectPools, NoFlowAcrossPools
  <2> QED
    BY <2>5, <2>6, <2>7, <2>8
<1> QED
  BY <1>1, <1>2 DEF ParsePool

(* A lane statement keeps the invariant. *)
LEMMA ParseLanePool ==
    ASSUME PoolInv, ParseLane
    PROVE  PoolInv'
<1> USE DEF PoolInv
<1>1. CASE \E reason \in LaneError : Reject(reason)
  <2>1. LaneError \subseteq Errors \ {"flow_across_pools"}
    BY DEF LaneError, Errors
  <2> QED
    BY <1>1, <2>1, RejectPool
<1>2. CASE /\ LaneError = {}
           /\ NextLine("Lane")
           /\ pools' = [pools EXCEPT ![grouping.pool].lanes = @ + 1]
           /\ grouping' = [state |-> "Lane", pool |-> grouping.pool,
                           lane |-> pools[grouping.pool].lanes + 1]
           /\ UNCHANGED <<outcome, nodes, edges, elements, lifeline,
                          danglingEnd, danglingStart, connecting>>
  <2> DEFINE p == grouping.pool
  <2>1. lifeline = 0 /\ grouping.state # "Init"
    BY <1>2 DEF LaneError
  <2>2. p \in DOMAIN pools /\ pools[p] \in Pool
    BY <2>1 DEF GroupingInv, TypeOK
  <2> DEFINE q == [pools[p] EXCEPT !.lanes = @ + 1]
  <2>3. pools[p].lanes \in Nat /\ q \in Pool
    BY <2>2 DEF Pool
  <2>4. pools' = [pools EXCEPT ![p] = q]
    BY <1>2
  <2>5. pools' \in Seq(Pool) /\ DOMAIN pools' = DOMAIN pools
    <3>1. pools \in Seq(Pool) /\ q \in Pool
      BY <2>3 DEF TypeOK
    <3> HIDE DEF q
    <3> QED
      BY <2>2, <2>4, <3>1, ReplaceElement
  <2>6. grouping' \in Grouping /\ grouping'.pool = p /\ grouping'.state = "Lane"
    <3>1. p \in Nat /\ pools[p].lanes + 1 \in Nat
      BY <2>3, GroupingPoolType
    <3>2. grouping' = [state |-> "Lane", pool |-> p, lane |-> pools[p].lanes + 1]
      BY <1>2
    <3> HIDE DEF p, PoolInv
    <3> QED
      BY <3>1, <3>2 DEF Grouping
  <2>7. line' \in 0..MaxLines /\ afterData' \in BOOLEAN
    BY <1>2, NextLineType DEF ParseLane, CanRead
  <2>8. TypeOK'
    BY <1>2, <2>5, <2>6, <2>7 DEF TypeOK, connecting
  <2>9. GroupingInv' /\ LifelineInv'
    <3>1. lifeline' = 0 /\ grouping'.pool \in DOMAIN pools'
      BY <1>2, <2>1, <2>2, <2>5, <2>6
    <3> QED
      BY <2>6, <3>1 DEF GroupingInv, LifelineInv
  <2>10. CursorInv' /\ DanglingInPool(danglingEnd)' /\ DanglingInPool(danglingStart)'
    BY <1>2 DEF CursorInv, DanglingInPool, connecting
  <2>11. EdgesJoinNodes' /\ FlowsRespectPools' /\ NoFlowAcrossPools'
    BY <1>2 DEF EdgesJoinNodes, FlowsRespectPools, NoFlowAcrossPools
  <2> QED
    BY <2>8, <2>9, <2>10, <2>11
<1> QED
  BY <1>1, <1>2 DEF ParseLane

(* Events, tasks and gateways are flow nodes. *)
LEMMA ParseFlowNodePool ==
    ASSUME PoolInv, ParseEvent \/ ParseEventEnd \/ ParseActivity \/ ParseGateway
    PROVE  PoolInv'
<1>1. {"Start", "Throw", "End", "none"} \subseteq Visuals
  BY DEF Visuals
<1>2. \A m \in Nat : \A s \in BoundedSeq(Labels, m) : s \in Seq(Labels)
  BY BoundedIsSeq
<1>3. <<>> \in Seq(Labels)
  OBVIOUS
<1>4. outcome = "reading" /\ line < MaxLines
  BY DEF ParseEvent, ParseEventEnd, ParseActivity, ParseGateway, CanRead
<1>5. CASE ParseEvent
  BY <1>1, <1>2, <1>4, <1>5, AddFlowNodePool DEF ParseEvent
<1>6. CASE ParseEventEnd
  BY <1>1, <1>2, <1>3, <1>4, <1>6, AddFlowNodePool DEF ParseEventEnd
<1>7. CASE ParseActivity
  BY <1>1, <1>2, <1>4, <1>7, AddFlowNodePool DEF ParseActivity
<1>8. CASE ParseGateway
  BY <1>1, <1>2, <1>4, <1>8, AddFlowNodePool, BoundsAreNaturals DEF ParseGateway
<1> QED
  BY <1>5, <1>6, <1>7, <1>8

(* A boundary event pushes its label under the pool of its task. *)
LEMMA ParseBoundaryEventPool ==
    ASSUME PoolInv, ParseBoundaryEvent
    PROVE  PoolInv'
<1> USE DEF PoolInv
<1>1. CASE \E reason \in BoundaryError : Reject(reason)
  <2>1. BoundaryError \subseteq Errors \ {"flow_across_pools"}
    BY DEF BoundaryError, Errors
  <2> QED
    BY <1>1, <2>1, RejectPool
<1>2. CASE BoundaryError = {} /\ ~\E reason \in BoundaryError : Reject(reason)
  <2>1. /\ line < MaxLines /\ NextLine("Boundary") /\ ManagePoolAndLane
        /\ UNCHANGED <<outcome, nodes, edges, elements, lifeline,
                       danglingStart, connecting>>
    BY <1>2 DEF ParseBoundaryEvent, CanRead
  <2>2. PICK l \in Labels :
          danglingEnd' = [danglingEnd EXCEPT ![<<PlaceForNewNode.pool, l>>] =
                            Append(@, [node |-> lifeline, boundary |-> TRUE])]
    BY <1>2 DEF ParseBoundaryEvent
  <2>3. lifeline # 0 /\ lifeline \in Nat
    BY <1>2 DEF BoundaryError, TypeOK
  <2>4. /\ pools' \in Seq(Pool) /\ grouping' = grouping
        /\ grouping'.state \notin {"Init", "Pool"} /\ grouping'.pool \in DOMAIN pools'
        /\ PlaceForNewNode.pool = grouping.pool
    BY <2>1, <2>3, ManagePool
  <2> DEFINE k0 == <<grouping.pool, l>>
             entry == [node |-> lifeline, boundary |-> TRUE]
  <2>5. entry \in Dangling
    BY <2>3 DEF Dangling
  <2>6. danglingEnd' = [danglingEnd EXCEPT ![k0] = Append(danglingEnd[k0], entry)]
    BY <2>2, <2>4
  <2> HIDE DEF entry
  <2>7. danglingEnd' \in [Keys -> Seq(Dangling)]
    <3>1. danglingEnd \in [Keys -> Seq(Dangling)]
      BY DEF TypeOK
    <3>2. \A s \in Seq(Dangling) : Append(s, entry) \in Seq(Dangling)
      BY <2>5
    <3> HIDE DEF k0
    <3> QED
      BY <2>6, <3>1, <3>2
  <2>8. DanglingInPool(danglingEnd)'
    <3> SUFFICES ASSUME NEW k \in Keys, NEW i \in DOMAIN danglingEnd'[k]
                 PROVE  /\ danglingEnd'[k][i].node \in DOMAIN nodes
                        /\ nodes[danglingEnd'[k][i].node].pool = k[1]
      BY <2>1 DEF DanglingInPool
    <3>1. CASE k = k0
      <4>1. danglingEnd'[k] = Append(danglingEnd[k], entry) /\ danglingEnd[k] \in Seq(Dangling)
        BY <2>6, <3>1 DEF TypeOK
      <4>2. danglingEnd'[k][i] = entry \/ (i \in DOMAIN danglingEnd[k]
                                            /\ danglingEnd'[k][i] = danglingEnd[k][i])
        BY <4>1
      <4> QED
        BY <2>3, <3>1, <4>2 DEF LifelineInv, DanglingInPool, entry
    <3>2. CASE k # k0
      <4>1. danglingEnd'[k] = danglingEnd[k]
        BY <2>6, <3>2 DEF TypeOK
      <4> QED
        BY <4>1 DEF DanglingInPool
    <3> QED
      BY <3>1, <3>2
  <2>9. line' \in 0..MaxLines /\ afterData' \in BOOLEAN
    BY <2>1, NextLineType
  <2>10. TypeOK'
    BY <2>1, <2>4, <2>7, <2>9 DEF TypeOK, connecting
  <2>11. CursorInv' /\ GroupingInv' /\ LifelineInv'
    <3>1. outcome = "reading"
      BY DEF ParseBoundaryEvent, CanRead
    <3>2. CursorInv' /\ LifelineInv'
      BY <2>1, <2>4, <3>1 DEF CursorInv, LifelineInv, connecting
    <3>3. GroupingInv'
      BY <2>4 DEF GroupingInv
    <3> QED
      BY <3>2, <3>3
  <2>12. DanglingInPool(danglingStart)' /\ EdgesJoinNodes' /\ FlowsRespectPools'
         /\ NoFlowAcrossPools'
    BY <2>1 DEF DanglingInPool, EdgesJoinNodes, FlowsRespectPools, NoFlowAcrossPools
  <2> QED
    BY <2>8, <2>10, <2>11, <2>12
<1> QED
  BY <1>1, <1>2 DEF ParseBoundaryEvent

(* A message flow leaves its pool. *)
LEMMA ParseMessageFlowPool ==
    ASSUME PoolInv, ParseMessageFlow
    PROVE  PoolInv'
<1> USE DEF PoolInv
<1>1. CASE Reject("unknown_node") \/ Reject("message_within_pool")
  BY <1>1, RejectPool DEF Errors
<1>2. ASSUME NEW sender \in Registered, NEW receiver \in Registered,
             nodes[sender].pool # nodes[receiver].pool,
             NextLine("MessageFlow"),
             edges' = Append(edges, MessageFlow(sender, receiver)),
             UNCHANGED <<outcome, pools, nodes, elements, context, connecting>>
      PROVE  PoolInv'
  <2>1. sender \in DOMAIN nodes /\ receiver \in DOMAIN nodes
    BY DEF Registered
  <2>2. sender \in Nat /\ receiver \in Nat
    BY <2>1 DEF TypeOK
  <2>3. /\ MessageFlow(sender, receiver) \in Edge
        /\ MessageFlow(sender, receiver).from = sender
        /\ MessageFlow(sender, receiver).to = receiver
        /\ MessageFlow(sender, receiver).flow = "message"
    BY <2>2 DEF MessageFlow, Edge
  <2>4. NodesKept /\ nodes' = nodes
    BY <1>2 DEF NodesKept
  <2>5. edges' \in Seq(Edge) /\ EdgesJoinNodes' /\ FlowsRespectPools'
    BY <1>2, <2>1, <2>3, <2>4, AddEdge
  <2>6. line' \in 0..MaxLines /\ afterData' \in BOOLEAN
    BY <1>2, NextLineType DEF ParseMessageFlow, CanRead
  <2>7. TypeOK'
    BY <1>2, <2>5, <2>6 DEF TypeOK, context, connecting
  <2>8. GroupingInv' /\ LifelineInv' /\ CursorInv' /\ NoFlowAcrossPools'
    BY <1>2 DEF GroupingInv, LifelineInv, CursorInv, NoFlowAcrossPools, context, connecting
  <2>9. DanglingInPool(danglingEnd)' /\ DanglingInPool(danglingStart)'
    BY <1>2 DEF DanglingInPool, context
  <2> QED
    BY <2>5, <2>7, <2>8, <2>9
<1> QED
  BY <1>1, <1>2 DEF ParseMessageFlow

(* Data flows have the type of edges. *)
LEMMA DataFlowType ==
    ASSUME NEW n \in Nat, NEW element \in Nat, NEW r \in [outgoing : BOOLEAN, node : Nat]
    PROVE  DataFlow(n, r, element) \in Edge
BY DEF DataFlow, Edge

(* A data node is in the pool of all its recipients. *)
LEMMA AddDataNodePool ==
    ASSUME PoolInv, outcome = "reading", line < MaxLines, NEW m \in Nat,
           NEW recipients \in BoundedSeq([outgoing : BOOLEAN, node : Registered], m),
           recipients # <<>>, NEW continues \in BOOLEAN,
           AddDataNode(recipients, continues)
    PROVE  PoolInv'
<1> USE DEF PoolInv
<1> DEFINE n == Len(nodes) + 1
           element == IF continues THEN elements ELSE elements + 1
           pool == nodes[recipients[1].node].pool
           flows == [i \in DOMAIN recipients |-> DataFlow(n, recipients[i], element)]
<1>1. /\ \A i \in DOMAIN recipients : nodes[recipients[i].node].pool = pool
      /\ NextLine("Data")
      /\ elements' = element
      /\ edges' = edges \o flows
      /\ UNCHANGED <<outcome, pools, context, connecting>>
  BY DEF AddDataNode
<1>2. PICK lane \in 0..MaxLines :
        nodes' = Append(nodes, [kind |-> "Data", message |-> FALSE, visual |-> "none",
                                pool |-> pool, lane |-> lane, element |-> element])
  BY DEF AddDataNode
<1> DEFINE node == [kind |-> "Data", message |-> FALSE, visual |-> "none",
                    pool |-> pool, lane |-> lane, element |-> element]
<1>3. recipients \in Seq([outgoing : BOOLEAN, node : Registered])
  BY BoundedIsSeq
<1>4. /\ 1 \in DOMAIN recipients
      /\ \A i \in DOMAIN recipients :
            recipients[i] \in [outgoing : BOOLEAN, node : Registered]
  <2> DEFINE R == [outgoing : BOOLEAN, node : Registered]
  <2> HIDE DEF R
  <2>1. recipients \in Seq(R)
    BY <1>3 DEF R
  <2>2. 1 \in DOMAIN recipients /\ \A i \in DOMAIN recipients : recipients[i] \in R
    BY <2>1
  <2> QED
    BY <2>2 DEF R
<1>5. \A i \in DOMAIN recipients :
        /\ recipients[i].node \in DOMAIN nodes
        /\ recipients[i] \in [outgoing : BOOLEAN, node : Nat]
  BY <1>4 DEF Registered, TypeOK
<1>6. pool \in Nat /\ element \in Nat /\ lane \in Nat
  <2>1. nodes[recipients[1].node] \in Node
    BY <1>4, <1>5 DEF TypeOK
  <2>2. pool \in Nat
    BY <2>1 DEF Node
  <2>3. element \in Nat
    BY DEF TypeOK
  <2>4. lane \in Nat
    BY BoundsAreNaturals
  <2> QED
    BY <2>2, <2>3, <2>4
<1> HIDE DEF element
<1>7. node \in Node /\ node.pool = pool
  <2> HIDE DEF pool
  <2> QED
    BY <1>6 DEF Node, Kinds, Visuals
<1>8. nodes \in Seq(Node) /\ nodes' = Append(nodes, node)
  BY <1>2 DEF TypeOK
<1> HIDE DEF node
<1>9. /\ nodes' \in Seq(Node) /\ DOMAIN nodes' = DOMAIN nodes \union {n}
      /\ n \in Nat \ {0} /\ nodes'[n].pool = pool /\ NodesKept
  BY <1>7, <1>8, AppendNode
<1> HIDE DEF n, pool
<1>10. flows \in Seq(Edge) /\ DOMAIN flows = DOMAIN recipients
  <2>1. \A i \in DOMAIN recipients : DataFlow(n, recipients[i], element) \in Edge
    BY <1>5, <1>6, <1>9, DataFlowType
  <2> QED
    BY <1>3, <2>1
<1>11. \A i \in DOMAIN flows :
         /\ flows[i].from \in DOMAIN nodes' /\ flows[i].to \in DOMAIN nodes'
         /\ flows[i].flow = "message" <=> nodes'[flows[i].from].pool # nodes'[flows[i].to].pool
  <2> SUFFICES ASSUME NEW i \in DOMAIN recipients
               PROVE  /\ flows[i].from \in DOMAIN nodes' /\ flows[i].to \in DOMAIN nodes'
                      /\ nodes'[flows[i].from].pool = nodes'[flows[i].to].pool
                      /\ flows[i].flow = "data"
    BY <1>10
  <2>1. /\ flows[i].flow = "data"
        /\ \/ flows[i].from = n /\ flows[i].to = recipients[i].node
           \/ flows[i].from = recipients[i].node /\ flows[i].to = n
    <3>1. flows[i] = DataFlow(n, recipients[i], element)
      OBVIOUS
    <3> HIDE DEF flows
    <3> QED
      BY <3>1 DEF DataFlow
  <2>2. recipients[i].node \in DOMAIN nodes' /\ nodes'[recipients[i].node].pool = pool
    BY <1>1, <1>5, <1>9 DEF NodesKept
  <2> HIDE DEF flows
  <2> QED
    BY <1>9, <2>1, <2>2
<1> HIDE DEF flows
<1>12. edges' \in Seq(Edge) /\ EdgesJoinNodes' /\ FlowsRespectPools'
  BY <1>1, <1>9, <1>10, <1>11, AddEdges
<1>13. line' \in 0..MaxLines /\ afterData' \in BOOLEAN
  BY <1>1, NextLineType
<1>14. TypeOK'
  BY <1>1, <1>6, <1>9, <1>12, <1>13 DEF TypeOK, context, connecting
<1>15. GroupingInv' /\ LifelineInv'
  <2>1. grouping.state # "Init"
    BY <1>4, <1>5 DEF GroupingInv
  <2> QED
    BY <1>1, <1>9, <2>1 DEF GroupingInv, LifelineInv, NodesKept, context
<1>16. CursorInv' /\ NoFlowAcrossPools'
  BY <1>1 DEF CursorInv, NoFlowAcrossPools, context, connecting
<1>17. DanglingInPool(danglingEnd)' /\ DanglingInPool(danglingStart)'
  <2>1. \A k \in Keys : \A i \in DOMAIN danglingEnd[k] :
          /\ danglingEnd[k][i].node \in DOMAIN nodes'
          /\ nodes'[danglingEnd[k][i].node].pool = k[1]
    BY <1>9, DanglingKept DEF InNextPool
  <2>2. \A k \in Keys : \A i \in DOMAIN danglingStart[k] :
          /\ danglingStart[k][i].node \in DOMAIN nodes'
          /\ nodes'[danglingStart[k][i].node].pool = k[1]
    BY <1>9, DanglingKept DEF InNextPool
  <2> QED
    BY <1>1, <2>1, <2>2 DEF DanglingInPool, context
<1> QED
  BY <1>12, <1>14, <1>15, <1>16, <1>17

(* A data statement keeps the invariant. *)
LEMMA ParseDataPool ==
    ASSUME PoolInv, ParseData
    PROVE  PoolInv'
<1>1. CASE Reject("unknown_node") \/ Reject("recipients_in_two_pools")
  BY <1>1, RejectPool DEF Errors
<1>2. CASE ~Reject("unknown_node") /\ ~Reject("recipients_in_two_pools")
  <2>1. PICK recipients \in
               BoundedSeq([outgoing : BOOLEAN, node : Registered], MaxRecipients) :
          /\ recipients # <<>>
          /\ \E continues \in IF afterData THEN BOOLEAN ELSE {FALSE} :
                AddDataNode(recipients, continues)
    BY <1>2 DEF ParseData
  <2>2. PICK continues \in BOOLEAN : AddDataNode(recipients, continues)
    BY <2>1
  <2>3. outcome = "reading" /\ line < MaxLines
    BY DEF ParseData, CanRead
  <2> QED
    BY <2>1, <2>2, <2>3, AddDataNodePool, BoundsAreNaturals
<1> QED
  BY <1>1, <1>2

(* The end of the file keeps the invariant. *)
LEMMA EndOfFilePool ==
    ASSUME PoolInv, EndOfFile
    PROVE  PoolInv'
<1> USE DEF PoolInv
<1>1. CASE Reject("unfinished_lifeline")
  BY <1>1, RejectPool DEF Errors
<1>2. CASE /\ outcome = "reading" /\ outcome' = "connecting"
           /\ pending' = UsedKeys
           /\ UNCHANGED <<line, afterData, graph, context, key, cursor>>
  <2>1. TypeOK'
    BY <1>2 DEF TypeOK, UsedKeys, graph, context
  <2>2. GroupingInv' /\ LifelineInv' /\ NoFlowAcrossPools' /\ CursorInv'
    BY <1>2 DEF GroupingInv, LifelineInv, NoFlowAcrossPools, CursorInv, graph, context
  <2>3. /\ DanglingInPool(danglingEnd)' /\ DanglingInPool(danglingStart)'
        /\ EdgesJoinNodes' /\ FlowsRespectPools'
    BY <1>2 DEF DanglingInPool, EdgesJoinNodes, FlowsRespectPools, graph, context
  <2> QED
    BY <2>1, <2>2, <2>3
<1> QED
  BY <1>1, <1>2 DEF EndOfFile

(* Choosing a label puts the cursor on a pair that exists. *)
LEMMA NextKeyPool ==
    ASSUME PoolInv, NextKey
    PROVE  PoolInv'
<1> USE DEF PoolInv
<1>1. CASE Reject("undefined_label")
  BY <1>1, RejectPool DEF Errors
<1>2. CASE ~Reject("undefined_label")
  <2>1. PICK k \in pending :
          /\ danglingEnd[k] # <<>> /\ danglingStart[k] # <<>>
          /\ key' = k /\ cursor' = [start |-> 1, end |-> 1]
          /\ UNCHANGED <<outcome, line, afterData, graph, context, pending>>
    BY <1>2 DEF NextKey
  <2>2. k \in Keys /\ outcome = "connecting"
    BY DEF TypeOK, NextKey
  <2>3. danglingEnd[k] \in Seq(Dangling) /\ danglingStart[k] \in Seq(Dangling)
    BY <2>2 DEF TypeOK
  <2>4. 1 \in DOMAIN danglingEnd[k] /\ 1 \in DOMAIN danglingStart[k]
    BY <2>1, <2>3
  <2>5. TypeOK'
    BY <2>1, <2>2 DEF TypeOK, graph, context
  <2>6. CursorInv'
    BY <2>1, <2>2, <2>4 DEF CursorInv, context
  <2>7. GroupingInv' /\ LifelineInv' /\ NoFlowAcrossPools'
    BY <2>1 DEF GroupingInv, LifelineInv, NoFlowAcrossPools, graph, context
  <2>8. /\ DanglingInPool(danglingEnd)' /\ DanglingInPool(danglingStart)'
        /\ EdgesJoinNodes' /\ FlowsRespectPools'
    BY <2>1 DEF DanglingInPool, EdgesJoinNodes, FlowsRespectPools, graph, context
  <2> QED
    BY <2>5, <2>6, <2>7, <2>8
<1> QED
  BY <1>1, <1>2

(* The loops over starts and ends leave the cursor on a pair, or finish. *)
LEMMA AdvanceCursorKeeps ==
    ASSUME TypeOK, CursorInv, key # NoKey, AdvanceCursor,
           danglingEnd' = danglingEnd, danglingStart' = danglingStart
    PROVE  /\ pending' \in SUBSET Keys /\ key' \in Keys \union {NoKey}
           /\ cursor' \in [start : Nat, end : Nat]
           /\ key' # NoKey => /\ cursor'.start \in DOMAIN danglingEnd'[key']
                              /\ cursor'.end \in DOMAIN danglingStart'[key']
<1>1. /\ cursor \in [start : Nat, end : Nat] /\ pending \in SUBSET Keys
      /\ key \in Keys
      /\ danglingEnd[key] \in Seq(Dangling) /\ danglingStart[key] \in Seq(Dangling)
  BY DEF TypeOK
<1>2. cursor.start \in DOMAIN danglingEnd[key] /\ cursor.end \in DOMAIN danglingStart[key]
  BY DEF CursorInv
<1>3. CASE cursor.end < Len(danglingStart[key])
  <2>1. cursor' = [cursor EXCEPT !.end = @ + 1] /\ UNCHANGED <<pending, key>>
    BY <1>3 DEF AdvanceCursor
  <2>2. cursor'.start = cursor.start /\ cursor'.end = cursor.end + 1
    BY <1>1, <2>1
  <2> QED
    BY <1>1, <1>2, <1>3, <2>1, <2>2
<1>4. CASE /\ ~(cursor.end < Len(danglingStart[key]))
           /\ cursor.start < Len(danglingEnd[key])
  <2>1. cursor' = [start |-> cursor.start + 1, end |-> 1] /\ UNCHANGED <<pending, key>>
    BY <1>4 DEF AdvanceCursor
  <2>2. cursor'.start = cursor.start + 1 /\ cursor'.end = 1
    BY <2>1
  <2> QED
    BY <1>1, <1>2, <1>4, <2>1, <2>2
<1>5. CASE /\ ~(cursor.end < Len(danglingStart[key]))
           /\ ~(cursor.start < Len(danglingEnd[key]))
  BY <1>1, <1>5 DEF AdvanceCursor, NoCursor
<1> QED
  BY <1>3, <1>4, <1>5

(* Connecting a pair keeps the invariant; its pool check cannot fail. *)
LEMMA ConnectPairPool ==
    ASSUME PoolInv, ConnectPair
    PROVE  PoolInv'
<1> USE DEF PoolInv
<1> DEFINE start == danglingEnd[key][cursor.start]
           end == danglingStart[key][cursor.end]
<1>1. outcome = "connecting" /\ key # NoKey /\ key \in Keys
  BY DEF ConnectPair, TypeOK
<1>2. cursor.start \in DOMAIN danglingEnd[key] /\ cursor.end \in DOMAIN danglingStart[key]
  BY <1>1 DEF CursorInv
<1>3. start \in Dangling /\ end \in Dangling
  BY <1>1, <1>2 DEF TypeOK
<1>4. /\ start.node \in DOMAIN nodes /\ end.node \in DOMAIN nodes
      /\ nodes[start.node].pool = nodes[end.node].pool
  BY <1>1, <1>2 DEF DanglingInPool
<1>5. /\ edges' = Append(edges, SequenceFlow(start.node, end.node, start.boundary))
      /\ AdvanceCursor
      /\ UNCHANGED <<outcome, line, afterData, pools, nodes, elements, context>>
  BY <1>4 DEF ConnectPair
<1> HIDE DEF start, end
<1>6. edges' \in Seq(Edge) /\ EdgesJoinNodes' /\ FlowsRespectPools'
  <2>1. NodesKept /\ nodes' = nodes
    BY <1>5 DEF NodesKept
  <2>2. start.node \in Nat /\ end.node \in Nat /\ start.boundary \in BOOLEAN
    BY <1>3 DEF Dangling
  <2> DEFINE edge == SequenceFlow(start.node, end.node, start.boundary)
  <2>3. edge \in Edge /\ edge.from = start.node /\ edge.to = end.node
        /\ edge.flow = "sequence"
    BY <2>2 DEF SequenceFlow, Edge
  <2> HIDE DEF edge
  <2>4. edges' = Append(edges, edge)
    BY <1>5 DEF edge
  <2> QED
    BY <1>4, <2>1, <2>3, <2>4, AddEdge
<1>7. /\ pending' \in SUBSET Keys /\ key' \in Keys \union {NoKey}
      /\ cursor' \in [start : Nat, end : Nat]
      /\ key' # NoKey => /\ cursor'.start \in DOMAIN danglingEnd'[key']
                         /\ cursor'.end \in DOMAIN danglingStart'[key']
  BY <1>1, <1>5, AdvanceCursorKeeps DEF context
<1>8. TypeOK'
  BY <1>5, <1>6, <1>7 DEF TypeOK, context
<1>9. CursorInv'
  BY <1>1, <1>5, <1>7 DEF CursorInv
<1>10. GroupingInv' /\ LifelineInv' /\ NoFlowAcrossPools'
  BY <1>5 DEF GroupingInv, LifelineInv, NoFlowAcrossPools, context
<1>11. DanglingInPool(danglingEnd)' /\ DanglingInPool(danglingStart)'
  BY <1>5 DEF DanglingInPool, context
<1> QED
  BY <1>6, <1>8, <1>9, <1>10, <1>11

(* The guess of event symbols moves no node. *)
LEMMA ShorthandKeepsPools ==
    ASSUME TypeOK, nodes' = ShorthandProcessed
    PROVE  nodes' \in Seq(Node) /\ DOMAIN nodes' = DOMAIN nodes /\ NodesKept
<1>1. nodes \in Seq(Node)
  BY DEF TypeOK
<1>2. ASSUME NEW n \in DOMAIN nodes
      PROVE  ShorthandProcessed[n] \in Node /\ ShorthandProcessed[n].pool = nodes[n].pool
  <2>1. nodes[n] \in Node
    BY <1>1
  <2>2. MessageVisual(n) \in Visuals
    BY DEF MessageVisual, Visuals
  <2> DEFINE guess == MessageVisual(n)
  <2> HIDE DEF guess
  <2>3. [nodes[n] EXCEPT !.message = TRUE, !.visual = guess] \in Node
    BY <2>1, <2>2 DEF Node, guess
  <2>4. [nodes[n] EXCEPT !.message = TRUE, !.visual = guess].pool = nodes[n].pool
    BY <2>1 DEF Node
  <2>5. ShorthandProcessed[n] = nodes[n]
        \/ ShorthandProcessed[n] = [nodes[n] EXCEPT !.message = TRUE, !.visual = guess]
    BY DEF ShorthandProcessed, guess
  <2> QED
    BY <2>1, <2>3, <2>4, <2>5
<1>3. DOMAIN ShorthandProcessed = DOMAIN nodes
  BY DEF ShorthandProcessed
<1> DEFINE processed(n) ==
        IF nodes[n].kind = "Event" /\ (HasMessage("to", n) \/ HasMessage("from", n))
        THEN [nodes[n] EXCEPT !.message = TRUE, !.visual = MessageVisual(n)]
        ELSE nodes[n]
<1>4. ShorthandProcessed = [n \in DOMAIN nodes |-> processed(n)]
  BY DEF ShorthandProcessed
<1> HIDE DEF processed
<1>5. Len(nodes) \in Nat /\ DOMAIN nodes = 1..Len(nodes)
  BY <1>1
<1>6. ShorthandProcessed \in [1..Len(nodes) -> Node]
  <2>1. \A n \in DOMAIN nodes : processed(n) \in Node
    BY <1>2, <1>4
  <2> QED
    BY <2>1, <1>4, <1>5
<1>7. ShorthandProcessed \in Seq(Node)
  BY <1>5, <1>6, SeqDef
<1> QED
  BY <1>2, <1>3, <1>7 DEF NodesKept

(* The last step keeps the invariant. *)
LEMMA FinishPool ==
    ASSUME PoolInv, Finish
    PROVE  PoolInv'
<1> USE DEF PoolInv
<1>1. CASE Reject("message_endpoint")
  BY <1>1, RejectPool DEF Errors
<1>2. CASE ~Reject("message_endpoint")
  <2>1. /\ outcome = "connecting" /\ outcome' = "accepted"
        /\ nodes' = ShorthandProcessed
        /\ UNCHANGED <<line, afterData, pools, edges, elements, context, connecting>>
    BY <1>2 DEF Finish
  <2>2. nodes' \in Seq(Node) /\ DOMAIN nodes' = DOMAIN nodes /\ NodesKept
    BY <2>1, ShorthandKeepsPools
  <2>3. EdgesJoinNodes' /\ FlowsRespectPools'
    BY <2>1, <2>2, KeepEdges
  <2>4. TypeOK'
    BY <2>1, <2>2 DEF TypeOK, context, connecting
  <2>5. GroupingInv'
    <3>1. nodes = <<>> => nodes' = <<>>
      BY <2>2 DEF TypeOK
    <3> QED
      BY <2>1, <3>1 DEF GroupingInv, context
  <2>6. LifelineInv' /\ CursorInv' /\ NoFlowAcrossPools'
    BY <2>1, <2>2 DEF LifelineInv, CursorInv, NoFlowAcrossPools, NodesKept, context, connecting
  <2>7. DanglingInPool(danglingEnd)' /\ DanglingInPool(danglingStart)'
    <3>1. \A k \in Keys : \A i \in DOMAIN danglingEnd[k] :
            /\ danglingEnd[k][i].node \in DOMAIN nodes'
            /\ nodes'[danglingEnd[k][i].node].pool = k[1]
      BY <2>2, DanglingKept DEF InNextPool
    <3>2. \A k \in Keys : \A i \in DOMAIN danglingStart[k] :
            /\ danglingStart[k][i].node \in DOMAIN nodes'
            /\ nodes'[danglingStart[k][i].node].pool = k[1]
      BY <2>2, DanglingKept DEF InNextPool
    <3> QED
      BY <2>1, <3>1, <3>2 DEF DanglingInPool, context
  <2> QED
    BY <2>3, <2>4, <2>5, <2>6, <2>7
<1> QED
  BY <1>1, <1>2

-----------------------------------------------------------------------------
(* Theorems *)

(* It holds before the first statement.                                     *)
LEMMA InitPool == Init => PoolInv
<1> SUFFICES ASSUME Init PROVE PoolInv
  OBVIOUS
<1>1. TypeOK
  <2>1. /\ outcome = "reading" /\ line \in 0..MaxLines /\ afterData \in BOOLEAN
        /\ elements \in Nat /\ lifeline \in Nat
        /\ pending \in SUBSET Keys /\ key \in Keys \union {NoKey}
    <3>1. line \in 0..MaxLines
      BY BoundsAreNaturals DEF Init
    <3>2. pending \in SUBSET Keys /\ key \in Keys \union {NoKey}
      BY Zenon DEF Init
    <3> QED
      BY <3>1, <3>2 DEF Init
  <2>2. pools \in Seq(Pool) /\ nodes \in Seq(Node) /\ edges \in Seq(Edge)
    BY DEF Init
  <2>3. grouping \in Grouping /\ cursor \in [start : Nat, end : Nat]
    BY DEF Init, NoGrouping, NoCursor, Grouping
  <2>4. /\ danglingEnd \in [Keys -> Seq(Dangling)]
        /\ danglingStart \in [Keys -> Seq(Dangling)]
    BY DEF Init
  <2> QED
    BY <2>1, <2>2, <2>3, <2>4 DEF TypeOK
<1>2. GroupingInv /\ LifelineInv /\ CursorInv /\ EdgesJoinNodes
  BY DEF Init, NoGrouping, GroupingInv, LifelineInv, CursorInv, EdgesJoinNodes
<1>3. DanglingInPool(danglingEnd) /\ DanglingInPool(danglingStart)
  BY DEF Init, DanglingInPool
<1>4. FlowsRespectPools /\ NoFlowAcrossPools
  BY DEF Init, FlowsRespectPools, NoFlowAcrossPools
<1> QED
  BY <1>1, <1>2, <1>3, <1>4 DEF PoolInv

(* The invariant depends on the variables alone. *)
LEMMA StutterPool ==
    ASSUME PoolInv, UNCHANGED vars
    PROVE  PoolInv'
BY DEF PoolInv, vars, graph, context, connecting, TypeOK, GroupingInv, LifelineInv, CursorInv,
       DanglingInPool, EdgesJoinNodes, FlowsRespectPools, NoFlowAcrossPools

(* The invariant is inductive. *)
LEMMA NextPool == PoolInv /\ [Next]_vars => PoolInv'
<1> SUFFICES ASSUME PoolInv, [Next]_vars PROVE PoolInv'
  OBVIOUS
<1>1. CASE ParsePool
  BY <1>1, ParsePoolPool
<1>2. CASE ParseLane
  BY <1>2, ParseLanePool
<1>3. CASE ParseEvent \/ ParseEventEnd \/ ParseActivity \/ ParseGateway
  BY <1>3, ParseFlowNodePool
<1>4. CASE ParseBoundaryEvent
  BY <1>4, ParseBoundaryEventPool
<1>5. CASE ParseMessageFlow
  BY <1>5, ParseMessageFlowPool
<1>6. CASE ParseData
  BY <1>6, ParseDataPool
<1>7. CASE EndOfFile
  BY <1>7, EndOfFilePool
<1>8. CASE NextKey
  BY <1>8, NextKeyPool
<1>9. CASE ConnectPair
  BY <1>9, ConnectPairPool
<1>10. CASE Finish
  BY <1>10, FinishPool
<1>11. CASE Terminated \/ UNCHANGED vars
  BY <1>11, StutterPool DEF Terminated
<1> QED
  BY <1>1, <1>2, <1>3, <1>4, <1>5, <1>6, <1>7, <1>8, <1>9, <1>10, <1>11 DEF Next

(* What the parser carries from statement to statement agrees on the pool,  *)
(* in every state of every file.                                            *)
THEOREM PoolInvariant == Spec => []PoolInv
BY InitPool, NextPool, PTL DEF Spec

(* Type correctness of the parser, for every value of its bounds.           *)
THEOREM TypeCorrect == Spec => []TypeOK
<1>1. PoolInv => TypeOK
  BY DEF PoolInv
<1> QED
  BY <1>1, PoolInvariant, PTL

(* add_edge() puts a sequence or data flow between nodes of one pool and a  *)
(* message flow between nodes of two, whatever labels and references the    *)
(* file has.                                                                *)
THEOREM FlowsStayInPools == Spec => []FlowsRespectPools
<1>1. PoolInv => FlowsRespectPools
  BY DEF PoolInv
<1> QED
  BY <1>1, PoolInvariant, PTL

(* The pool check of the connecting loop, and its error, cannot be reached. *)
THEOREM PoolCheckIsDead == Spec => []NoFlowAcrossPools
<1>1. PoolInv => NoFlowAcrossPools
  BY DEF PoolInv
<1> QED
  BY <1>1, PoolInvariant, PTL
=============================================================================
