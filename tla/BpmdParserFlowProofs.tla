------------------------- MODULE BpmdParserFlowProofs -------------------------
(***************************************************************************)
(* What the parser promises about the flows of a file it accepts, proved   *)
(* on top of PoolInv: boundary events sit on the task read last, a jump    *)
(* reaches every landing of its label, no node is a dead end, and icons of *)
(* a data element follow each other.  Each promise has its own inductive   *)
(* part of ParserInv.  A step either rejects the file, which drops all     *)
(* that was built, or has the effect that a lemma of the first half states *)
(* in terms of what is new; the second half shows, part by part, that the  *)
(* effects keep the invariant.                                             *)
(***************************************************************************)
EXTENDS BpmdParserProofs, InductionLemmas

(* Appending to a sequence changes no element and adds one. *)
LEMMA AppendElements ==
    ASSUME NEW S, NEW s \in Seq(S), NEW x \in S
    PROVE  /\ Append(s, x) \in Seq(S)
           /\ Len(s) + 1 \in DOMAIN Append(s, x) /\ Append(s, x)[Len(s) + 1] = x
           /\ \A i \in DOMAIN s : i \in DOMAIN Append(s, x) /\ Append(s, x)[i] = s[i]
           /\ \A i \in DOMAIN Append(s, x) :
                 \/ i \in DOMAIN s
                 \/ i = Len(s) + 1 /\ i \notin DOMAIN s
OBVIOUS

(* Concatenation changes no element of the first sequence, and what it adds *)
(* are the elements of the second.                                          *)
LEMMA ConcatElements ==
    ASSUME NEW S, NEW s \in Seq(S), NEW t \in Seq(S)
    PROVE  /\ s \o t \in Seq(S)
           /\ \A i \in DOMAIN s : i \in DOMAIN (s \o t) /\ (s \o t)[i] = s[i]
           /\ \A j \in DOMAIN t : Len(s) + j \in DOMAIN (s \o t) /\ (s \o t)[Len(s) + j] = t[j]
           /\ \A i \in DOMAIN (s \o t) :
                 \/ i \in DOMAIN s
                 \/ i \notin DOMAIN s /\ \E j \in DOMAIN t : (s \o t)[i] = t[j]
<1>1. /\ s \o t \in Seq(S) /\ Len(s \o t) = Len(s) + Len(t)
      /\ Len(s) \in Nat /\ Len(t) \in Nat
      /\ DOMAIN s = 1..Len(s) /\ DOMAIN t = 1..Len(t) /\ DOMAIN (s \o t) = 1..Len(s) + Len(t)
  OBVIOUS
<1>2. ASSUME NEW i \in DOMAIN s
      PROVE  i \in DOMAIN (s \o t) /\ (s \o t)[i] = s[i]
  BY <1>1
<1>3. ASSUME NEW j \in DOMAIN t
      PROVE  Len(s) + j \in DOMAIN (s \o t) /\ (s \o t)[Len(s) + j] = t[j]
  BY <1>1
<1>4. ASSUME NEW i \in DOMAIN (s \o t), i \notin DOMAIN s
      PROVE  \E j \in DOMAIN t : (s \o t)[i] = t[j]
  <2>1. i - Len(s) \in DOMAIN t /\ (s \o t)[i] = t[i - Len(s)]
    BY <1>1, <1>4
  <2> QED
    BY <2>1
<1> QED
  BY <1>1, <1>2, <1>3, <1>4

-----------------------------------------------------------------------------
(* The labels of a new node *)

(* A node's mentions of a label are jumps or landings of its own, not of a  *)
(* boundary event.                                                          *)
LEMMA MentionsEntries ==
    ASSUME NEW flows, NEW l, NEW n, NEW i \in DOMAIN Mentions(flows, l, n)
    PROVE  Mentions(flows, l, n)[i] = [node |-> n, boundary |-> FALSE]
BY DEF Mentions

(* Pushing a node's labels keeps every entry, and what it adds is the       *)
(* node's; it adds nothing if the node has no labels.                       *)
PushedOn(before, after, flows, n) ==
    /\ \A i \in DOMAIN before : i \in DOMAIN after /\ after[i] = before[i]
    /\ \A i \in DOMAIN after :
          \/ i \in DOMAIN before
          \/ flows # <<>> /\ after[i] = [node |-> n, boundary |-> FALSE]

(* Push() does just that.                                                   *)
LEMMA PushEntries ==
    ASSUME NEW dangling \in [Keys -> Seq(Dangling)], NEW pool,
           NEW flows \in Seq(Labels), NEW n \in Nat, NEW k \in Keys
    PROVE  PushedOn(dangling[k], Push(dangling, pool, flows, n)[k], flows, n)
<1> DEFINE old == dangling[k]
           new == Mentions(flows, k[2], n)
<1>1. CASE k[1] # pool
  BY <1>1 DEF Push, PushedOn
<1>2. CASE k[1] = pool
  <2>1. old \in Seq(Dangling) /\ new \in Seq(Dangling)
    BY MentionsAreDangling
  <2>2. Push(dangling, pool, flows, n)[k] = old \o new
    BY <1>2 DEF Push
  <2>3. \A j \in DOMAIN new : new[j] = [node |-> n, boundary |-> FALSE]
    BY MentionsEntries
  <2>4. flows = <<>> => new = <<>>
    <3>1. ASSUME flows = <<>> PROVE {j \in DOMAIN flows : flows[j] = k[2]} = {}
      BY <3>1
    <3> QED
      BY <3>1, FS_EmptySet DEF Mentions
  <2> HIDE DEF old, new
  <2>5. DOMAIN new # {} => flows # <<>>
    BY <2>4
  <2>6. /\ \A i \in DOMAIN old : i \in DOMAIN (old \o new) /\ (old \o new)[i] = old[i]
        /\ \A i \in DOMAIN (old \o new) :
              \/ i \in DOMAIN old
              \/ \E j \in DOMAIN new : (old \o new)[i] = new[j]
    BY <2>1, ConcatElements
  <2> QED
    BY <2>2, <2>3, <2>5, <2>6 DEF old, PushedOn
<1> QED
  BY <1>1, <1>2

(* A node that has a label has an entry afterwards. *)
LEMMA PushAdds ==
    ASSUME NEW dangling \in [Keys -> Seq(Dangling)], NEW pool \in PoolIds,
           NEW flows \in Seq(Labels), flows # <<>>, NEW n \in Nat
    PROVE  \E k \in Keys : \E i \in DOMAIN Push(dangling, pool, flows, n)[k] :
              Push(dangling, pool, flows, n)[k][i] = [node |-> n, boundary |-> FALSE]
<1>1. 1 \in DOMAIN flows /\ flows[1] \in Labels
  OBVIOUS
<1> DEFINE k == <<pool, flows[1]>>
           old == dangling[k]
           new == Mentions(flows, flows[1], n)
<1>2. k \in Keys /\ k[1] = pool /\ k[2] = flows[1]
  BY <1>1 DEF Keys
<1> HIDE DEF k
<1>3. Push(dangling, pool, flows, n)[k] = old \o new
  BY <1>2 DEF Push
<1>4. old \in Seq(Dangling) /\ new \in Seq(Dangling)
  BY <1>2, MentionsAreDangling
<1>5. new # <<>>
  BY <1>1, MentionsWhenMentioned
<1>6. \A j \in DOMAIN new : new[j] = [node |-> n, boundary |-> FALSE]
  BY MentionsEntries
<1> HIDE DEF old, new
<1>7. 1 \in DOMAIN new
  BY <1>4, <1>5
<1>8. Len(old) + 1 \in DOMAIN (old \o new) /\ (old \o new)[Len(old) + 1] = new[1]
  BY <1>4, <1>7, ConcatElements
<1> QED
  BY <1>2, <1>3, <1>6, <1>7, <1>8

-----------------------------------------------------------------------------
(* What a step adds *)

(* Nodes are only added, and those that are there do not change. *)
NodesGrow == \A n \in DOMAIN nodes : n \in DOMAIN nodes' /\ nodes'[n] = nodes[n]

(* The node n is added. *)
NodesGain(n, node) ==
    /\ NodesGrow
    /\ n \notin DOMAIN nodes
    /\ DOMAIN nodes' = DOMAIN nodes \union {n}
    /\ nodes'[n] = node

(* Edges of the set are added. *)
EdgesGain(new) ==
    /\ \A e \in DOMAIN edges : e \in DOMAIN edges' /\ edges'[e] = edges[e]
    /\ \A e \in DOMAIN edges' : e \in DOMAIN edges \/ edges'[e] \in new

Added(edge) == \E e \in DOMAIN edges' : edges'[e] = edge

(* Entries of the set are added to the jumps, or to the landings. *)
JumpsGain(new) ==
    \A k \in Keys :
        /\ \A i \in DOMAIN danglingEnd[k] :
              i \in DOMAIN danglingEnd'[k] /\ danglingEnd'[k][i] = danglingEnd[k][i]
        /\ \A i \in DOMAIN danglingEnd'[k] :
              i \in DOMAIN danglingEnd[k] \/ danglingEnd'[k][i] \in new

LandingsGain(new) ==
    \A k \in Keys :
        /\ \A i \in DOMAIN danglingStart[k] :
              i \in DOMAIN danglingStart'[k] /\ danglingStart'[k][i] = danglingStart[k][i]
        /\ \A i \in DOMAIN danglingStart'[k] :
              i \in DOMAIN danglingStart[k] \/ danglingStart'[k][i] \in new

(* add_node() of the graph. *)
LEMMA NodesGainOne ==
    ASSUME nodes \in Seq(Node), NEW node \in Node, nodes' = Append(nodes, node)
    PROVE  NodesGain(Len(nodes) + 1, node)
<1>1. Len(nodes) + 1 \notin DOMAIN nodes
  OBVIOUS
<1> QED
  BY <1>1, AppendNode, AppendElements DEF NodesGain, NodesGrow

(* add_edge() of the graph. *)
LEMMA EdgesGainOne ==
    ASSUME edges \in Seq(Edge), NEW edge \in Edge, edges' = Append(edges, edge)
    PROVE  EdgesGain({edge}) /\ Added(edge)
BY AppendElements DEF EdgesGain, Added

(* Sequence and message flows have the type of edges. *)
LEMMA FlowTypes ==
    ASSUME NEW from \in Nat, NEW to \in Nat, NEW boundary \in BOOLEAN
    PROVE  SequenceFlow(from, to, boundary) \in Edge /\ MessageFlow(from, to) \in Edge
BY DEF SequenceFlow, MessageFlow, Edge

(* Whether a node was chained to the lifeline when it was added. *)
Chained(landings, position) == landings = <<>> /\ position # "Start"

(* The effect of a statement that adds the flow node n. *)
FlowNodeAdded(n, kind, visual, landings, jumps, position) ==
    /\ outcome = "reading" /\ outcome' = "reading"
    /\ \E place \in [pool : Nat, lane : Nat] : NodesGain(n, FlowNode(kind, visual, place))
    /\ n \in Nat \ {0} /\ n = Len(nodes) + 1 /\ elements' = elements /\ ~afterData'
    /\ kind \in {"Event", "Gateway", "Task"}
    /\ position = "Start" <=> kind = "Event" /\ visual = "Start"
    /\ position = "End" <=> kind = "Event" /\ visual = "End"
    /\ position = "End" => jumps = <<>>
    /\ IF Chained(landings, position)
       THEN /\ lifeline # 0
            /\ EdgesGain({SequenceFlow(lifeline, n, FALSE)})
            /\ Added(SequenceFlow(lifeline, n, FALSE))
       ELSE lifeline = 0 /\ EdgesGain({})
    /\ IF jumps = <<>>
       THEN JumpsGain({})
       ELSE JumpsGain({[node |-> n, boundary |-> FALSE]}) /\ JumpsAway(n)'
    /\ IF landings = <<>>
       THEN LandingsGain({})
       ELSE LandingsGain({[node |-> n, boundary |-> FALSE]}) /\ Lands(n)'
    /\ lifeline' = IF jumps # <<>> \/ position = "End" THEN 0 ELSE n

(* manage_pool_and_lane_ids_for_new_node() stays within the bound on pools. *)
LEMMA ManagePoolCount ==
    ASSUME TypeOK, GroupingInv, PoolCountInv, ManagePoolAndLane
    PROVE  PoolCountInv' /\ grouping'.pool \in PoolIds
<1> USE DEF PoolCountInv
<1>1. /\ pools' \in Seq(Pool) /\ grouping'.state # "Init"
      /\ grouping'.pool \in DOMAIN pools'
  BY ManagePool
<1>2. Len(pools') <= MaxPools
  <2>1. CASE grouping.state = "Init"
    <3>1. pools = <<>> /\ pools' = Append(pools, [anonymous |-> TRUE, lanes |-> 1])
      BY <2>1 DEF ManagePoolAndLane
    <3>2. Len(pools') = 1
      BY <3>1
    <3> QED
      BY <3>2, BoundsAreNaturals
  <2>2. CASE grouping.state = "Pool"
    <3>1. pools' = [pools EXCEPT ![grouping.pool].lanes = @ + 1]
      BY <2>2 DEF ManagePoolAndLane
    <3>2. DOMAIN pools' = DOMAIN pools
      BY <3>1
    <3>3. Len(pools') = Len(pools)
      BY <1>1, <3>2 DEF TypeOK
    <3> QED
      BY <3>3
  <2>3. CASE grouping.state \notin {"Init", "Pool"}
    BY <2>3 DEF ManagePoolAndLane
  <2> QED
    BY <2>1, <2>2, <2>3
<1>3. grouping'.pool \in PoolIds
  BY <1>1, <1>2, BoundsAreNaturals DEF PoolIds
<1> QED
  BY <1>1, <1>2, <1>3

(* The jumps of a new node wait under their labels.                           *)
LEMMA PushJumps ==
    ASSUME danglingEnd \in [Keys -> Seq(Dangling)], NEW pool \in PoolIds,
           NEW flows \in Seq(Labels), NEW n \in Nat,
           danglingEnd' = Push(danglingEnd, pool, flows, n)
    PROVE  IF flows = <<>>
           THEN JumpsGain({})
           ELSE JumpsGain({[node |-> n, boundary |-> FALSE]}) /\ JumpsAway(n)'
<1>1. \A k \in Keys : PushedOn(danglingEnd[k], danglingEnd'[k], flows, n)
  BY PushEntries
<1>2. CASE flows = <<>>
  BY <1>1, <1>2 DEF JumpsGain, PushedOn
<1>3. CASE flows # <<>>
  <2>1. PICK k \in Keys : \E i \in DOMAIN danglingEnd'[k] :
           danglingEnd'[k][i] = [node |-> n, boundary |-> FALSE]
    BY <1>3, PushAdds
  <2>2. PICK i \in DOMAIN danglingEnd'[k] : danglingEnd'[k][i] = [node |-> n, boundary |-> FALSE]
    BY <2>1
  <2>3. danglingEnd'[k][i].node = n /\ ~danglingEnd'[k][i].boundary
    BY <2>2
  <2>4. JumpsAway(n)'
    BY <2>3 DEF JumpsAway
  <2> QED
    BY <1>1, <1>3, <2>4 DEF JumpsGain, PushedOn
<1> QED
  BY <1>2, <1>3

(* The landings of a new node wait under their labels.                       *)
LEMMA PushLandings ==
    ASSUME danglingStart \in [Keys -> Seq(Dangling)], NEW pool \in PoolIds,
           NEW flows \in Seq(Labels), NEW n \in Nat,
           danglingStart' = Push(danglingStart, pool, flows, n)
    PROVE  IF flows = <<>>
           THEN LandingsGain({})
           ELSE LandingsGain({[node |-> n, boundary |-> FALSE]}) /\ Lands(n)'
<1>1. \A k \in Keys : PushedOn(danglingStart[k], danglingStart'[k], flows, n)
  BY PushEntries
<1>2. CASE flows = <<>>
  BY <1>1, <1>2 DEF LandingsGain, PushedOn
<1>3. CASE flows # <<>>
  <2>1. PICK k \in Keys : \E i \in DOMAIN danglingStart'[k] :
           danglingStart'[k][i] = [node |-> n, boundary |-> FALSE]
    BY <1>3, PushAdds
  <2>2. PICK i \in DOMAIN danglingStart'[k] : danglingStart'[k][i] = [node |-> n, boundary |-> FALSE]
    BY <2>1
  <2>3. danglingStart'[k][i].node = n /\ ~danglingStart'[k][i].boundary
    BY <2>2
  <2>4. Lands(n)'
    BY <2>3 DEF Lands
  <2> QED
    BY <1>1, <1>3, <2>4 DEF LandingsGain, PushedOn
<1> QED
  BY <1>2, <1>3

(* A flow node that is not rejected has the effect above. *)
LEMMA AddFlowNodeEffect ==
    ASSUME PoolInv, PoolCountInv, outcome = "reading",
           NEW kind \in {"Event", "Gateway", "Task"}, NEW visual \in Visuals,
           NEW landings \in Seq(Labels), NEW jumps \in Seq(Labels), NEW position,
           position = "Start" <=> kind = "Event" /\ visual = "Start",
           position = "End" <=> kind = "Event" /\ visual = "End",
           position = "End" => jumps = <<>>,
           AddFlowNode(kind, visual, landings, jumps, position)
    PROVE  \/ \E reason : Reject(reason)
           \/ /\ \E n \in Nat : FlowNodeAdded(n, kind, visual, landings, jumps, position)
              /\ PoolCountInv'
<1> DEFINE place == PlaceForNewNode
<1> USE DEF PoolInv
<1> SUFFICES ASSUME ~\E reason : Reject(reason)
             PROVE  /\ \E n \in Nat : FlowNodeAdded(n, kind, visual, landings, jumps, position)
                    /\ PoolCountInv'
  OBVIOUS
<1>0. PICK n \in Nat \ {0} : n = Len(nodes) + 1
  <2>1. Len(nodes) + 1 \in Nat \ {0}
    BY DEF TypeOK
  <2> QED
    BY <2>1
<1>1. /\ ConnectError(landings, position) = {}
      /\ NextLine(kind)
      /\ ManagePoolAndLane
      /\ nodes' = Append(nodes, FlowNode(kind, visual, place))
      /\ edges' = IF landings = <<>> /\ position # "Start"
                  THEN Append(edges, SequenceFlow(lifeline, n, FALSE))
                  ELSE edges
      /\ danglingStart' = Push(danglingStart, place.pool, landings, n)
      /\ danglingEnd' = Push(danglingEnd, place.pool, jumps, n)
      /\ lifeline' = IF jumps # <<>> \/ position = "End" THEN 0 ELSE n
      /\ UNCHANGED <<outcome, elements, connecting>>
  BY <1>0 DEF AddFlowNode, NextLifeline
<1>2. PoolCountInv' /\ grouping'.pool \in PoolIds
  BY <1>1, ManagePoolCount
<1>3. /\ place = [pool |-> grouping'.pool, lane |-> grouping'.lane]
      /\ grouping' \in Grouping
  BY <1>1, ManagePool
<1>4. place.pool \in PoolIds /\ place \in [pool : Nat, lane : Nat]
  BY <1>2, <1>3 DEF Grouping
<1> HIDE DEF place
<1>5. FlowNode(kind, visual, place) \in Node
  <2>1. place.pool \in Nat /\ place.lane \in Nat
    BY <1>4
  <2> QED
    BY <2>1 DEF FlowNode, Node, Kinds, Visuals
<1>6. nodes \in Seq(Node) /\ edges \in Seq(Edge) /\ lifeline \in Nat
  BY DEF TypeOK
<1>7. NodesGain(n, FlowNode(kind, visual, place))
  BY <1>0, <1>1, <1>5, <1>6, NodesGainOne
<1>8. n \in Nat
  BY <1>0
<1>9. IF Chained(landings, position)
      THEN /\ lifeline # 0
           /\ EdgesGain({SequenceFlow(lifeline, n, FALSE)})
           /\ Added(SequenceFlow(lifeline, n, FALSE))
      ELSE lifeline = 0 /\ EdgesGain({})
  <2>1. CASE Chained(landings, position)
    <3>1. lifeline # 0 /\ edges' = Append(edges, SequenceFlow(lifeline, n, FALSE))
      BY <1>1, <2>1 DEF Chained, ConnectError
    <3>2. SequenceFlow(lifeline, n, FALSE) \in Edge
      BY <1>6, <1>8, FlowTypes
    <3> QED
      BY <1>6, <2>1, <3>1, <3>2, EdgesGainOne
  <2>2. CASE ~Chained(landings, position)
    BY <1>1, <2>2 DEF Chained, ConnectError, EdgesGain
  <2> QED
    BY <2>1, <2>2
<1>10. danglingEnd \in [Keys -> Seq(Dangling)] /\ danglingStart \in [Keys -> Seq(Dangling)]
  BY DEF TypeOK
<1>11. IF jumps = <<>>
       THEN JumpsGain({})
       ELSE JumpsGain({[node |-> n, boundary |-> FALSE]}) /\ JumpsAway(n)'
  <2>1. danglingEnd' = Push(danglingEnd, place.pool, jumps, n)
    BY <1>1
  <2> QED
    BY <1>4, <1>8, <1>10, <2>1, PushJumps
<1>12. IF landings = <<>>
       THEN LandingsGain({})
       ELSE LandingsGain({[node |-> n, boundary |-> FALSE]}) /\ Lands(n)'
  <2>1. danglingStart' = Push(danglingStart, place.pool, landings, n)
    BY <1>1
  <2> QED
    BY <1>4, <1>8, <1>10, <2>1, PushLandings
<1>13. outcome' = "reading" /\ elements' = elements /\ ~afterData'
  BY <1>1 DEF NextLine
<1>14. lifeline' = IF jumps # <<>> \/ position = "End" THEN 0 ELSE n
  BY <1>1
<1>15. \E p \in [pool : Nat, lane : Nat] : NodesGain(n, FlowNode(kind, visual, p))
  BY <1>4, <1>7
<1> QED
  BY <1>0, <1>2, <1>9, <1>11, <1>12, <1>13, <1>14, <1>15 DEF FlowNodeAdded

(* Events, tasks and gateways are rejected or add a flow node. *)
LEMMA ParseFlowNodeEffect ==
    ASSUME PoolInv, PoolCountInv,
           ParseEvent \/ ParseEventEnd \/ ParseActivity \/ ParseGateway
    PROVE  \/ \E reason : Reject(reason)
           \/ /\ \E n \in Nat : \E kind, visual, landings, jumps, position :
                    FlowNodeAdded(n, kind, visual, landings, jumps, position)
              /\ PoolCountInv'
<1>1. {"Start", "Throw", "End", "none"} \subseteq Visuals
  BY DEF Visuals
<1>2. \A m \in Nat : \A s \in BoundedSeq(Labels, m) : s \in Seq(Labels)
  BY BoundedIsSeq
<1>3. <<>> \in Seq(Labels)
  OBVIOUS
<1>4. outcome = "reading"
  BY DEF ParseEvent, ParseEventEnd, ParseActivity, ParseGateway, CanRead
<1>5. CASE ParseEvent
  <2>1. PICK landings \in BoundedSeq(Labels, 1), jumps \in BoundedSeq(Labels, 1) :
          IF lifeline = 0
          THEN AddFlowNode("Event", "Start", landings, jumps, "Start")
          ELSE AddFlowNode("Event", "Throw", landings, jumps, "Middle")
    BY <1>5 DEF ParseEvent
  <2>2. landings \in Seq(Labels) /\ jumps \in Seq(Labels)
    BY <1>2
  <2>3. CASE lifeline = 0
    <3>1. AddFlowNode("Event", "Start", landings, jumps, "Start")
      BY <2>1, <2>3
    <3> QED
      BY <1>1, <1>4, <2>2, <3>1, AddFlowNodeEffect
  <2>4. CASE lifeline # 0
    <3>1. AddFlowNode("Event", "Throw", landings, jumps, "Middle")
      BY <2>1, <2>4
    <3> QED
      BY <1>1, <1>4, <2>2, <3>1, AddFlowNodeEffect
  <2> QED
    BY <2>3, <2>4
<1>6. CASE ParseEventEnd
  <2>1. PICK landings \in BoundedSeq(Labels, 1) :
          AddFlowNode("Event", "End", landings, <<>>, "End")
    BY <1>6 DEF ParseEventEnd
  <2>2. landings \in Seq(Labels)
    BY <1>2
  <2> QED
    BY <1>1, <1>3, <1>4, <2>1, <2>2, AddFlowNodeEffect
<1>7. CASE ParseActivity
  <2>1. PICK landings \in BoundedSeq(Labels, 1), jumps \in BoundedSeq(Labels, 1) :
          AddFlowNode("Task", "none", landings, jumps, "Middle")
    BY <1>7 DEF ParseActivity
  <2>2. landings \in Seq(Labels) /\ jumps \in Seq(Labels)
    BY <1>2
  <2> QED
    BY <1>1, <1>4, <2>1, <2>2, AddFlowNodeEffect
<1>8. CASE ParseGateway
  <2>1. PICK landings \in BoundedSeq(Labels, MaxArms), jumps \in BoundedSeq(Labels, MaxArms) :
          AddFlowNode("Gateway", "none", landings, jumps, "InferOrIntermediate")
    BY <1>8 DEF ParseGateway
  <2>2. landings \in Seq(Labels) /\ jumps \in Seq(Labels)
    BY <1>2, BoundsAreNaturals
  <2> QED
    BY <1>1, <1>4, <2>1, <2>2, AddFlowNodeEffect
<1> QED
  BY <1>5, <1>6, <1>7, <1>8

(* The effect of a pool, a lane: no node and no flow is touched. *)
NothingAdded ==
    /\ outcome = "reading" /\ outcome' = "reading" /\ ~afterData'
    /\ UNCHANGED <<nodes, edges, elements, lifeline, danglingEnd, danglingStart>>

(* The effect of a boundary event: a jump of the task at hand. *)
BoundaryAdded ==
    /\ outcome = "reading" /\ outcome' = "reading" /\ ~afterData'
    /\ UNCHANGED <<nodes, edges, elements, lifeline, danglingStart>>
    /\ lifeline \in DOMAIN nodes /\ nodes[lifeline].kind = "Task"
    /\ JumpsGain({[node |-> lifeline, boundary |-> TRUE]})

(* The effect of a message flow. *)
MessageFlowAdded(sender, receiver) ==
    /\ outcome = "reading" /\ outcome' = "reading" /\ ~afterData'
    /\ UNCHANGED <<nodes, elements, lifeline, danglingEnd, danglingStart>>
    /\ EdgesGain({MessageFlow(sender, receiver)})

(* The effect of a data statement: the data node n, which is an icon of     *)
(* the element, and its data flows.                                         *)
DataNodeAdded(n, node, recipients) ==
    /\ outcome = "reading" /\ outcome' = "reading" /\ afterData'
    /\ UNCHANGED <<lifeline, danglingEnd, danglingStart>>
    /\ n \in Nat \ {0} /\ n = Len(nodes) + 1 /\ n = Len(nodes')
    /\ NodesGain(n, node) /\ node \in Node /\ node.kind = "Data" /\ node.visual = "none"
    /\ node.element = elements'
    /\ \/ elements' = elements + 1
       \/ elements' = elements /\ afterData
    /\ IsRoundedMean(node.lane, recipients)
    /\ recipients \in Seq([outgoing : BOOLEAN, node : Registered]) /\ recipients # <<>>
    /\ EdgesGain({DataFlow(n, recipients[i], elements') : i \in DOMAIN recipients})
    /\ \A i \in DOMAIN recipients : Added(DataFlow(n, recipients[i], elements'))

(* Pools and lanes are rejected or add no flow. *)
LEMMA ParsePlaceEffect ==
    ASSUME PoolInv, PoolCountInv, ParsePool \/ ParseLane
    PROVE  \/ \E reason : Reject(reason)
           \/ NothingAdded /\ PoolCountInv'
<1> SUFFICES ASSUME ~\E reason : Reject(reason)
             PROVE  NothingAdded /\ PoolCountInv'
  OBVIOUS
<1> USE DEF PoolInv
<1>1. CASE ParsePool
  <2>1. /\ Len(pools) < MaxPools /\ NextLine("Pool")
        /\ pools' = Append(pools, [anonymous |-> FALSE, lanes |-> 0])
        /\ grouping' = [state |-> "Pool", pool |-> Len(pools) + 1, lane |-> 0]
        /\ UNCHANGED <<outcome, nodes, edges, elements, lifeline, danglingEnd, danglingStart>>
        /\ outcome = "reading"
    BY <1>1 DEF ParsePool, CanRead
  <2>2. Len(pools') = Len(pools) + 1 /\ Len(pools) \in Nat
    BY <2>1 DEF TypeOK
  <2>3. PoolCountInv'
    BY <2>1, <2>2, BoundsAreNaturals DEF PoolCountInv
  <2> QED
    BY <2>1, <2>3 DEF NothingAdded, NextLine
<1>2. CASE ParseLane
  <2>1. /\ NextLine("Lane")
        /\ pools' = [pools EXCEPT ![grouping.pool].lanes = @ + 1]
        /\ grouping' = [state |-> "Lane", pool |-> grouping.pool,
                        lane |-> pools[grouping.pool].lanes + 1]
        /\ UNCHANGED <<outcome, nodes, edges, elements, lifeline, danglingEnd, danglingStart>>
        /\ outcome = "reading"
    BY <1>2 DEF ParseLane, CanRead
  <2>2. PoolInv' /\ DOMAIN pools' = DOMAIN pools
    BY <1>2, <2>1, ParseLanePool
  <2>3. Len(pools') = Len(pools)
    BY <2>2 DEF TypeOK
  <2>4. grouping'.state = "Lane"
    BY <2>1
  <2>5. PoolCountInv'
    BY <2>3, <2>4 DEF PoolCountInv
  <2> QED
    BY <2>1, <2>5 DEF NothingAdded, NextLine
<1> QED
  BY <1>1, <1>2

(* A boundary event is rejected or adds a jump of the task at hand. *)
LEMMA ParseBoundaryEventEffect ==
    ASSUME PoolInv, PoolCountInv, ParseBoundaryEvent
    PROVE  \/ \E reason : Reject(reason)
           \/ BoundaryAdded /\ PoolCountInv'
<1> SUFFICES ASSUME ~\E reason : Reject(reason)
             PROVE  BoundaryAdded /\ PoolCountInv'
  OBVIOUS
<1> USE DEF PoolInv
<1>1. /\ outcome = "reading" /\ BoundaryError = {}
      /\ NextLine("Boundary") /\ ManagePoolAndLane
      /\ UNCHANGED <<outcome, nodes, edges, elements, lifeline, danglingStart>>
  BY DEF ParseBoundaryEvent, CanRead
<1>2. PICK l \in Labels :
        danglingEnd' = [danglingEnd EXCEPT ![<<PlaceForNewNode.pool, l>>] =
                          Append(@, [node |-> lifeline, boundary |-> TRUE])]
  BY DEF ParseBoundaryEvent
<1>3. PICK k0 : k0 = <<PlaceForNewNode.pool, l>>
  OBVIOUS
<1>4. PICK entry : entry = [node |-> lifeline, boundary |-> TRUE]
  OBVIOUS
<1>5. danglingEnd' = [danglingEnd EXCEPT ![k0] = Append(danglingEnd[k0], entry)]
  BY <1>2, <1>3, <1>4
<1>6. lifeline # 0 /\ nodes[lifeline].kind = "Task" /\ lifeline \in DOMAIN nodes
  BY <1>1 DEF BoundaryError, LifelineInv
<1>7. entry \in Dangling
  <2>1. lifeline \in Nat
    BY DEF TypeOK
  <2> QED
    BY <1>4, <2>1 DEF Dangling
<1>8. JumpsGain({entry})
  <2> SUFFICES ASSUME NEW k \in Keys
               PROVE  /\ \A i \in DOMAIN danglingEnd[k] :
                            /\ i \in DOMAIN danglingEnd'[k]
                            /\ danglingEnd'[k][i] = danglingEnd[k][i]
                      /\ \A i \in DOMAIN danglingEnd'[k] :
                            i \in DOMAIN danglingEnd[k] \/ danglingEnd'[k][i] = entry
    BY DEF JumpsGain
  <2>1. danglingEnd[k] \in Seq(Dangling) /\ danglingEnd \in [Keys -> Seq(Dangling)]
    BY DEF TypeOK
  <2>2. CASE k = k0
    <3>1. danglingEnd'[k] = Append(danglingEnd[k], entry)
      BY <1>5, <2>1, <2>2
    <3> QED
      BY <1>7, <2>1, <3>1, AppendElements
  <2>3. CASE k # k0
    <3>1. danglingEnd'[k] = danglingEnd[k]
      BY <1>5, <2>1, <2>3
    <3> QED
      BY <3>1
  <2> QED
    BY <2>2, <2>3
<1>9. PoolCountInv'
  BY <1>1, ManagePoolCount
<1> QED
  BY <1>1, <1>4, <1>6, <1>8, <1>9 DEF BoundaryAdded, NextLine

(* A message flow is rejected or adds an edge. *)
LEMMA ParseMessageFlowEffect ==
    ASSUME PoolInv, PoolCountInv, ParseMessageFlow
    PROVE  \/ \E reason : Reject(reason)
           \/ (\E s, r \in Nat : MessageFlowAdded(s, r)) /\ PoolCountInv'
<1> SUFFICES ASSUME ~\E reason : Reject(reason)
             PROVE  (\E s, r \in Nat : MessageFlowAdded(s, r)) /\ PoolCountInv'
  OBVIOUS
<1>1. PICK s \in Registered, r \in Registered :
        /\ NextLine("MessageFlow")
        /\ edges' = Append(edges, MessageFlow(s, r))
        /\ UNCHANGED <<outcome, pools, nodes, elements, context, connecting>>
  BY DEF ParseMessageFlow
<1>2. outcome = "reading"
  BY DEF ParseMessageFlow, CanRead
<1>3. s \in Nat /\ r \in Nat /\ edges \in Seq(Edge)
  BY DEF PoolInv, TypeOK, Registered
<1>4. MessageFlow(s, r) \in Edge
  BY <1>3, FlowTypes
<1>5. EdgesGain({MessageFlow(s, r)})
  BY <1>1, <1>3, <1>4, EdgesGainOne
<1>6. PoolCountInv'
  BY <1>1 DEF PoolCountInv, context
<1>7. MessageFlowAdded(s, r)
  BY <1>1, <1>2, <1>5 DEF MessageFlowAdded, context, NextLine
<1> QED
  BY <1>3, <1>6, <1>7

(* A data statement is rejected or adds a data node and its flows. *)
LEMMA ParseDataEffect ==
    ASSUME PoolInv, PoolCountInv, ParseData
    PROVE  \/ \E reason : Reject(reason)
           \/ (\E n \in Nat : \E node, recipients : DataNodeAdded(n, node, recipients)) /\ PoolCountInv'
<1> SUFFICES ASSUME ~\E reason : Reject(reason)
             PROVE  /\ \E n \in Nat : \E node, recipients : DataNodeAdded(n, node, recipients)
                    /\ PoolCountInv'
  OBVIOUS
<1>1. PICK recipients \in
             BoundedSeq([outgoing : BOOLEAN, node : Registered], MaxRecipients) :
        /\ recipients # <<>>
        /\ \E continues \in IF afterData THEN BOOLEAN ELSE {FALSE} :
              AddDataNode(recipients, continues)
  BY DEF ParseData
<1>2. PICK continues \in IF afterData THEN BOOLEAN ELSE {FALSE} :
        AddDataNode(recipients, continues)
  BY <1>1
<1>3. outcome = "reading"
  BY DEF ParseData, CanRead
<1>4. recipients \in Seq([outgoing : BOOLEAN, node : Registered])
  BY BoundedIsSeq, BoundsAreNaturals
<1>5. PICK n \in Nat \ {0} : n = Len(nodes) + 1
  <2>1. Len(nodes) + 1 \in Nat \ {0}
    BY DEF PoolInv, TypeOK
  <2> QED
    BY <2>1
<1>6. PICK element : element = IF continues THEN elements ELSE elements + 1
  OBVIOUS
<1>7. element \in Nat /\ elements \in Nat
  BY <1>6 DEF PoolInv, TypeOK
<1>8. /\ NextLine("Data") /\ elements' = element
      /\ edges' = edges \o [i \in DOMAIN recipients |-> DataFlow(n, recipients[i], element)]
      /\ UNCHANGED <<outcome, pools, context, connecting>>
  BY <1>2, <1>5, <1>6 DEF AddDataNode
<1>9. PICK lane \in 0..MaxLines :
        /\ IsRoundedMean(lane, recipients)
        /\ nodes' = Append(nodes, [kind |-> "Data", message |-> FALSE, visual |-> "none",
                                   pool |-> nodes[recipients[1].node].pool, lane |-> lane,
                                   element |-> element])
  BY <1>2, <1>6 DEF AddDataNode
<1> DEFINE R == [outgoing : BOOLEAN, node : Registered]
<1>10. \A i \in DOMAIN recipients : recipients[i] \in R
  <2> HIDE DEF R
  <2>1. recipients \in Seq(R)
    BY <1>4 DEF R
  <2> QED
    BY <2>1
<1>11. 1 \in DOMAIN recipients
  <2> HIDE DEF R
  <2>1. recipients \in Seq(R)
    BY <1>4 DEF R
  <2> QED
    BY <1>1, <2>1
<1>12. PICK pool : pool = nodes[recipients[1].node].pool
  OBVIOUS
<1>13. pool \in Nat
  <2>1. recipients[1].node \in DOMAIN nodes
    BY <1>10, <1>11 DEF Registered
  <2>2. nodes[recipients[1].node] \in Node
    BY <2>1 DEF PoolInv, TypeOK
  <2> QED
    BY <1>12, <2>2 DEF Node
<1>14. PICK node : node = [kind |-> "Data", message |-> FALSE, visual |-> "none",
                           pool |-> pool, lane |-> lane, element |-> element]
  OBVIOUS
<1>15. /\ node \in Node /\ node.kind = "Data" /\ node.visual = "none"
       /\ node.element = element /\ node.lane = lane
  <2>1. lane \in Nat
    BY BoundsAreNaturals
  <2> QED
    BY <1>7, <1>13, <1>14, <2>1 DEF Node, Kinds, Visuals
<1>16. nodes \in Seq(Node) /\ edges \in Seq(Edge) /\ nodes' = Append(nodes, node)
  BY <1>9, <1>12, <1>14 DEF PoolInv, TypeOK
<1>17. NodesGain(n, node) /\ n = Len(nodes')
  BY <1>5, <1>15, <1>16, NodesGainOne
<1>18. PICK flows : flows = [i \in DOMAIN recipients |-> DataFlow(n, recipients[i], element)]
  OBVIOUS
<1>19. /\ flows \in Seq(Edge) /\ DOMAIN flows = DOMAIN recipients
       /\ \A i \in DOMAIN recipients : flows[i] = DataFlow(n, recipients[i], element)
  <2>1. \A i \in DOMAIN recipients : DataFlow(n, recipients[i], element) \in Edge
    <3>1. \A i \in DOMAIN recipients : recipients[i] \in [outgoing : BOOLEAN, node : Nat]
      BY <1>10 DEF Registered, PoolInv, TypeOK
    <3> QED
      BY <1>5, <1>7, <3>1, DataFlowType
  <2> QED
    BY <1>4, <1>18, <2>1
<1>20. edges' = edges \o flows
  BY <1>8, <1>18
<1>21. /\ EdgesGain({DataFlow(n, recipients[i], element) : i \in DOMAIN recipients})
       /\ \A i \in DOMAIN recipients : Added(DataFlow(n, recipients[i], element))
  <2>1. PICK after : after = edges'
    OBVIOUS
  <2>2. /\ \A e \in DOMAIN edges : e \in DOMAIN after /\ after[e] = edges[e]
        /\ \A j \in DOMAIN flows : Len(edges) + j \in DOMAIN after /\ after[Len(edges) + j] = flows[j]
        /\ \A e \in DOMAIN after : e \in DOMAIN edges \/ \E j \in DOMAIN flows : after[e] = flows[j]
    BY <1>16, <1>19, <1>20, <2>1, ConcatElements
  <2> QED
    BY <1>19, <2>1, <2>2 DEF EdgesGain, Added
<1>22. PoolCountInv'
  BY <1>8 DEF PoolCountInv, context
<1>23. element = elements + 1 \/ (element = elements /\ afterData)
  BY <1>6
<1>24. DataNodeAdded(n, node, recipients)
  BY <1>1, <1>3, <1>4, <1>5, <1>8, <1>9, <1>15, <1>17, <1>21, <1>23
     DEF DataNodeAdded, context, NextLine
<1> QED
  BY <1>22, <1>24

-----------------------------------------------------------------------------
(* Rejection *)

(* An error drops everything, which keeps every part of the invariant. *)
LEMMA RejectParts ==
    ASSUME NEW reason, Reject(reason)
    PROVE  /\ PoolCountInv' /\ BoundaryInv' /\ ConnectingInv' /\ ChainInv' /\ ElementsInv'
           /\ DataBetweenRecipients'
<1>1. /\ pools' = <<>> /\ nodes' = <<>> /\ edges' = <<>> /\ elements' = 0 /\ ~afterData'
      /\ grouping' = NoGrouping /\ lifeline' = 0
      /\ \A k \in Keys : danglingEnd'[k] = <<>> /\ danglingStart'[k] = <<>>
      /\ pending' = {} /\ key' = NoKey
  BY DEF Reject
<1>2. DOMAIN nodes' = {} /\ DOMAIN edges' = {}
  BY <1>1
<1>3. PoolCountInv'
  <2>1. Len(pools') = 0 /\ MaxPools \in Nat
    BY <1>1, BoundsAreNaturals
  <2> QED
    BY <1>1, <2>1 DEF PoolCountInv
<1>4. BoundaryInv'
  BY <1>1, <1>2 DEF BoundaryInv, LifelineIsLast, BoundaryJumpsOnTasks, BoundaryFlowsLeaveTasks
<1>5. ConnectingInv'
  <2>1. UsedKeys' = {}
    BY <1>1 DEF UsedKeys
  <2> QED
    BY <1>1, <2>1 DEF ConnectingInv
<1>6. ChainInv' /\ DataBetweenRecipients'
  BY <1>2 DEF ChainInv, DataBetweenRecipients
<1>7. ElementsInv'
  BY <1>1, <1>2 DEF ElementsInv, ContinuationsAreAdjacent, IconsAreAdjacent,
         DataFlowsCarryElements
<1> QED
  BY <1>3, <1>4, <1>5, <1>6, <1>7

-----------------------------------------------------------------------------
(* The steps as effects *)

(* The end of the file: the keys are collected. *)
FileEnds ==
    /\ outcome = "reading" /\ outcome' = "connecting" /\ lifeline = 0 /\ lifeline' = 0
    /\ pending' = UsedKeys /\ key' = key
    /\ UNCHANGED <<nodes, edges, elements, afterData, danglingEnd, danglingStart>>

(* A key whose labels are used on both sides is taken. *)
KeyTaken(k) ==
    /\ outcome = "connecting" /\ outcome' = "connecting" /\ key = NoKey
    /\ k \in pending /\ danglingEnd[k] # <<>> /\ danglingStart[k] # <<>>
    /\ key' = k /\ cursor' = [start |-> 1, end |-> 1]
    /\ UNCHANGED <<nodes, edges, elements, afterData, lifeline, danglingEnd, danglingStart, pending>>

(* The jump and the landing at the cursor are joined. *)
PairJoined(flow) ==
    /\ outcome = "connecting" /\ outcome' = "connecting" /\ key # NoKey
    /\ flow = SequenceFlow(danglingEnd[key][cursor.start].node,
                           danglingStart[key][cursor.end].node,
                           danglingEnd[key][cursor.start].boundary)
    /\ EdgesGain({flow}) /\ Added(flow)
    /\ AdvanceCursor
    /\ UNCHANGED <<nodes, elements, afterData, lifeline, danglingEnd, danglingStart>>

(* The parser is done; events may change their symbols and nothing else. *)
FileAccepted ==
    /\ outcome = "connecting" /\ outcome' = "accepted" /\ pending = {}
    /\ DOMAIN nodes' = DOMAIN nodes /\ Len(nodes') = Len(nodes)
    /\ \A n \in DOMAIN nodes :
          /\ nodes'[n].kind = nodes[n].kind /\ nodes'[n].element = nodes[n].element
          /\ nodes'[n].lane = nodes[n].lane
    /\ UNCHANGED <<edges, elements, afterData, lifeline, danglingEnd, danglingStart,
                   pending, key, cursor>>

(* The end of the file ends the lifeline, or rejects the file. *)
LEMMA EndOfFileEffect ==
    ASSUME EndOfFile
    PROVE  (\E reason : Reject(reason)) \/ FileEnds
BY DEF EndOfFile, FileEnds, graph, context

(* A key with jumps and no landings, or the reverse, rejects the file. *)
LEMMA NextKeyEffect ==
    ASSUME NextKey
    PROVE  (\E reason : Reject(reason)) \/ \E k \in pending : KeyTaken(k)
<1> SUFFICES ASSUME ~\E reason : Reject(reason)
             PROVE  \E k \in pending : KeyTaken(k)
  OBVIOUS
<1>1. PICK k \in pending :
        /\ danglingEnd[k] # <<>> /\ danglingStart[k] # <<>>
        /\ key' = k /\ cursor' = [start |-> 1, end |-> 1]
        /\ UNCHANGED <<outcome, line, afterData, graph, context, pending>>
  BY DEF NextKey
<1> QED
  BY <1>1 DEF NextKey, KeyTaken, graph, context

(* One turn of the connecting loops. *)
LEMMA ConnectPairEffect ==
    ASSUME PoolInv, ConnectPair
    PROVE  (\E reason : Reject(reason)) \/ \E flow : PairJoined(flow)
<1> SUFFICES ASSUME ~\E reason : Reject(reason)
             PROVE  \E flow : PairJoined(flow)
  OBVIOUS
<1>1. PICK flow : flow = SequenceFlow(danglingEnd[key][cursor.start].node,
                                      danglingStart[key][cursor.end].node,
                                      danglingEnd[key][cursor.start].boundary)
  OBVIOUS
<1>2. /\ outcome = "connecting" /\ key # NoKey
      /\ edges' = Append(edges, flow) /\ AdvanceCursor
      /\ UNCHANGED <<outcome, line, afterData, pools, nodes, elements, context>>
  BY <1>1 DEF ConnectPair
<1>3. key \in Keys /\ edges \in Seq(Edge)
  BY <1>2 DEF PoolInv, TypeOK
<1>4. cursor.start \in DOMAIN danglingEnd[key] /\ cursor.end \in DOMAIN danglingStart[key]
  BY <1>2 DEF PoolInv, CursorInv
<1>5. danglingEnd[key][cursor.start] \in Dangling /\ danglingStart[key][cursor.end] \in Dangling
  BY <1>3, <1>4 DEF PoolInv, TypeOK
<1>6. flow \in Edge
  BY <1>1, <1>5, FlowTypes DEF Dangling
<1>7. EdgesGain({flow}) /\ Added(flow)
  BY <1>2, <1>3, <1>6, EdgesGainOne
<1> QED
  BY <1>1, <1>2, <1>7 DEF PairJoined, context

(* The last step. *)
LEMMA FinishEffect ==
    ASSUME PoolInv, Finish
    PROVE  (\E reason : Reject(reason)) \/ FileAccepted
<1> SUFFICES ASSUME ~\E reason : Reject(reason)
             PROVE  FileAccepted
  OBVIOUS
<1>1. /\ outcome = "connecting" /\ pending = {} /\ outcome' = "accepted"
      /\ nodes' = ShorthandProcessed
      /\ UNCHANGED <<line, afterData, pools, edges, elements, context, connecting>>
  BY DEF Finish
<1>2. nodes' \in Seq(Node) /\ DOMAIN nodes' = DOMAIN nodes /\ nodes \in Seq(Node)
  BY <1>1, ShorthandKeepsPools DEF PoolInv, TypeOK
<1>3. Len(nodes') = Len(nodes)
  BY <1>2
<1>4. ASSUME NEW n \in DOMAIN nodes
      PROVE  /\ nodes'[n].kind = nodes[n].kind /\ nodes'[n].element = nodes[n].element
             /\ nodes'[n].lane = nodes[n].lane
  <2>1. nodes[n] \in Node
    BY <1>2
  <2>2. PICK guess : guess = MessageVisual(n)
    OBVIOUS
  <2>3. \/ nodes'[n] = nodes[n]
        \/ nodes'[n] = [nodes[n] EXCEPT !.message = TRUE, !.visual = guess]
    BY <1>1, <2>2 DEF ShorthandProcessed
  <2> QED
    BY <2>1, <2>3 DEF Node
<1> QED
  BY <1>1, <1>2, <1>3, <1>4 DEF FileAccepted, context, connecting

(* What a step of the parser does that neither rejects the file nor         *)
(* stutters.                                                                *)
StepEffect ==
    \/ NothingAdded
    \/ \E n \in Nat : \E kind, visual, landings, jumps, position :
          FlowNodeAdded(n, kind, visual, landings, jumps, position)
    \/ BoundaryAdded
    \/ \E s, r \in Nat : MessageFlowAdded(s, r)
    \/ \E n \in Nat : \E node, recipients : DataNodeAdded(n, node, recipients)
    \/ FileEnds
    \/ \E k \in pending : KeyTaken(k)
    \/ \E flow : PairJoined(flow)
    \/ FileAccepted

(* Every step rejects the file, stutters, or has one of the effects.        *)
LEMMA StepHasEffect ==
    ASSUME PoolInv, PoolCountInv, Next
    PROVE  \/ \E reason : Reject(reason)
           \/ UNCHANGED vars
           \/ StepEffect /\ PoolCountInv'
<1>1. CASE ParsePool \/ ParseLane
  BY <1>1, ParsePlaceEffect DEF StepEffect
<1>2. CASE ParseEvent \/ ParseEventEnd \/ ParseActivity \/ ParseGateway
  BY <1>2, ParseFlowNodeEffect DEF StepEffect
<1>3. CASE ParseBoundaryEvent
  BY <1>3, ParseBoundaryEventEffect DEF StepEffect
<1>4. CASE ParseMessageFlow
  BY <1>4, ParseMessageFlowEffect DEF StepEffect
<1>5. CASE ParseData
  BY <1>5, ParseDataEffect DEF StepEffect
<1>6. CASE EndOfFile \/ NextKey \/ ConnectPair \/ Finish
  <2>1. (\E reason : Reject(reason)) \/ UNCHANGED <<pools, grouping>>
    BY <1>6 DEF EndOfFile, NextKey, ConnectPair, Finish, graph, context
  <2>2. (\E reason : Reject(reason)) \/ PoolCountInv'
    BY <2>1 DEF PoolCountInv
  <2>3. (\E reason : Reject(reason)) \/ StepEffect
    BY <1>6, EndOfFileEffect, NextKeyEffect, ConnectPairEffect, FinishEffect DEF StepEffect
  <2> QED
    BY <2>2, <2>3
<1>7. CASE Terminated
  BY <1>7 DEF Terminated
<1> QED
  BY <1>1, <1>2, <1>3, <1>4, <1>5, <1>6, <1>7 DEF Next

-----------------------------------------------------------------------------
(* Boundary events sit on tasks *)

(* The kinds of the nodes that are there do not change. *)
KindsKept ==
    \A n \in DOMAIN nodes : n \in DOMAIN nodes' /\ nodes'[n].kind = nodes[n].kind

(* Nothing is added for a boundary event whose host is not a task. *)
LEMMA BoundaryKept ==
    ASSUME PoolInv, BoundaryInv, KindsKept,
           NEW js, JumpsGain(js),
           \A x \in js : x.boundary => x.node \in DOMAIN nodes /\ nodes[x.node].kind = "Task",
           NEW es, EdgesGain(es),
           \A x \in es : x.boundary => x.from \in DOMAIN nodes /\ nodes[x.from].kind = "Task"
    PROVE  BoundaryJumpsOnTasks' /\ BoundaryFlowsLeaveTasks'
<1>1. ASSUME NEW k \in Keys, NEW i \in DOMAIN danglingEnd'[k], danglingEnd'[k][i].boundary
      PROVE  nodes'[danglingEnd'[k][i].node].kind = "Task"
  <2>1. CASE i \in DOMAIN danglingEnd[k]
    <3>1. danglingEnd'[k][i] = danglingEnd[k][i]
      BY <2>1 DEF JumpsGain
    <3>2. danglingEnd[k][i].node \in DOMAIN nodes
      BY <2>1 DEF PoolInv, DanglingInPool
    <3> QED
      BY <1>1, <2>1, <3>1, <3>2 DEF BoundaryInv, BoundaryJumpsOnTasks, KindsKept
  <2>2. CASE i \notin DOMAIN danglingEnd[k]
    <3>1. danglingEnd'[k][i] \in js
      BY <2>2 DEF JumpsGain
    <3> QED
      BY <1>1, <3>1 DEF KindsKept
  <2> QED
    BY <2>1, <2>2
<1>2. ASSUME NEW e \in DOMAIN edges', edges'[e].boundary
      PROVE  nodes'[edges'[e].from].kind = "Task"
  <2>1. CASE e \in DOMAIN edges
    <3>1. edges'[e] = edges[e] /\ edges[e].from \in DOMAIN nodes
      BY <2>1 DEF EdgesGain, PoolInv, EdgesJoinNodes
    <3> QED
      BY <1>2, <2>1, <3>1 DEF BoundaryInv, BoundaryFlowsLeaveTasks, KindsKept
  <2>2. CASE e \notin DOMAIN edges
    <3>1. edges'[e] \in es
      BY <2>2 DEF EdgesGain
    <3> QED
      BY <1>2, <3>1 DEF KindsKept
  <2> QED
    BY <2>1, <2>2
<1> QED
  BY <1>1, <1>2 DEF BoundaryJumpsOnTasks, BoundaryFlowsLeaveTasks

(* Every effect keeps boundary events on tasks. *)
LEMMA StepBoundaryTasks ==
    ASSUME PoolInv, BoundaryInv, StepEffect
    PROVE  BoundaryJumpsOnTasks' /\ BoundaryFlowsLeaveTasks'
<1>1. /\ UNCHANGED danglingEnd => JumpsGain({})
      /\ UNCHANGED edges => EdgesGain({})
      /\ UNCHANGED nodes => KindsKept
      /\ NodesGrow => KindsKept
  BY DEF JumpsGain, EdgesGain, KindsKept, NodesGrow
<1>2. CASE NothingAdded \/ FileEnds \/ \E k \in pending : KeyTaken(k)
  <2>1. KindsKept /\ JumpsGain({}) /\ EdgesGain({})
    BY <1>1, <1>2 DEF NothingAdded, FileEnds, KeyTaken
  <2> QED
    BY <2>1, BoundaryKept
<1>3. ASSUME NEW n \in Nat, NEW kind, NEW visual, NEW landings, NEW jumps, NEW position,
             FlowNodeAdded(n, kind, visual, landings, jumps, position)
      PROVE  BoundaryJumpsOnTasks' /\ BoundaryFlowsLeaveTasks'
  <2>1. KindsKept
    BY <1>1, <1>3 DEF FlowNodeAdded, NodesGain
  <2>2. PICK js : JumpsGain(js) /\ \A x \in js : ~x.boundary
    BY <1>3 DEF FlowNodeAdded
  <2>3. PICK es : EdgesGain(es) /\ \A x \in es : ~x.boundary
    BY <1>3 DEF FlowNodeAdded, SequenceFlow
  <2> QED
    BY <2>1, <2>2, <2>3, BoundaryKept
<1>4. CASE BoundaryAdded
  <2>1. KindsKept /\ EdgesGain({}) /\ JumpsGain({[node |-> lifeline, boundary |-> TRUE]})
    BY <1>1, <1>4 DEF BoundaryAdded
  <2>2. lifeline \in DOMAIN nodes /\ nodes[lifeline].kind = "Task"
    BY <1>4 DEF BoundaryAdded
  <2> QED
    BY <2>1, <2>2, BoundaryKept
<1>5. ASSUME NEW s \in Nat, NEW r \in Nat, MessageFlowAdded(s, r)
      PROVE  BoundaryJumpsOnTasks' /\ BoundaryFlowsLeaveTasks'
  <2>1. KindsKept /\ EdgesGain({MessageFlow(s, r)}) /\ JumpsGain({})
    BY <1>1, <1>5 DEF MessageFlowAdded
  <2>2. ~MessageFlow(s, r).boundary
    BY DEF MessageFlow
  <2> QED
    BY <2>1, <2>2, BoundaryKept
<1>6. ASSUME NEW n \in Nat, NEW node, NEW recipients, DataNodeAdded(n, node, recipients)
      PROVE  BoundaryJumpsOnTasks' /\ BoundaryFlowsLeaveTasks'
  <2>1. KindsKept /\ JumpsGain({})
    BY <1>1, <1>6 DEF DataNodeAdded, NodesGain
  <2>2. PICK es : EdgesGain(es) /\ \A x \in es : ~x.boundary
    BY <1>6 DEF DataNodeAdded, DataFlow
  <2> QED
    BY <2>1, <2>2, BoundaryKept
<1>7. ASSUME NEW flow, PairJoined(flow)
      PROVE  BoundaryJumpsOnTasks' /\ BoundaryFlowsLeaveTasks'
  <2>1. KindsKept /\ EdgesGain({flow}) /\ JumpsGain({})
    BY <1>1, <1>7 DEF PairJoined
  <2>2. key \in Keys /\ cursor.start \in DOMAIN danglingEnd[key]
    BY <1>7 DEF PairJoined, PoolInv, TypeOK, CursorInv
  <2>3. /\ flow.from = danglingEnd[key][cursor.start].node
        /\ flow.boundary = danglingEnd[key][cursor.start].boundary
    BY <1>7 DEF PairJoined, SequenceFlow
  <2>4. flow.from \in DOMAIN nodes
    BY <2>2, <2>3 DEF PoolInv, DanglingInPool
  <2>5. flow.boundary => nodes[flow.from].kind = "Task"
    BY <2>2, <2>3 DEF BoundaryInv, BoundaryJumpsOnTasks
  <2> QED
    BY <2>1, <2>4, <2>5, BoundaryKept
<1>8. CASE FileAccepted
  <2>1. KindsKept /\ JumpsGain({}) /\ EdgesGain({})
    BY <1>1, <1>8 DEF FileAccepted, KindsKept
  <2> QED
    BY <2>1, BoundaryKept
<1> QED
  BY <1>2, <1>3, <1>4, <1>5, <1>6, <1>7, <1>8 DEF StepEffect, BoundaryAdded

(* Data nodes are all that is added while the lifeline stays where it is.   *)
LEMMA LifelineKept ==
    ASSUME PoolInv, BoundaryInv, KindsKept, lifeline' \in {0, lifeline},
           \A m \in DOMAIN nodes' : m \in DOMAIN nodes \/ nodes'[m].kind = "Data"
    PROVE  LifelineIsLast'
BY DEF BoundaryInv, LifelineIsLast, OnlyDataAfter, KindsKept

(* The lifeline stays at the flow node that was read last. *)
LEMMA StepLifeline ==
    ASSUME PoolInv, BoundaryInv, StepEffect
    PROVE  LifelineIsLast'
<1>1. ASSUME UNCHANGED <<nodes, lifeline>>
      PROVE  LifelineIsLast'
  BY <1>1, LifelineKept DEF KindsKept
<1>2. CASE \/ NothingAdded \/ BoundaryAdded \/ FileEnds
           \/ \E s, r \in Nat : MessageFlowAdded(s, r)
           \/ \E k \in pending : KeyTaken(k)
           \/ \E flow : PairJoined(flow)
  <2>1. UNCHANGED nodes /\ lifeline' \in {0, lifeline}
    BY <1>2 DEF NothingAdded, BoundaryAdded, FileEnds, MessageFlowAdded, KeyTaken, PairJoined
  <2> QED
    BY <2>1, LifelineKept DEF KindsKept
<1>3. ASSUME NEW n \in Nat, NEW kind, NEW visual, NEW landings, NEW jumps, NEW position,
             FlowNodeAdded(n, kind, visual, landings, jumps, position)
      PROVE  LifelineIsLast'
  <2>1. nodes \in Seq(Node)
    BY DEF PoolInv, TypeOK
  <2>2. n = Len(nodes) + 1 /\ DOMAIN nodes' = DOMAIN nodes \union {n} /\ lifeline' \in {0, n}
    BY <1>3 DEF FlowNodeAdded, NodesGain
  <2>3. \A m \in DOMAIN nodes' : ~(m > n)
    BY <2>1, <2>2
  <2> QED
    BY <2>2, <2>3 DEF LifelineIsLast, OnlyDataAfter
<1>4. ASSUME NEW n \in Nat, NEW node, NEW recipients, DataNodeAdded(n, node, recipients)
      PROVE  LifelineIsLast'
  <2>1. /\ KindsKept /\ lifeline' = lifeline
        /\ \A m \in DOMAIN nodes' : m \in DOMAIN nodes \/ nodes'[m].kind = "Data"
    BY <1>4 DEF DataNodeAdded, NodesGain, NodesGrow, KindsKept
  <2> QED
    BY <2>1, LifelineKept
<1>5. CASE FileAccepted
  <2>1. KindsKept /\ DOMAIN nodes' = DOMAIN nodes /\ lifeline' = lifeline
    BY <1>5 DEF FileAccepted, KindsKept
  <2> QED
    BY <2>1, LifelineKept
<1> QED
  BY <1>2, <1>3, <1>4, <1>5 DEF StepEffect

(* Every effect keeps what BoundaryInv says. *)
LEMMA StepBoundary ==
    ASSUME PoolInv, BoundaryInv, StepEffect
    PROVE  BoundaryInv'
BY StepBoundaryTasks, StepLifeline DEF BoundaryInv

-----------------------------------------------------------------------------
(* Jumps reach their landings *)

(* Pairs that are joined stay joined. *)
LEMMA JoinedKept ==
    ASSUME UNCHANGED <<danglingEnd, danglingStart>>, NEW es, EdgesGain(es),
           NEW k, NEW i, NEW j, Joined(k, i, j)
    PROVE  Joined(k, i, j)'
BY DEF Joined, EdgesGain

(* The turn of the loops that the cursor describes joins its pair, and the  *)
(* pairs before the new cursor are those before the old one and this pair.  *)
LEMMA PairJoinedConnecting ==
    ASSUME PoolInv, ConnectingInv, NEW flow, PairJoined(flow)
    PROVE  ConnectingInv'
<1>1. /\ outcome = "connecting" /\ outcome' = "connecting" /\ key # NoKey
      /\ EdgesGain({flow}) /\ Added(flow) /\ AdvanceCursor
      /\ UNCHANGED <<nodes, lifeline, danglingEnd, danglingStart>>
  BY DEF PairJoined
<1>2. /\ lifeline = 0 /\ pending \subseteq UsedKeys /\ key \in pending /\ key \in Keys
      /\ \A k \in UsedKeys \ pending :
            /\ danglingEnd[k] # <<>> /\ danglingStart[k] # <<>>
            /\ \A i \in DOMAIN danglingEnd[k], j \in DOMAIN danglingStart[k] : Joined(k, i, j)
      /\ \A i \in DOMAIN danglingEnd[key], j \in DOMAIN danglingStart[key] :
            BeforeCursor(i, j) => Joined(key, i, j)
  BY <1>1 DEF ConnectingInv, PoolInv, TypeOK
<1>3. /\ danglingEnd[key] \in Seq(Dangling) /\ danglingStart[key] \in Seq(Dangling)
      /\ cursor.start \in DOMAIN danglingEnd[key] /\ cursor.end \in DOMAIN danglingStart[key]
      /\ cursor \in [start : Nat, end : Nat] /\ NoKey \notin Keys
  BY <1>1, <1>2, NoKeyIsNoKey DEF PoolInv, TypeOK, CursorInv
<1>4. UsedKeys' = UsedKeys
  BY <1>1 DEF UsedKeys
<1>5. \A k, i, j : Joined(k, i, j) => Joined(k, i, j)'
  BY <1>1, JoinedKept
<1>6. PICK k0, s, e : k0 = key /\ s = cursor.start /\ e = cursor.end
  OBVIOUS
<1>7. Joined(k0, s, e)'
  BY <1>1, <1>6 DEF PairJoined, Added, Joined
<1>8. \A i \in DOMAIN danglingEnd[k0], j \in DOMAIN danglingStart[k0] :
         i < s \/ (i = s /\ j < e) \/ (i = s /\ j = e) => Joined(k0, i, j)'
  BY <1>2, <1>5, <1>6, <1>7 DEF BeforeCursor
<1>9. \A k \in UsedKeys \ pending :
          /\ danglingEnd[k] # <<>> /\ danglingStart[k] # <<>>
          /\ \A i \in DOMAIN danglingEnd[k], j \in DOMAIN danglingStart[k] : Joined(k, i, j)'
  BY <1>2, <1>5
<1>10. /\ s \in Nat /\ e \in Nat
       /\ s \in 1..Len(danglingEnd[k0]) /\ e \in 1..Len(danglingStart[k0])
       /\ Len(danglingEnd[k0]) \in Nat /\ Len(danglingStart[k0]) \in Nat
       /\ DOMAIN danglingEnd[k0] = 1..Len(danglingEnd[k0])
       /\ DOMAIN danglingStart[k0] = 1..Len(danglingStart[k0])
  BY <1>3, <1>6
<1>11. CASE e < Len(danglingStart[k0])
  <2>1. cursor' = [cursor EXCEPT !.end = @ + 1] /\ UNCHANGED <<pending, key>>
    BY <1>1, <1>6, <1>11 DEF AdvanceCursor
  <2>2. cursor'.start = s /\ cursor'.end = e + 1
    BY <1>3, <1>6, <2>1
  <2>3. ASSUME NEW i \in DOMAIN danglingEnd[k0], NEW j \in DOMAIN danglingStart[k0],
               BeforeCursor(i, j)'
        PROVE  Joined(k0, i, j)'
    BY <1>8, <1>10, <2>2, <2>3 DEF BeforeCursor
  <2> QED
    BY <1>1, <1>2, <1>4, <1>6, <1>9, <2>1, <2>3 DEF ConnectingInv
<1>12. CASE ~(e < Len(danglingStart[k0])) /\ s < Len(danglingEnd[k0])
  <2>1. cursor' = [start |-> s + 1, end |-> 1] /\ UNCHANGED <<pending, key>>
    BY <1>1, <1>6, <1>12 DEF AdvanceCursor
  <2>2. cursor'.start = s + 1 /\ cursor'.end = 1
    BY <2>1
  <2>3. ASSUME NEW i \in DOMAIN danglingEnd[k0], NEW j \in DOMAIN danglingStart[k0],
               BeforeCursor(i, j)'
        PROVE  Joined(k0, i, j)'
    <3>1. i < s \/ (i = s /\ j < e) \/ (i = s /\ j = e)
      BY <1>10, <1>12, <2>2, <2>3 DEF BeforeCursor
    <3> QED
      BY <1>8, <3>1
  <2> QED
    BY <1>1, <1>2, <1>4, <1>6, <1>9, <2>1, <2>3 DEF ConnectingInv
<1>13. CASE ~(e < Len(danglingStart[k0])) /\ ~(s < Len(danglingEnd[k0]))
  <2>1. pending' = pending \ {key} /\ key' = NoKey
    BY <1>1, <1>6, <1>13 DEF AdvanceCursor
  <2>2. ASSUME NEW i \in DOMAIN danglingEnd[k0], NEW j \in DOMAIN danglingStart[k0]
        PROVE  Joined(k0, i, j)'
    <3>1. i < s \/ (i = s /\ j < e) \/ (i = s /\ j = e)
      BY <1>10, <1>13
    <3> QED
      BY <1>8, <3>1
  <2>3. danglingEnd[k0] # <<>> /\ danglingStart[k0] # <<>>
    BY <1>10
  <2>4. ASSUME NEW k \in UsedKeys' \ pending'
        PROVE  /\ danglingEnd'[k] # <<>> /\ danglingStart'[k] # <<>>
               /\ \A i \in DOMAIN danglingEnd'[k], j \in DOMAIN danglingStart'[k] :
                     Joined(k, i, j)'
    <3>1. k = k0 \/ k \in UsedKeys \ pending
      BY <1>4, <1>6, <2>1
    <3> QED
      BY <1>1, <1>9, <2>2, <2>3, <3>1
  <2> QED
    BY <1>1, <1>2, <1>4, <2>1, <2>4 DEF ConnectingInv
<1> QED
  BY <1>11, <1>12, <1>13

(* Every effect keeps what is connected. *)
LEMMA StepConnecting ==
    ASSUME PoolInv, ConnectingInv, StepEffect
    PROVE  ConnectingInv'
<1>1. CASE outcome' = "reading"
  BY <1>1 DEF ConnectingInv
<1>2. CASE FileEnds
  <2>1. /\ outcome' = "connecting" /\ lifeline' = 0 /\ pending' = UsedKeys /\ key' = NoKey
        /\ UNCHANGED <<edges, danglingEnd, danglingStart>>
    BY <1>2 DEF FileEnds, PoolInv, CursorInv
  <2>2. UsedKeys' = UsedKeys
    BY <2>1 DEF UsedKeys
  <2> QED
    BY <2>1, <2>2 DEF ConnectingInv
<1>3. ASSUME NEW k \in pending, KeyTaken(k)
      PROVE  ConnectingInv'
  <2>1. /\ outcome = "connecting" /\ outcome' = "connecting"
        /\ key' = k /\ cursor' = [start |-> 1, end |-> 1]
        /\ UNCHANGED <<edges, lifeline, danglingEnd, danglingStart, pending>>
    BY <1>3 DEF KeyTaken
  <2>2. UsedKeys' = UsedKeys
    BY <2>1 DEF UsedKeys
  <2>3. \A kk, i, j : Joined(kk, i, j)' <=> Joined(kk, i, j)
    BY <2>1 DEF Joined
  <2>4. k \in Keys /\ danglingEnd[k] \in Seq(Dangling) /\ danglingStart[k] \in Seq(Dangling)
    BY DEF PoolInv, TypeOK
  <2>5. \A i \in DOMAIN danglingEnd[k], j \in DOMAIN danglingStart[k] : ~BeforeCursor(i, j)'
    BY <2>1, <2>4 DEF BeforeCursor
  <2> QED
    BY <2>1, <2>2, <2>3, <2>5 DEF ConnectingInv
<1>4. CASE \E flow : PairJoined(flow)
  BY <1>4, PairJoinedConnecting
<1>5. CASE FileAccepted
  <2>1. /\ outcome = "connecting" /\ outcome' = "accepted" /\ pending = {}
        /\ UNCHANGED <<edges, lifeline, danglingEnd, danglingStart, pending, key, cursor>>
    BY <1>5 DEF FileAccepted
  <2>2. UsedKeys' = UsedKeys
    BY <2>1 DEF UsedKeys
  <2>3. \A kk, i, j : Joined(kk, i, j)' <=> Joined(kk, i, j)
    BY <2>1 DEF Joined
  <2>4. key = NoKey
    BY <2>1 DEF ConnectingInv
  <2> QED
    BY <2>1, <2>2, <2>3, <2>4 DEF ConnectingInv
<1>6. NothingAdded \/ BoundaryAdded => outcome' = "reading"
  BY DEF NothingAdded, BoundaryAdded
<1>7. \A n, kind, visual, landings, jumps, position :
        FlowNodeAdded(n, kind, visual, landings, jumps, position) => outcome' = "reading"
  BY DEF FlowNodeAdded
<1>8. /\ \A s, r : MessageFlowAdded(s, r) => outcome' = "reading"
      /\ \A n, node, recipients : DataNodeAdded(n, node, recipients) => outcome' = "reading"
  BY DEF MessageFlowAdded, DataNodeAdded
<1> QED
  BY <1>1, <1>2, <1>3, <1>4, <1>5, <1>6, <1>7, <1>8 DEF StepEffect

-----------------------------------------------------------------------------
(* No node is a dead end *)

(* A node that is left, reached, waited for or waiting stays so when edges, *)
(* jumps and landings are added, and only what is added can change the rest. *)
LEMMA LinksKept ==
    ASSUME NEW es, EdgesGain(es), NEW js, JumpsGain(js), NEW ls, LandingsGain(ls), NEW n
    PROVE  /\ Leaves(n) => Leaves(n)'
           /\ Arrives(n) => Arrives(n)'
           /\ JumpsAway(n) => JumpsAway(n)'
           /\ Lands(n) => Lands(n)'
           /\ Leaves(n)' => Leaves(n) \/ \E x \in es : x.flow = "sequence" /\ x.from = n /\ ~x.boundary
           /\ JumpsAway(n)' => JumpsAway(n) \/ \E x \in js : x.node = n /\ ~x.boundary
<1>1. (Leaves(n) => Leaves(n)') /\ (Arrives(n) => Arrives(n)')
  BY DEF EdgesGain, Leaves, Arrives
<1>2. JumpsAway(n) => JumpsAway(n)'
  BY DEF JumpsGain, JumpsAway
<1>3. Lands(n) => Lands(n)'
  BY DEF LandingsGain, Lands
<1>4. Leaves(n)' => Leaves(n) \/ \E x \in es : x.flow = "sequence" /\ x.from = n /\ ~x.boundary
  BY DEF EdgesGain, Leaves
<1>5. JumpsAway(n)' => JumpsAway(n) \/ \E x \in js : x.node = n /\ ~x.boundary
  BY DEF JumpsGain, JumpsAway
<1> QED
  BY <1>1, <1>2, <1>3, <1>4, <1>5

(* A node that is there already keeps its links, if the lifeline leaves it  *)
(* for another node only along an edge, and nothing is added to an end.     *)
LEMMA ContinuesKept ==
    ASSUME NEW es, EdgesGain(es), NEW js, JumpsGain(js), NEW ls, LandingsGain(ls),
           NEW n, Continues(n), nodes'[n] = nodes[n],
           outcome # "accepted", outcome' # "accepted",
           n = lifeline => n = lifeline' \/ Leaves(n)',
           n = lifeline' => n = lifeline,
           Ends(n) => /\ \A x \in es : ~(x.flow = "sequence" /\ x.from = n /\ ~x.boundary)
                      /\ \A x \in js : ~(x.node = n /\ ~x.boundary)
    PROVE  Continues(n)'
<1>1. /\ NeedsExit(n)' <=> NeedsExit(n)
      /\ NeedsEntry(n)' <=> NeedsEntry(n)
      /\ Ends(n)' <=> Ends(n)
  BY DEF NeedsExit, NeedsEntry, Ends
<1>2. /\ Leaves(n) => Leaves(n)'
      /\ Arrives(n) => Arrives(n)'
      /\ JumpsAway(n) => JumpsAway(n)'
      /\ Lands(n) => Lands(n)'
      /\ Leaves(n)' => Leaves(n) \/ \E x \in es : x.flow = "sequence" /\ x.from = n /\ ~x.boundary
      /\ JumpsAway(n)' => JumpsAway(n) \/ \E x \in js : x.node = n /\ ~x.boundary
  BY LinksKept
<1>3. NeedsExit(n) => n = lifeline \/ JumpsAway(n) \/ Leaves(n)
  BY DEF Continues
<1>4. NeedsExit(n)' => n = lifeline' \/ JumpsAway(n)' \/ Leaves(n)'
  BY <1>1, <1>2, <1>3
<1>5. NeedsEntry(n)' => Lands(n)' \/ Arrives(n)'
  BY <1>1, <1>2 DEF Continues
<1>6. Ends(n)' => n # lifeline' /\ ~JumpsAway(n)' /\ ~Leaves(n)'
  BY <1>1, <1>2 DEF Continues
<1> QED
  BY <1>4, <1>5, <1>6 DEF Continues

(* Nothing refers to a node that is not there. *)
LEMMA NewNodeHasNoLinks ==
    ASSUME PoolInv, NEW n, n \notin DOMAIN nodes, n # 0
    PROVE  ~JumpsAway(n) /\ ~Leaves(n) /\ n # lifeline
BY DEF PoolInv, DanglingInPool, EdgesJoinNodes, LifelineInv, JumpsAway, Leaves

(* A new flow node is chained, lands or starts, and the node before it is   *)
(* left along the edge to it.                                               *)
LEMMA FlowNodeContinues ==
    ASSUME PoolInv, ChainInv, NEW n \in Nat, NEW kind, NEW visual, NEW landings, NEW jumps,
           NEW position, FlowNodeAdded(n, kind, visual, landings, jumps, position)
    PROVE  ChainInv'
<1>1. /\ outcome = "reading" /\ outcome' = "reading"
      /\ n # 0 /\ NodesGrow /\ n \notin DOMAIN nodes
      /\ DOMAIN nodes' = DOMAIN nodes \union {n}
      /\ nodes'[n].kind = kind /\ nodes'[n].visual = visual
      /\ position = "Start" <=> kind = "Event" /\ visual = "Start"
      /\ position = "End" <=> kind = "Event" /\ visual = "End"
      /\ position = "End" => jumps = <<>>
      /\ kind \in {"Event", "Gateway", "Task"}
      /\ lifeline' = IF jumps # <<>> \/ position = "End" THEN 0 ELSE n
  BY DEF FlowNodeAdded, NodesGain, FlowNode
<1>2. ~JumpsAway(n) /\ ~Leaves(n) /\ n # lifeline /\ 0 \notin DOMAIN nodes
  <2>1. nodes \in Seq(Node)
    BY DEF PoolInv, TypeOK
  <2> QED
    BY <1>1, <2>1, NewNodeHasNoLinks
<1>3. PICK es : /\ EdgesGain(es)
                /\ \A x \in es : x.from = lifeline
                /\ Chained(landings, position) => Added(SequenceFlow(lifeline, n, FALSE))
                /\ ~Chained(landings, position) => lifeline = 0
  BY DEF FlowNodeAdded, SequenceFlow
<1>4. PICK js : /\ JumpsGain(js)
                /\ \A x \in js : x.node = n
                /\ jumps # <<>> => JumpsAway(n)'
                /\ jumps = <<>> => js = {}
  BY DEF FlowNodeAdded
<1>5. PICK ls : LandingsGain(ls) /\ (landings # <<>> => Lands(n)')
  BY DEF FlowNodeAdded
<1>6. ASSUME NEW m \in DOMAIN nodes
      PROVE  Continues(m)'
  <2>1. Continues(m) /\ nodes'[m] = nodes[m] /\ m # n /\ m # 0
    BY <1>1, <1>2 DEF ChainInv, NodesGrow
  <2>2. ASSUME m = lifeline
        PROVE  Leaves(m)'
    <3>1. Added(SequenceFlow(m, n, FALSE))
      BY <1>3, <2>1, <2>2
    <3> QED
      BY <3>1 DEF Added, Leaves, SequenceFlow
  <2>3. m # lifeline'
    BY <1>1, <2>1
  <2>4. Ends(m) => m # lifeline
    BY <2>1 DEF Continues
  <2> QED
    BY <1>1, <1>3, <1>4, <1>5, <2>1, <2>2, <2>3, <2>4, ContinuesKept
<1>7. Continues(n)'
  <2>1. ASSUME NeedsExit(n)'
        PROVE  n = lifeline' \/ JumpsAway(n)'
    <3>1. position # "End"
      BY <1>1, <2>1 DEF NeedsExit
    <3> QED
      BY <1>1, <1>4, <3>1
  <2>2. ASSUME NeedsEntry(n)'
        PROVE  Lands(n)' \/ Arrives(n)'
    <3>1. position # "Start"
      BY <1>1, <2>2 DEF NeedsEntry
    <3>2. CASE landings = <<>>
      <4>1. Added(SequenceFlow(lifeline, n, FALSE))
        BY <1>3, <3>1, <3>2 DEF Chained
      <4> QED
        BY <4>1 DEF Added, Arrives, SequenceFlow
    <3> QED
      BY <1>5, <3>2
  <2>3. ASSUME Ends(n)'
        PROVE  n # lifeline' /\ ~JumpsAway(n)' /\ ~Leaves(n)'
    <3>1. position = "End" /\ jumps = <<>> /\ js = {}
      BY <1>1, <1>4, <2>3 DEF Ends
    <3>2. ~JumpsAway(n)' /\ ~Leaves(n)'
      BY <1>2, <1>3, <1>4, <1>5, <3>1, LinksKept
    <3> QED
      BY <1>1, <3>1, <3>2
  <2> QED
    BY <2>1, <2>2, <2>3 DEF Continues
<1> QED
  BY <1>1, <1>6, <1>7 DEF ChainInv

(* Every effect keeps the chains. *)
LEMMA StepChain ==
    ASSUME PoolInv, ChainInv, ConnectingInv, StepEffect
    PROVE  ChainInv'
<1>1. /\ UNCHANGED danglingEnd => JumpsGain({})
      /\ UNCHANGED danglingStart => LandingsGain({})
      /\ UNCHANGED edges => EdgesGain({})
      /\ UNCHANGED nodes => NodesGrow
  BY DEF JumpsGain, LandingsGain, EdgesGain, NodesGrow
<1>2. ASSUME UNCHANGED <<nodes, lifeline>>, outcome # "accepted", outcome' # "accepted",
             NEW es, EdgesGain(es), NEW js, JumpsGain(js), LandingsGain({}),
             \A m \in DOMAIN nodes : Ends(m) =>
                /\ \A x \in es : ~(x.flow = "sequence" /\ x.from = m /\ ~x.boundary)
                /\ \A x \in js : ~(x.node = m /\ ~x.boundary)
      PROVE  ChainInv'
  <2> SUFFICES ASSUME NEW m \in DOMAIN nodes
               PROVE  Continues(m)'
    BY <1>2 DEF ChainInv
  <2>1. Continues(m) /\ nodes'[m] = nodes[m] /\ lifeline' = lifeline
    BY <1>2 DEF ChainInv
  <2> QED
    BY <1>2, <2>1, ContinuesKept
<1>3. CASE NothingAdded \/ FileEnds \/ \E k \in pending : KeyTaken(k)
  <2>1. /\ UNCHANGED <<nodes, lifeline>> /\ outcome # "accepted" /\ outcome' # "accepted"
        /\ EdgesGain({}) /\ JumpsGain({}) /\ LandingsGain({})
    BY <1>1, <1>3 DEF NothingAdded, FileEnds, KeyTaken
  <2> QED
    BY <1>2, <2>1
<1>4. CASE BoundaryAdded
  <2>1. /\ UNCHANGED <<nodes, lifeline>> /\ outcome # "accepted" /\ outcome' # "accepted"
        /\ EdgesGain({}) /\ LandingsGain({})
        /\ JumpsGain({[node |-> lifeline, boundary |-> TRUE]})
    BY <1>1, <1>4 DEF BoundaryAdded
  <2> QED
    BY <1>2, <2>1
<1>5. ASSUME NEW s \in Nat, NEW r \in Nat, MessageFlowAdded(s, r)
      PROVE  ChainInv'
  <2>1. /\ UNCHANGED <<nodes, lifeline>> /\ outcome # "accepted" /\ outcome' # "accepted"
        /\ EdgesGain({MessageFlow(s, r)}) /\ JumpsGain({}) /\ LandingsGain({})
    BY <1>1, <1>5 DEF MessageFlowAdded
  <2>2. MessageFlow(s, r).flow # "sequence"
    BY DEF MessageFlow
  <2> QED
    BY <1>2, <2>1, <2>2
<1>6. ASSUME NEW n \in Nat, NEW node, NEW recipients, DataNodeAdded(n, node, recipients)
      PROVE  ChainInv'
  <2>1. /\ NodesGrow /\ DOMAIN nodes' = DOMAIN nodes \union {n}
        /\ nodes'[n].kind = "Data"
        /\ lifeline' = lifeline /\ outcome # "accepted" /\ outcome' # "accepted"
        /\ JumpsGain({}) /\ LandingsGain({})
    BY <1>1, <1>6 DEF DataNodeAdded, NodesGain
  <2>2. PICK es : EdgesGain(es) /\ \A x \in es : x.flow # "sequence"
    BY <1>6 DEF DataNodeAdded, DataFlow
  <2>3. ASSUME NEW m \in DOMAIN nodes
        PROVE  Continues(m)'
    <3>1. Continues(m) /\ nodes'[m] = nodes[m]
      BY <2>1 DEF ChainInv, NodesGrow
    <3> QED
      BY <2>1, <2>2, <3>1, ContinuesKept
  <2>4. Continues(n)'
    BY <2>1 DEF Continues, NeedsExit, NeedsEntry, Ends
  <2> QED
    BY <2>1, <2>3, <2>4 DEF ChainInv
<1>7. ASSUME NEW flow, PairJoined(flow)
      PROVE  ChainInv'
  <2>1. /\ UNCHANGED <<nodes, lifeline>> /\ outcome # "accepted" /\ outcome' # "accepted"
        /\ EdgesGain({flow}) /\ JumpsGain({}) /\ LandingsGain({})
    BY <1>1, <1>7 DEF PairJoined
  <2>2. key \in Keys /\ cursor.start \in DOMAIN danglingEnd[key]
    BY <1>7 DEF PairJoined, PoolInv, TypeOK, CursorInv
  <2>3. /\ flow.from = danglingEnd[key][cursor.start].node
        /\ flow.boundary = danglingEnd[key][cursor.start].boundary
    BY <1>7 DEF PairJoined, SequenceFlow
  <2>4. ASSUME NEW m \in DOMAIN nodes, Ends(m), flow.from = m, ~flow.boundary
        PROVE  FALSE
    <3>1. JumpsAway(m)
      BY <2>2, <2>3, <2>4 DEF JumpsAway
    <3> QED
      BY <2>4, <3>1 DEF ChainInv, Continues
  <2> QED
    BY <1>2, <2>1, <2>4
<1>8. CASE FileAccepted
  <2>1. /\ outcome = "connecting" /\ outcome' = "accepted"
        /\ DOMAIN nodes' = DOMAIN nodes
        /\ \A n \in DOMAIN nodes : nodes'[n].kind = nodes[n].kind
        /\ UNCHANGED <<edges, lifeline, danglingEnd, danglingStart>>
    BY <1>8 DEF FileAccepted
  <2> SUFFICES ASSUME NEW m \in DOMAIN nodes
               PROVE  Continues(m)'
    BY <2>1 DEF ChainInv
  <2>2. /\ NeedsExit(m)' => NeedsExit(m)
        /\ NeedsEntry(m)' => NeedsEntry(m)
        /\ ~Ends(m)'
    BY <2>1 DEF NeedsExit, NeedsEntry, Ends
  <2>3. /\ Leaves(m)' <=> Leaves(m)
        /\ Arrives(m)' <=> Arrives(m)
        /\ JumpsAway(m)' <=> JumpsAway(m)
        /\ Lands(m)' <=> Lands(m)
    BY <2>1 DEF Leaves, Arrives, JumpsAway, Lands
  <2>4. Continues(m)
    BY DEF ChainInv
  <2> QED
    BY <2>1, <2>2, <2>3, <2>4 DEF Continues
<1> QED
  BY <1>3, <1>4, <1>5, <1>6, <1>7, <1>8, FlowNodeContinues DEF StepEffect

-----------------------------------------------------------------------------
(* The icons of a data element follow each other *)

(* Data flows carry the element of their data node if the added ones do.    *)
LEMMA DataFlowsKept ==
    ASSUME PoolInv, DataFlowsCarryElements,
           \A n \in DOMAIN nodes : /\ nodes'[n].kind = nodes[n].kind
                                   /\ nodes'[n].element = nodes[n].element,
           NEW es, EdgesGain(es),
           \A x \in es : x.flow = "data" =>
               \E n \in {x.from, x.to} : nodes'[n].kind = "Data" /\ nodes'[n].element = x.element
    PROVE  DataFlowsCarryElements'
<1> SUFFICES ASSUME NEW e \in DOMAIN edges', edges'[e].flow = "data"
             PROVE  \E n \in {edges'[e].from, edges'[e].to} :
                       nodes'[n].kind = "Data" /\ nodes'[n].element = edges'[e].element
  BY DEF DataFlowsCarryElements
<1>1. CASE e \in DOMAIN edges
  <2>1. edges'[e] = edges[e] /\ edges[e].from \in DOMAIN nodes /\ edges[e].to \in DOMAIN nodes
    BY <1>1 DEF EdgesGain, PoolInv, EdgesJoinNodes
  <2>2. PICK n \in {edges[e].from, edges[e].to} :
          nodes[n].kind = "Data" /\ nodes[n].element = edges[e].element
    BY <1>1, <2>1 DEF DataFlowsCarryElements
  <2> QED
    BY <2>1, <2>2
<1>2. CASE e \notin DOMAIN edges
  BY <1>2 DEF EdgesGain
<1> QED
  BY <1>1, <1>2

(* A flow node belongs to no element. *)
LEMMA FlowNodeElements ==
    ASSUME PoolInv, ElementsInv, NEW n \in Nat, NEW kind, NEW visual, NEW landings, NEW jumps,
           NEW position, FlowNodeAdded(n, kind, visual, landings, jumps, position)
    PROVE  ElementsInv'
<1>1. /\ NodesGrow /\ n \notin DOMAIN nodes /\ DOMAIN nodes' = DOMAIN nodes \union {n}
      /\ nodes'[n].element = 0 /\ elements' = elements /\ ~afterData' /\ n = Len(nodes) + 1
  BY DEF FlowNodeAdded, NodesGain, FlowNode
<1>2. elements \in Nat /\ DOMAIN nodes = 1..Len(nodes) /\ Len(nodes) \in Nat
  BY DEF PoolInv, TypeOK
<1>3. \A m \in DOMAIN nodes' : nodes'[m].element <= elements'
  BY <1>1, <1>2 DEF ElementsInv, NodesGrow
<1>4. IconsAreAdjacent'
  <2> SUFFICES ASSUME NEW m \in DOMAIN nodes', NEW q \in DOMAIN nodes', NEW i \in m..q,
                      nodes'[m].element # 0, nodes'[m].element = nodes'[q].element
               PROVE  nodes'[i].element = nodes'[m].element
    BY DEF IconsAreAdjacent
  <2>1. m \in DOMAIN nodes /\ q \in DOMAIN nodes
    BY <1>1
  <2>2. i \in DOMAIN nodes
    BY <1>2, <2>1
  <2> QED
    BY <1>1, <2>1, <2>2 DEF NodesGrow, ElementsInv, ContinuationsAreAdjacent, IconsAreAdjacent
<1>5. DataFlowsCarryElements'
  <2>1. PICK es : EdgesGain(es) /\ \A x \in es : x.flow # "data"
    BY DEF FlowNodeAdded, SequenceFlow
  <2>2. \A m \in DOMAIN nodes : /\ nodes'[m].kind = nodes[m].kind
                                /\ nodes'[m].element = nodes[m].element
    BY <1>1 DEF NodesGrow
  <2> QED
    BY <2>1, <2>2, DataFlowsKept DEF ElementsInv, ContinuationsAreAdjacent
<1> QED
  BY <1>1, <1>3, <1>4, <1>5 DEF ElementsInv, ContinuationsAreAdjacent

(* An icon that continues an element follows an icon of it, and another one *)
(* opens an element that no node has.                                       *)
LEMMA DataNodeElements ==
    ASSUME PoolInv, ElementsInv, NEW n \in Nat, NEW node, NEW recipients,
           DataNodeAdded(n, node, recipients)
    PROVE  ElementsInv'
<1>1. /\ NodesGrow /\ n \notin DOMAIN nodes /\ DOMAIN nodes' = DOMAIN nodes \union {n}
      /\ nodes'[n] = node /\ node.element = elements' /\ node.kind = "Data"
      /\ n = Len(nodes) + 1 /\ n = Len(nodes')
      /\ \/ elements' = elements + 1
         \/ elements' = elements /\ afterData
  BY DEF DataNodeAdded, NodesGain
<1>2. /\ elements \in Nat /\ elements' \in Nat
      /\ DOMAIN nodes = 1..Len(nodes) /\ Len(nodes) \in Nat
  BY <1>1 DEF PoolInv, TypeOK
<1>3. \A m \in DOMAIN nodes : nodes[m].element \in Nat /\ nodes[m].element <= elements
  <2>1. \A m \in DOMAIN nodes : nodes[m] \in Node
    BY DEF PoolInv, TypeOK
  <2> QED
    BY <2>1 DEF Node, ElementsInv
<1>4. \A m \in DOMAIN nodes' : nodes'[m].element <= elements'
  BY <1>1, <1>2, <1>3 DEF NodesGrow
<1>5. IconsAreAdjacent'
  <2> SUFFICES ASSUME NEW m \in DOMAIN nodes', NEW q \in DOMAIN nodes', NEW i \in m..q,
                      nodes'[m].element # 0, nodes'[m].element = nodes'[q].element
               PROVE  nodes'[i].element = nodes'[m].element
    BY DEF IconsAreAdjacent
  <2>1. i = n \/ i \in DOMAIN nodes
    BY <1>1, <1>2
  <2>2. CASE m = n
    <3>1. q = n /\ i = n
      BY <1>1, <1>2, <2>2
    <3> QED
      BY <2>2, <3>1
  <2>3. CASE m # n /\ q # n
    <3>1. m \in DOMAIN nodes /\ q \in DOMAIN nodes
      BY <1>1, <2>3
    <3>2. i \in DOMAIN nodes
      BY <1>2, <3>1
    <3> QED
      BY <1>1, <3>1, <3>2 DEF NodesGrow, ElementsInv, ContinuationsAreAdjacent, IconsAreAdjacent
  <2>4. CASE m # n /\ q = n
    <3>1. m \in DOMAIN nodes /\ nodes'[m] = nodes[m] /\ nodes[m].element = elements'
      BY <1>1, <2>4 DEF NodesGrow
    <3>2. elements' = elements /\ afterData
      BY <1>1, <1>2, <1>3, <3>1
    <3>3. Len(nodes) \in DOMAIN nodes /\ nodes[Len(nodes)].element = elements
      BY <1>2, <3>1, <3>2 DEF ElementsInv
    <3>4. \A j \in m..Len(nodes) : nodes[j].element = nodes[m].element
      <4>1. nodes[m].element # 0 /\ nodes[m].element = nodes[Len(nodes)].element
        BY <3>1, <3>2, <3>3
      <4> QED
        BY <3>1, <3>3, <4>1 DEF ElementsInv, ContinuationsAreAdjacent, IconsAreAdjacent
    <3>5. CASE i \in DOMAIN nodes
      <4>1. i \in m..Len(nodes) /\ nodes'[i] = nodes[i]
        BY <1>1, <1>2, <3>1, <3>5 DEF NodesGrow
      <4> QED
        BY <3>1, <3>4, <4>1
    <3> QED
      BY <1>1, <2>1, <3>1, <3>5
  <2> QED
    BY <2>2, <2>3, <2>4
<1>6. DataFlowsCarryElements'
  <2>1. PICK es : /\ EdgesGain(es)
                  /\ \A x \in es : x.element = elements' /\ n \in {x.from, x.to}
    BY DEF DataNodeAdded, DataFlow
  <2>2. \A m \in DOMAIN nodes : /\ nodes'[m].kind = nodes[m].kind
                                /\ nodes'[m].element = nodes[m].element
    BY <1>1 DEF NodesGrow
  <2> QED
    BY <1>1, <2>1, <2>2, DataFlowsKept DEF ElementsInv, ContinuationsAreAdjacent
<1>7. nodes' # <<>> /\ nodes'[Len(nodes')].element = elements'
  <2>1. nodes' # <<>>
    BY <1>1
  <2> QED
    BY <1>1, <2>1
<1> QED
  BY <1>4, <1>5, <1>6, <1>7 DEF ElementsInv, ContinuationsAreAdjacent

(* Every effect keeps the order of the elements. *)
LEMMA StepElements ==
    ASSUME PoolInv, ElementsInv, StepEffect
    PROVE  ElementsInv'
<1>1. ASSUME UNCHANGED <<nodes, elements>>, afterData' => afterData,
             NEW es, EdgesGain(es), \A x \in es : x.flow # "data"
      PROVE  ElementsInv'
  <2>1. DataFlowsCarryElements'
    BY <1>1, DataFlowsKept DEF ElementsInv, ContinuationsAreAdjacent
  <2>2. IconsAreAdjacent'
    BY <1>1 DEF ElementsInv, ContinuationsAreAdjacent, IconsAreAdjacent
  <2> QED
    BY <1>1, <2>1, <2>2 DEF ElementsInv, ContinuationsAreAdjacent
<1>2. UNCHANGED edges => EdgesGain({})
  BY DEF EdgesGain
<1>3. CASE NothingAdded \/ BoundaryAdded \/ FileEnds \/ \E k \in pending : KeyTaken(k)
  <2>1. UNCHANGED <<nodes, elements, edges>> /\ (afterData' => afterData)
    BY <1>3 DEF NothingAdded, BoundaryAdded, FileEnds, KeyTaken
  <2> QED
    BY <1>1, <1>2, <2>1
<1>4. ASSUME NEW s \in Nat, NEW r \in Nat, MessageFlowAdded(s, r)
      PROVE  ElementsInv'
  <2>1. /\ UNCHANGED <<nodes, elements>> /\ (afterData' => afterData)
        /\ EdgesGain({MessageFlow(s, r)})
    BY <1>4 DEF MessageFlowAdded
  <2>2. MessageFlow(s, r).flow # "data"
    BY DEF MessageFlow
  <2> QED
    BY <1>1, <2>1, <2>2
<1>5. ASSUME NEW flow, PairJoined(flow)
      PROVE  ElementsInv'
  <2>1. /\ UNCHANGED <<nodes, elements>> /\ (afterData' => afterData)
        /\ EdgesGain({flow}) /\ flow.flow = "sequence"
    BY <1>5 DEF PairJoined, SequenceFlow
  <2> QED
    BY <1>1, <2>1
<1>6. CASE FileAccepted
  <2>1. /\ DOMAIN nodes' = DOMAIN nodes /\ Len(nodes') = Len(nodes)
        /\ \A n \in DOMAIN nodes : /\ nodes'[n].kind = nodes[n].kind
                                   /\ nodes'[n].element = nodes[n].element
        /\ UNCHANGED <<edges, elements, afterData>>
    BY <1>6 DEF FileAccepted
  <2>2. DataFlowsCarryElements'
    BY <1>2, <2>1, DataFlowsKept DEF ElementsInv, ContinuationsAreAdjacent
  <2>3. DOMAIN nodes = 1..Len(nodes) /\ Len(nodes) \in Nat
    BY DEF PoolInv, TypeOK
  <2>4. \A m, q \in DOMAIN nodes : \A i \in m..q : i \in DOMAIN nodes
    BY <2>3
  <2>5. IconsAreAdjacent'
    BY <2>1, <2>4 DEF ElementsInv, ContinuationsAreAdjacent, IconsAreAdjacent
  <2>6. afterData' => nodes' # <<>> /\ nodes'[Len(nodes')].element = elements'
    <3> SUFFICES ASSUME afterData
                 PROVE  nodes' # <<>> /\ nodes'[Len(nodes')].element = elements'
      BY <2>1
    <3>1. nodes # <<>> /\ nodes[Len(nodes)].element = elements
      BY DEF ElementsInv
    <3>2. Len(nodes) \in DOMAIN nodes
      BY <2>3, <3>1 DEF PoolInv, TypeOK
    <3>3. nodes' # <<>>
      BY <2>1, <3>2
    <3> QED
      BY <2>1, <3>1, <3>2, <3>3
  <2> QED
    BY <2>1, <2>2, <2>5, <2>6 DEF ElementsInv, ContinuationsAreAdjacent
<1> QED
  BY <1>3, <1>4, <1>5, <1>6, FlowNodeElements, DataNodeElements DEF StepEffect

-----------------------------------------------------------------------------
(* Rounding keeps a data node between the lanes of its recipients *)

(* The sum of the lanes is what the loop over the recipients adds up.       *)
LEMMA LaneSumRuns ==
    ASSUME NEW recipients, Len(recipients) \in Nat,
           \A i \in 1..Len(recipients) : nodes[recipients[i].node].lane \in Nat
    PROVE  \E s : /\ IsRunningSum(s, [i \in 1..Len(recipients) |-> nodes[recipients[i].node].lane],
                                  Len(recipients))
                  /\ LaneSum(recipients) = s[Len(recipients)]
<1> DEFINE m == Len(recipients)
           lanes == [i \in 1..m |-> nodes[recipients[i].node].lane]
           Is(s) == s = [i \in 0..m |-> IF i = 0 THEN 0
                                        ELSE s[i - 1] + nodes[recipients[i].node].lane]
           sum == CHOOSE s : Is(s)
<1>1. \A s : [i \in 0..m |-> IF i = 0 THEN 0 ELSE s[i - 1] + lanes[i]]
               = [i \in 0..m |-> IF i = 0 THEN 0 ELSE s[i - 1] + nodes[recipients[i].node].lane]
  <2> TAKE s
  <2>1. \A i \in 0..m : i # 0 => lanes[i] = nodes[recipients[i].node].lane
    OBVIOUS
  <2> QED
    BY <2>1
<1>2. \A s : IsRunningSum(s, lanes, m) <=> Is(s)
  BY <1>1 DEF IsRunningSum
<1>3. \E s : Is(s)
  <2>1. \A i \in 1..m : lanes[i] \in Nat
    OBVIOUS
  <2>2. m \in Nat
    OBVIOUS
  <2> HIDE DEF lanes, m, Is
  <2> QED
    BY <1>2, <2>1, <2>2, RunningSumExists
<1>4. Is(sum)
  <2> HIDE DEF Is
  <2> QED
    BY <1>3
<1>5. LaneSum(recipients) = sum[m]
  BY DEF LaneSum
<1> QED
  BY <1>2, <1>4, <1>5

(* The recipients of a data statement are a list of nodes.                  *)
LEMMA RecipientsAreNodes ==
    ASSUME NEW recipients \in Seq([outgoing : BOOLEAN, node : Registered])
    PROVE  /\ Len(recipients) \in Nat /\ DOMAIN recipients = 1..Len(recipients)
           /\ recipients # <<>> => Len(recipients) # 0
           /\ \A i \in DOMAIN recipients : recipients[i].node \in DOMAIN nodes
<1>1. PICK S : S = [outgoing : BOOLEAN, node : Registered]
  OBVIOUS
<1>2. recipients \in Seq(S)
  BY <1>1
<1>3. /\ Len(recipients) \in Nat /\ DOMAIN recipients = 1..Len(recipients)
      /\ recipients # <<>> => Len(recipients) # 0
  BY <1>2
<1>4. \A i \in DOMAIN recipients : recipients[i] \in S
  BY <1>2
<1>5. \A r \in S : r.node \in Registered
  BY <1>1
<1> QED
  BY <1>3, <1>4, <1>5 DEF Registered

(* The rounded mean of some lanes is not below or above them all.           *)
LEMMA MeanIsBetween ==
    ASSUME PoolInv, NEW recipients \in Seq([outgoing : BOOLEAN, node : Registered]),
           recipients # <<>>, NEW lane \in Nat, IsRoundedMean(lane, recipients)
    PROVE  /\ \E i \in DOMAIN recipients : nodes[recipients[i].node].lane <= lane
           /\ \E i \in DOMAIN recipients : nodes[recipients[i].node].lane >= lane
<1>1. PICK m \in Nat : m = Len(recipients) /\ m > 0 /\ DOMAIN recipients = 1..m
  BY RecipientsAreNodes
<1>2. PICK lanes : lanes = [i \in 1..m |-> nodes[recipients[i].node].lane]
  OBVIOUS
<1>3. \A i \in 1..m : lanes[i] = nodes[recipients[i].node].lane /\ lanes[i] \in Nat
  <2> TAKE i \in 1..m
  <2>1. recipients[i].node \in DOMAIN nodes
    BY <1>1, RecipientsAreNodes
  <2>2. nodes[recipients[i].node] \in Node
    BY <2>1 DEF PoolInv, TypeOK
  <2> QED
    BY <1>2, <2>2 DEF Node
<1>4. PICK s : IsRunningSum(s, lanes, m) /\ LaneSum(recipients) = s[m]
  BY <1>1, <1>2, <1>3, LaneSumRuns
<1>5. /\ 2 * s[m] < (2 * lane + 1) * m
      /\ 2 * s[m] + m >= 2 * lane * m
  BY <1>1, <1>4 DEF IsRoundedMean
<1>6. \E i \in 1..m : lanes[i] <= lane
  <2> SUFFICES ASSUME \A i \in 1..m : ~(lanes[i] <= lane)
               PROVE  FALSE
    OBVIOUS
  <2>1. \A i \in 1..m : lane + 1 <= lanes[i]
    BY <1>3
  <2>2. s[m] \in Nat /\ m * (lane + 1) <= s[m]
    BY <1>3, <1>4, <2>1, lane + 1 \in Nat, RunningSumLowerBound
  <2>3. m * (lane + 1) = lane * m + m /\ lane * m \in Nat
    OBVIOUS
  <2>4. (2 * lane + 1) * m = 2 * (lane * m) + m
    OBVIOUS
  <2> QED
    BY <1>1, <1>5, <2>2, <2>3, <2>4
<1>7. \E i \in 1..m : lanes[i] >= lane
  <2> SUFFICES ASSUME \A i \in 1..m : ~(lanes[i] >= lane)
               PROVE  FALSE
    OBVIOUS
  <2>1. lane - 1 \in Nat
    BY <1>1, <1>3
  <2>2. \A i \in 1..m : lanes[i] <= lane - 1
    BY <1>3
  <2>3. s[m] \in Nat /\ s[m] <= m * (lane - 1)
    BY <1>3, <1>4, <2>1, <2>2, RunningSumUpperBound
  <2>4. m * (lane - 1) = lane * m - m /\ lane * m \in Nat
    OBVIOUS
  <2>5. 2 * lane * m = 2 * (lane * m)
    OBVIOUS
  <2> QED
    BY <1>1, <1>5, <2>3, <2>4, <2>5
<1> QED
  BY <1>1, <1>3, <1>6, <1>7

(* The data node n is between its recipients. *)
Between(n) ==
    /\ \E r \in Recipients(n) : nodes[r].lane <= nodes[n].lane
    /\ \E r \in Recipients(n) : nodes[r].lane >= nodes[n].lane

(* A data node keeps its recipients, and they keep their lanes.             *)
LEMMA BetweenKept ==
    ASSUME PoolInv, NEW n \in DOMAIN nodes, Between(n),
           \A m \in DOMAIN nodes : nodes'[m].lane = nodes[m].lane,
           NEW es, EdgesGain(es)
    PROVE  Between(n)'
<1>1. \A e \in DOMAIN edges : /\ e \in DOMAIN edges' /\ edges'[e] = edges[e]
                              /\ edges[e].from \in DOMAIN nodes /\ edges[e].to \in DOMAIN nodes
  BY DEF EdgesGain, PoolInv, EdgesJoinNodes
<1>2. ASSUME NEW r \in Recipients(n)
      PROVE  r \in Recipients(n)' /\ r \in DOMAIN nodes
  BY <1>1 DEF Recipients
<1>3. \A r \in Recipients(n) : r \in Recipients(n)' /\ nodes'[r].lane = nodes[r].lane
  BY <1>2
<1>4. nodes'[n].lane = nodes[n].lane
  OBVIOUS
<1> QED
  BY <1>3, <1>4 DEF Between

(* The statement of a data node gives it recipients around its lane.        *)
LEMMA DataNodeBetween ==
    ASSUME PoolInv, DataBetweenRecipients, NEW n \in Nat, NEW node, NEW recipients,
           DataNodeAdded(n, node, recipients)
    PROVE  DataBetweenRecipients'
<1>1. /\ NodesGrow /\ n \notin DOMAIN nodes /\ DOMAIN nodes' = DOMAIN nodes \union {n}
      /\ nodes'[n] = node /\ n = Len(nodes) + 1 /\ node \in Node
      /\ recipients \in Seq([outgoing : BOOLEAN, node : Registered]) /\ recipients # <<>>
      /\ IsRoundedMean(node.lane, recipients)
  BY DEF DataNodeAdded, NodesGain
<1>2. PICK es : EdgesGain(es)
  BY DEF DataNodeAdded
<1>3. ASSUME NEW i \in DOMAIN recipients
      PROVE  /\ recipients[i].node \in Recipients(n)'
             /\ nodes'[recipients[i].node] = nodes[recipients[i].node]
  <2>1. PICK r \in DOMAIN nodes : r = recipients[i].node
    BY <1>1, RecipientsAreNodes
  <2>2. r \in Nat /\ r < n
    <3>1. DOMAIN nodes = 1..Len(nodes) /\ Len(nodes) \in Nat
      BY DEF PoolInv, TypeOK
    <3> QED
      BY <1>1, <3>1
  <2>3. PICK element : Added(DataFlow(n, recipients[i], element))
    BY DEF DataNodeAdded
  <2>4. PICK e \in DOMAIN edges' : edges'[e] = DataFlow(n, recipients[i], element)
    BY <2>3 DEF Added
  <2>5. /\ edges'[e].flow = "data"
        /\ edges'[e].from = IF recipients[i].outgoing THEN n ELSE r
        /\ edges'[e].to = IF recipients[i].outgoing THEN r ELSE n
    BY <2>1, <2>4 DEF DataFlow
  <2>6. /\ n = IF edges'[e].from > edges'[e].to THEN edges'[e].from ELSE edges'[e].to
        /\ r = IF edges'[e].from = n THEN edges'[e].to ELSE edges'[e].from
    BY <2>2, <2>5
  <2>7. r \in Recipients(n)'
    BY <2>5, <2>6 DEF Recipients
  <2> QED
    BY <1>1, <2>1, <2>7 DEF NodesGrow
<1>4. node.lane \in Nat
  BY <1>1 DEF Node
<1>5. Between(n)'
  <2>1. /\ \E i \in DOMAIN recipients : nodes[recipients[i].node].lane <= node.lane
        /\ \E i \in DOMAIN recipients : nodes[recipients[i].node].lane >= node.lane
    BY <1>1, <1>4, MeanIsBetween
  <2> QED
    BY <1>1, <1>3, <2>1 DEF Between
<1>6. ASSUME NEW m \in DOMAIN nodes, nodes[m].kind = "Data"
      PROVE  Between(m)'
  <2>1. Between(m)
    BY <1>6 DEF DataBetweenRecipients, Between
  <2>2. \A q \in DOMAIN nodes : nodes'[q].lane = nodes[q].lane
    BY <1>1 DEF NodesGrow
  <2> QED
    BY <1>2, <1>6, <2>1, <2>2, BetweenKept
<1>7. \A m \in DOMAIN nodes' : nodes'[m].kind = "Data" => Between(m)'
  BY <1>1, <1>5, <1>6 DEF NodesGrow
<1> QED
  BY <1>7 DEF DataBetweenRecipients, Between

(* Every effect keeps data nodes between their recipients.                  *)
LEMMA StepBetween ==
    ASSUME PoolInv, DataBetweenRecipients, StepEffect
    PROVE  DataBetweenRecipients'
<1>1. ASSUME \A n \in DOMAIN nodes : /\ n \in DOMAIN nodes' /\ nodes'[n].lane = nodes[n].lane
                                     /\ nodes'[n].kind = nodes[n].kind,
             \A n \in DOMAIN nodes' : n \in DOMAIN nodes \/ nodes'[n].kind # "Data",
             NEW es, EdgesGain(es)
      PROVE  DataBetweenRecipients'
  <2>1. ASSUME NEW n \in DOMAIN nodes', nodes'[n].kind = "Data"
        PROVE  Between(n)'
    <3>1. n \in DOMAIN nodes /\ nodes[n].kind = "Data"
      BY <1>1, <2>1
    <3>2. Between(n)
      BY <3>1 DEF DataBetweenRecipients, Between
    <3> QED
      BY <1>1, <3>1, <3>2, BetweenKept
  <2> QED
    BY <2>1 DEF DataBetweenRecipients, Between
<1>2. UNCHANGED edges => EdgesGain({})
  BY DEF EdgesGain
<1>3. CASE NothingAdded \/ BoundaryAdded \/ FileEnds \/ \E k \in pending : KeyTaken(k)
  <2>1. UNCHANGED <<nodes, edges>>
    BY <1>3 DEF NothingAdded, BoundaryAdded, FileEnds, KeyTaken
  <2> QED
    BY <1>1, <1>2, <2>1
<1>4. ASSUME NEW n \in Nat, NEW kind, NEW visual, NEW landings, NEW jumps, NEW position,
             FlowNodeAdded(n, kind, visual, landings, jumps, position)
      PROVE  DataBetweenRecipients'
  <2>1. /\ NodesGrow /\ DOMAIN nodes' = DOMAIN nodes \union {n}
        /\ nodes'[n].kind \in {"Event", "Gateway", "Task"}
    BY <1>4 DEF FlowNodeAdded, NodesGain, FlowNode
  <2>2. PICK es : EdgesGain(es)
    BY <1>4 DEF FlowNodeAdded
  <2> QED
    BY <1>1, <2>1, <2>2 DEF NodesGrow
<1>5. ASSUME NEW s \in Nat, NEW r \in Nat, MessageFlowAdded(s, r)
      PROVE  DataBetweenRecipients'
  BY <1>1, <1>5 DEF MessageFlowAdded
<1>6. ASSUME NEW flow, PairJoined(flow)
      PROVE  DataBetweenRecipients'
  BY <1>1, <1>6 DEF PairJoined
<1>7. CASE FileAccepted
  BY <1>1, <1>2, <1>7 DEF FileAccepted
<1> QED
  BY <1>3, <1>4, <1>5, <1>6, <1>7, DataNodeBetween DEF StepEffect

-----------------------------------------------------------------------------
(* The invariant and what follows from it *)

(* The invariant holds when parse() is called.                              *)
LEMMA InitParser == Init => ParserInv
<1> SUFFICES ASSUME Init
             PROVE  ParserInv
  OBVIOUS
<1>1. /\ outcome = "reading" /\ pools = <<>> /\ nodes = <<>> /\ edges = <<>>
      /\ \A k \in Keys : danglingEnd[k] = <<>> /\ danglingStart[k] = <<>>
      /\ elements = 0 /\ ~afterData
  BY DEF Init
<1>2. DOMAIN nodes = {} /\ DOMAIN edges = {} /\ Len(pools) = 0 /\ MaxPools \in Nat
  BY <1>1, BoundsAreNaturals
<1>3. PoolInv
  BY InitPool
<1>4. PoolCountInv
  BY <1>1, <1>2 DEF PoolCountInv
<1>5. BoundaryInv
  BY <1>1, <1>2 DEF BoundaryInv, LifelineIsLast, OnlyDataAfter, BoundaryJumpsOnTasks,
         BoundaryFlowsLeaveTasks
<1>6. ConnectingInv
  BY <1>1 DEF ConnectingInv
<1>7. ChainInv /\ DataBetweenRecipients
  BY <1>2 DEF ChainInv, DataBetweenRecipients
<1>8. ElementsInv
  BY <1>1, <1>2 DEF ElementsInv, ContinuationsAreAdjacent, IconsAreAdjacent,
         DataFlowsCarryElements
<1> QED
  BY <1>3, <1>4, <1>5, <1>6, <1>7, <1>8 DEF ParserInv

(* A step that changes nothing keeps the invariant.                         *)
LEMMA StutterParser ==
    ASSUME ParserInv, UNCHANGED vars
    PROVE  ParserInv'
<1>1. /\ UNCHANGED <<outcome, line, afterData, pools, nodes, edges, elements, grouping, lifeline>>
      /\ UNCHANGED <<danglingEnd, danglingStart, pending, key, cursor>>
  BY DEF vars, graph, context, connecting
<1>2. PoolInv'
  BY <1>1, StutterPool DEF ParserInv
<1>3. PoolCountInv' /\ BoundaryInv'
  BY <1>1 DEF ParserInv, PoolCountInv, BoundaryInv, LifelineIsLast, OnlyDataAfter,
         BoundaryJumpsOnTasks, BoundaryFlowsLeaveTasks
<1>4. ConnectingInv'
  BY <1>1 DEF ParserInv, ConnectingInv, UsedKeys, Joined, BeforeCursor
<1>5. ChainInv'
  BY <1>1 DEF ParserInv, ChainInv, Continues, NeedsExit, NeedsEntry, Ends,
         JumpsAway, Lands, Leaves, Arrives
<1>6. ElementsInv'
  BY <1>1 DEF ParserInv, ElementsInv, ContinuationsAreAdjacent, IconsAreAdjacent,
         DataFlowsCarryElements
<1>7. DataBetweenRecipients'
  BY <1>1 DEF ParserInv, DataBetweenRecipients, Recipients
<1> QED
  BY <1>2, <1>3, <1>4, <1>5, <1>6, <1>7 DEF ParserInv

(* Every statement, and every step after the last one, keeps the invariant. *)
LEMMA NextParser == ParserInv /\ [Next]_vars => ParserInv'
<1> SUFFICES ASSUME ParserInv, [Next]_vars
             PROVE  ParserInv'
  OBVIOUS
<1>1. CASE UNCHANGED vars
  BY <1>1, StutterParser
<1>2. ASSUME NEW reason, Reject(reason), PoolInv'
      PROVE  ParserInv'
  BY <1>2, RejectParts DEF ParserInv
<1>3. ASSUME StepEffect, PoolCountInv', PoolInv'
      PROVE  ParserInv'
  BY <1>3, StepBoundary, StepConnecting, StepChain, StepElements, StepBetween DEF ParserInv
<1>4. CASE Next
  <2>1. PoolInv'
    BY <1>4, NextPool DEF ParserInv
  <2>2. \/ \E reason : Reject(reason)
        \/ UNCHANGED vars
        \/ StepEffect /\ PoolCountInv'
    BY <1>4, StepHasEffect DEF ParserInv
  <2> QED
    BY <1>1, <1>2, <1>3, <2>1, <2>2
<1> QED
  BY <1>1, <1>4

(* In every state of every file, the parts of ParserInv hold together.      *)
THEOREM ParserInvariant == Spec => []ParserInv
<1>1. Init => ParserInv
  BY InitParser
<1>2. ParserInv /\ [Next]_vars => ParserInv'
  BY NextParser
<1> QED
  BY <1>1, <1>2, PTL DEF Spec

(* Nothing is attached but by a boundary event, at the end of the lifeline, *)
(* and nothing is drawn for one but from the jump at the cursor.            *)
LEMMA EffectAttaches ==
    ASSUME ParserInv, StepEffect
    PROVE  AttachesToLastTask
<1>1. /\ PoolInv /\ BoundaryInv
      /\ UNCHANGED danglingEnd => JumpsGain({})
      /\ UNCHANGED edges => EdgesGain({})
  BY DEF ParserInv, JumpsGain, EdgesGain
<1>2. ASSUME NEW js, JumpsGain(js), \A x \in js : ~x.boundary,
             NEW es, EdgesGain(es), \A x \in es : ~x.boundary
      PROVE  AttachesToLastTask
  BY <1>2 DEF AttachesToLastTask, JumpsGain, EdgesGain
<1>3. CASE NothingAdded \/ FileEnds \/ FileAccepted \/ \E k \in pending : KeyTaken(k)
  <2>1. JumpsGain({}) /\ EdgesGain({})
    BY <1>1, <1>3 DEF NothingAdded, FileEnds, FileAccepted, KeyTaken
  <2> QED
    BY <1>2, <2>1
<1>4. ASSUME NEW n \in Nat, NEW kind, NEW visual, NEW landings, NEW jumps, NEW position,
             FlowNodeAdded(n, kind, visual, landings, jumps, position)
      PROVE  AttachesToLastTask
  <2>1. PICK js : JumpsGain(js) /\ \A x \in js : ~x.boundary
    BY <1>4 DEF FlowNodeAdded
  <2>2. PICK es : EdgesGain(es) /\ \A x \in es : ~x.boundary
    BY <1>4 DEF FlowNodeAdded, SequenceFlow
  <2> QED
    BY <1>2, <2>1, <2>2
<1>5. CASE BoundaryAdded
  <2>1. EdgesGain({}) /\ JumpsGain({[node |-> lifeline, boundary |-> TRUE]})
    BY <1>1, <1>5 DEF BoundaryAdded
  <2>2. lifeline \in DOMAIN nodes /\ nodes[lifeline].kind = "Task"
    BY <1>5 DEF BoundaryAdded
  <2>3. lifeline # 0
    BY <1>1, <2>2 DEF PoolInv, TypeOK
  <2>4. OnlyDataAfter(lifeline)
    BY <1>1, <2>3 DEF BoundaryInv, LifelineIsLast
  <2> QED
    BY <2>1, <2>2, <2>4 DEF AttachesToLastTask, JumpsGain, EdgesGain
<1>6. ASSUME NEW s \in Nat, NEW r \in Nat, MessageFlowAdded(s, r)
      PROVE  AttachesToLastTask
  <2>1. EdgesGain({MessageFlow(s, r)}) /\ JumpsGain({}) /\ ~MessageFlow(s, r).boundary
    BY <1>1, <1>6 DEF MessageFlowAdded, MessageFlow
  <2> QED
    BY <1>2, <2>1
<1>7. ASSUME NEW n \in Nat, NEW node, NEW recipients, DataNodeAdded(n, node, recipients)
      PROVE  AttachesToLastTask
  <2>1. JumpsGain({})
    BY <1>1, <1>7 DEF DataNodeAdded
  <2>2. PICK es : EdgesGain(es) /\ \A x \in es : ~x.boundary
    BY <1>7 DEF DataNodeAdded, DataFlow
  <2> QED
    BY <1>2, <2>1, <2>2
<1>8. ASSUME NEW flow, PairJoined(flow)
      PROVE  AttachesToLastTask
  <2>1. EdgesGain({flow}) /\ JumpsGain({})
    BY <1>1, <1>8 DEF PairJoined
  <2>2. key \in Keys /\ cursor.start \in DOMAIN danglingEnd[key]
    BY <1>1, <1>8 DEF PairJoined, PoolInv, TypeOK, CursorInv
  <2>3. /\ flow.from = danglingEnd[key][cursor.start].node
        /\ flow.boundary = danglingEnd[key][cursor.start].boundary
    BY <1>8 DEF PairJoined, SequenceFlow
  <2>4. flow.boundary => DeclaredAt(flow.from)
    BY <2>2, <2>3 DEF DeclaredAt
  <2> QED
    BY <2>1, <2>4 DEF AttachesToLastTask, JumpsGain, EdgesGain
<1> QED
  BY <1>3, <1>4, <1>5, <1>6, <1>7, <1>8 DEF StepEffect

(* The host of a boundary event is the task that was read last, however     *)
(* many data statements and message flows stand between the two, and its    *)
(* flow is drawn from a host it was declared at.                            *)
THEOREM BoundaryEventsAttached == Spec => BoundaryEventsOnLastTask
<1>1. ASSUME NEW reason, Reject(reason)
      PROVE  AttachesToLastTask
  <2>1. edges' = <<>> /\ \A k \in Keys : danglingEnd'[k] = <<>>
    BY <1>1 DEF Reject
  <2> QED
    BY <2>1 DEF AttachesToLastTask
<1>2. ParserInv /\ [Next]_vars => [AttachesToLastTask]_vars
  BY <1>1, StepHasEffect, EffectAttaches DEF ParserInv
<1> QED
  BY <1>2, ParserInvariant, PTL DEF Spec, BoundaryEventsOnLastTask

(* Once the loops of parse() are through, every jump is connected to every  *)
(* landing of its label in its pool, in whichever order the hash maps of    *)
(* pools and labels were iterated.                                          *)
THEOREM AllJumpsReachLandings == Spec => []JumpsReachLandings
<1>1. ASSUME ParserInv, AllLabelsConnected
      PROVE  /\ outcome \in {"connecting", "accepted"} /\ pending = {}
             /\ \A k \in UsedKeys : \A i \in DOMAIN danglingEnd[k], j \in DOMAIN danglingStart[k] :
                   Joined(k, i, j)
  BY <1>1 DEF ParserInv, ConnectingInv, AllLabelsConnected
<1>2. ASSUME NEW k \in Keys, NEW i \in DOMAIN danglingEnd[k], ParserInv
      PROVE  k \in UsedKeys
  <2>1. danglingEnd[k] # <<>>
    OBVIOUS
  <2> QED
    BY <2>1 DEF UsedKeys
<1>3. ParserInv => JumpsReachLandings
  BY <1>1, <1>2 DEF JumpsReachLandings, Joined
<1> QED
  BY <1>3, ParserInvariant, PTL

(* A file that is accepted has no dead end: a sequence flow reaches every   *)
(* gateway and task and leaves it, and nothing leaves an end event.  The    *)
(* parser checks this nowhere; it follows from the statements it rejects.   *)
THEOREM NoDeadEnds == Spec => []NoDeadEnd
<1>1. ASSUME ParserInv, AllLabelsConnected
      PROVE  /\ lifeline = 0
             /\ \A k \in UsedKeys :
                   /\ danglingEnd[k] # <<>> /\ danglingStart[k] # <<>>
                   /\ \A i \in DOMAIN danglingEnd[k], j \in DOMAIN danglingStart[k] : Joined(k, i, j)
  BY <1>1 DEF ParserInv, ConnectingInv, AllLabelsConnected
<1>2. ASSUME ParserInv, AllLabelsConnected, NEW k \in UsedKeys
      PROVE  1 \in DOMAIN danglingEnd[k] /\ 1 \in DOMAIN danglingStart[k]
  <2>1. k \in Keys /\ danglingEnd[k] # <<>> /\ danglingStart[k] # <<>>
    BY <1>1, <1>2 DEF UsedKeys
  <2>2. danglingEnd[k] \in Seq(Dangling) /\ danglingStart[k] \in Seq(Dangling)
    BY <1>2, <2>1 DEF ParserInv, PoolInv, TypeOK
  <2> QED
    BY <2>1, <2>2
<1>3. ASSUME ParserInv, AllLabelsConnected, NEW n, JumpsAway(n)
      PROVE  Leaves(n)
  <2>1. PICK k \in Keys : \E i \in DOMAIN danglingEnd[k] :
          danglingEnd[k][i].node = n /\ ~danglingEnd[k][i].boundary
    BY <1>3 DEF JumpsAway
  <2>2. PICK i \in DOMAIN danglingEnd[k] :
          danglingEnd[k][i].node = n /\ ~danglingEnd[k][i].boundary
    BY <2>1
  <2>3. danglingEnd[k] # <<>>
    BY <2>2
  <2>4. k \in UsedKeys
    BY <2>1, <2>3 DEF UsedKeys
  <2>5. Joined(k, i, 1)
    BY <1>1, <1>2, <1>3, <2>2, <2>4
  <2> QED
    BY <2>2, <2>5 DEF Joined, Leaves, SequenceFlow
<1>4. ASSUME ParserInv, AllLabelsConnected, NEW n, Lands(n)
      PROVE  Arrives(n)
  <2>1. PICK k \in Keys : \E j \in DOMAIN danglingStart[k] : danglingStart[k][j].node = n
    BY <1>4 DEF Lands
  <2>2. PICK j \in DOMAIN danglingStart[k] : danglingStart[k][j].node = n
    BY <2>1
  <2>3. danglingStart[k] # <<>>
    BY <2>2
  <2>4. k \in UsedKeys
    BY <2>1, <2>3 DEF UsedKeys
  <2>5. Joined(k, 1, j)
    BY <1>1, <1>2, <1>4, <2>2, <2>4
  <2> QED
    BY <2>2, <2>5 DEF Joined, Arrives, SequenceFlow
<1>5. ASSUME ParserInv, AllLabelsConnected, NEW n \in DOMAIN nodes
      PROVE  /\ nodes[n].kind \in {"Gateway", "Task"} => Leaves(n) /\ Arrives(n)
             /\ nodes[n].kind = "Event" /\ outcome = "connecting" =>
                   /\ nodes[n].visual # "End" <=> Leaves(n)
                   /\ nodes[n].visual # "Start" => Arrives(n)
  <2>1. Continues(n) /\ lifeline = 0 /\ n # 0
    <3>1. n \in 1..Len(nodes) /\ Len(nodes) \in Nat
      BY <1>5 DEF ParserInv, PoolInv, TypeOK
    <3> QED
      BY <1>1, <1>5, <3>1 DEF ParserInv, ChainInv
  <2>2. /\ NeedsExit(n) => Leaves(n)
        /\ NeedsEntry(n) => Arrives(n)
        /\ Ends(n) => ~Leaves(n)
    BY <1>3, <1>4, <1>5, <2>1 DEF Continues
  <2> QED
    BY <2>2 DEF NeedsExit, NeedsEntry, Ends
<1>6. ParserInv => NoDeadEnd
  BY <1>5 DEF NoDeadEnd
<1> QED
  BY <1>6, ParserInvariant, PTL

(* The icons of one data element follow each other, and a data flow carries *)
(* the element of the data node whose statement drew it.                    *)
THEOREM ContinuationsAdjacent == Spec => []ContinuationsAreAdjacent
<1>1. ParserInv => ContinuationsAreAdjacent
  BY DEF ParserInv, ElementsInv
<1> QED
  BY <1>1, ParserInvariant, PTL

(* Dividing by the number of recipients and rounding keeps a data node      *)
(* between the lanes of those it exchanges data with, however many they are.*)
THEOREM DataNodesBetweenRecipients == Spec => []DataBetweenRecipients
<1>1. ParserInv => DataBetweenRecipients
  BY DEF ParserInv
<1> QED
  BY <1>1, ParserInvariant, PTL
=============================================================================
