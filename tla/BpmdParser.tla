----------------------------- MODULE BpmdParser -----------------------------
(***************************************************************************)
(* The statement machine of src/src/parser.rs.  A BPMD file is a list of   *)
(* statements; the parser reads them in order and builds the graph while   *)
(* it tracks in which pool and lane it is (grouping) and which sequence    *)
(* flow is being chained from line to line (lifeline).  Flows that jump    *)
(* to a label are kept aside, per pool and label, and are connected when   *)
(* the file has ended, in the order a hash map is iterated, which is any.  *)
(* Every call of the parser ends in a graph or in an error; with an error  *)
(* the parser and its graph are dropped.                                   *)
(*                                                                         *)
(* Identifiers count from 1 where the code counts from 0.  The file is not *)
(* fixed beforehand: every step reads one more statement of any kind, so   *)
(* that one behaviour is one file.  Texts, colours and coordinates are     *)
(* left out; a reference to a node is the node the matcher returns.        *)
(***************************************************************************)
EXTENDS Naturals, FiniteSets, SequencesExt

CONSTANTS
    Labels,        \* labels of jumps (->l) and landings (<-l)
    Statements,    \* the kinds of statements a file may use
    MaxLines,      \* bound: statements in a file
    MaxPools,      \* bound: pools in a file
    MaxArms,       \* bound: landings and jumps of one gateway
    MaxRecipients, \* bound: data flows of one data statement
    MaxDataNodes,  \* bound: data statements in a file
    NoKey          \* the value of `key` while no label is being connected

PoolIds == 1..MaxPools
Keys == PoolIds \X Labels

ASSUME BoundsAreNaturals ==
    /\ MaxLines \in Nat /\ MaxPools \in Nat \ {0}
    /\ MaxArms \in Nat /\ MaxRecipients \in Nat /\ MaxDataNodes \in Nat
ASSUME NoKeyIsNoKey == NoKey \notin Keys

VARIABLES
    outcome,       \* what the caller of parse() sees so far, or will see
    line,          \* number of statements read
    pools,         \* graph.pools: whether it is anonymous, and how many lanes
    nodes,         \* graph.nodes
    edges,         \* graph.edges
    elements,      \* graph.data_elements.len()
    grouping,      \* context.grouping_state
    lifeline,      \* last node of the active lifeline, 0 if none is active
    afterData,     \* the previous statement declared or continued data
    danglingEnd,   \* jumps, which wait for their landings, per pool and label
    danglingStart, \* landings, which wait for their jumps
    pending,       \* the keys that parse() has yet to connect
    key,           \* the key it is connecting
    cursor         \* the start and the end of the pair that comes next

graph == <<pools, nodes, edges, elements>>
context == <<grouping, lifeline, danglingEnd, danglingStart>>
connecting == <<pending, key, cursor>>
vars == <<outcome, line, afterData, graph, context, connecting>>

-----------------------------------------------------------------------------
(* Values *)

Errors ==
    {"unfinished_lifeline", "no_lifeline", "lane_without_pool",
     "lane_in_anonymous_pool", "lane_in_anonymous_lane", "boundary_host",
     "unknown_node", "message_within_pool", "recipients_in_two_pools",
     "undefined_label", "flow_across_pools", "message_endpoint"}

Kinds == {"Event", "Gateway", "Task", "Data"}
Visuals == {"Start", "Catch", "Throw", "End", "none"}

Pool == [anonymous : BOOLEAN, lanes : Nat]
Node == [kind : Kinds, message : BOOLEAN, visual : Visuals,
         pool : Nat, lane : Nat, element : Nat]
Edge == [from : Nat, to : Nat, flow : {"sequence", "message", "data"},
         boundary : BOOLEAN, element : Nat]
Dangling == [node : Nat, boundary : BOOLEAN]
Grouping == [state : {"Init", "AnonymousPool", "Pool", "AnonymousLane", "Lane"},
             pool : Nat, lane : Nat]

NoGrouping == [state |-> "Init", pool |-> 0, lane |-> 0]
NoCursor == [start |-> 0, end |-> 0]

SequenceFlow(from, to, boundary) ==
    [from |-> from, to |-> to, flow |-> "sequence",
     boundary |-> boundary, element |-> 0]

MessageFlow(from, to) ==
    [from |-> from, to |-> to, flow |-> "message",
     boundary |-> FALSE, element |-> 0]

(* A data flow as the statement of data node n writes it: `->target` leaves *)
(* the data node, `<-target` enters it.                                     *)
DataFlow(n, recipient, element) ==
    [from |-> IF recipient.outgoing THEN n ELSE recipient.node,
     to |-> IF recipient.outgoing THEN recipient.node ELSE n,
     flow |-> "data", boundary |-> FALSE, element |-> element]

FlowNode(kind, visual, place) ==
    [kind |-> kind, message |-> FALSE, visual |-> visual,
     pool |-> place.pool, lane |-> place.lane, element |-> 0]

-----------------------------------------------------------------------------
(* Steps that handlers share *)

CanRead(kind) == outcome = "reading" /\ kind \in Statements /\ line < MaxLines

(* Mutant: `&` continues the last data element from anywhere below it. *)
NextLineForgetsAdjacency(kind) ==
    line' = line + 1 /\ afterData' = (afterData \/ kind = "Data")

NextLine(kind) == line' = line + 1 /\ afterData' = (kind = "Data")

(* An error drops the parser, and with it all that was built. *)
Reject(reason) ==
    /\ outcome' = reason
    /\ line' = 0 /\ afterData' = FALSE
    /\ pools' = <<>> /\ nodes' = <<>> /\ edges' = <<>> /\ elements' = 0
    /\ grouping' = NoGrouping /\ lifeline' = 0
    /\ danglingEnd' = [k \in Keys |-> <<>>]
    /\ danglingStart' = [k \in Keys |-> <<>>]
    /\ pending' = {} /\ key' = NoKey /\ cursor' = NoCursor

(* Mutant: the node takes the last lane before its own lane is created. *)
PlaceBeforeLane ==
    CASE grouping.state = "Init" -> [pool |-> Len(pools) + 1, lane |-> 1]
      [] grouping.state = "Pool" ->
            [pool |-> grouping.pool, lane |-> pools[grouping.pool].lanes - 1]
      [] OTHER -> [pool |-> grouping.pool, lane |-> grouping.lane]

(* The lane a new node goes to; a node without a pool or a lane creates an  *)
(* anonymous one.                                                           *)
PlaceForNewNode ==
    CASE grouping.state = "Init" -> [pool |-> Len(pools) + 1, lane |-> 1]
      [] grouping.state = "Pool" ->
            [pool |-> grouping.pool, lane |-> pools[grouping.pool].lanes + 1]
      [] OTHER -> [pool |-> grouping.pool, lane |-> grouping.lane]

ManagePoolAndLane ==
    CASE grouping.state = "Init" ->
            /\ pools' = Append(pools, [anonymous |-> TRUE, lanes |-> 1])
            /\ grouping' = [state |-> "AnonymousPool",
                            pool |-> Len(pools) + 1, lane |-> 1]
      [] grouping.state = "Pool" ->
            /\ pools' = [pools EXCEPT ![grouping.pool].lanes = @ + 1]
            /\ grouping' = [state |-> "AnonymousLane", pool |-> grouping.pool,
                            lane |-> pools[grouping.pool].lanes + 1]
      [] OTHER -> UNCHANGED <<pools, grouping>>

(* The entries that a node adds under label l: one per mention. *)
Mentions(flows, l, n) ==
    [i \in 1..Cardinality({j \in DOMAIN flows : flows[j] = l})
        |-> [node |-> n, boundary |-> FALSE]]

Push(dangling, pool, flows, n) ==
    [k \in Keys |-> IF k[1] = pool THEN dangling[k] \o Mentions(flows, k[2], n)
                                   ELSE dangling[k]]

(* Mutant: a landing starts a new lifeline while another one is active. *)
ConnectErrorAllowsLandings(landings, position) ==
    IF landings # <<>> \/ position = "Start"
    THEN {}
    ELSE IF lifeline = 0 THEN {"no_lifeline"} ELSE {}

(* Which error connect_nodes() returns, if any. *)
ConnectError(landings, position) ==
    IF landings # <<>> \/ position = "Start"
    THEN IF lifeline # 0 THEN {"unfinished_lifeline"} ELSE {}
    ELSE IF lifeline = 0 THEN {"no_lifeline"} ELSE {}

(* Mutant: a jump leaves the lifeline where it was. *)
NextLifelineKept(n, jumps, position) ==
    IF jumps # <<>> \/ position = "End" THEN lifeline ELSE n

(* The lifeline goes on from the node just read, unless that ends it. *)
NextLifeline(n, jumps, position) ==
    IF jumps # <<>> \/ position = "End" THEN 0 ELSE n

(* manage_pool_and_lane_ids_for_new_node(), add_node() and connect_nodes(). *)
AddFlowNode(kind, visual, landings, jumps, position) ==
    LET place == PlaceForNewNode
        n == Len(nodes) + 1
    IN \/ \E reason \in ConnectError(landings, position) : Reject(reason)
       \/ /\ ConnectError(landings, position) = {}
          /\ NextLine(kind)
          /\ ManagePoolAndLane
          /\ nodes' = Append(nodes, FlowNode(kind, visual, place))
          /\ edges' = IF landings = <<>> /\ position # "Start"
                      THEN Append(edges, SequenceFlow(lifeline, n, FALSE))
                      ELSE edges
          /\ danglingStart' = Push(danglingStart, place.pool, landings, n)
          /\ danglingEnd' = Push(danglingEnd, place.pool, jumps, n)
          /\ lifeline' = NextLifeline(n, jumps, position)
          /\ UNCHANGED <<outcome, elements, connecting>>

-----------------------------------------------------------------------------
(* One action per kind of statement *)

Init ==
    /\ outcome = "reading" /\ line = 0 /\ afterData = FALSE
    /\ pools = <<>> /\ nodes = <<>> /\ edges = <<>> /\ elements = 0
    /\ grouping = NoGrouping /\ lifeline = 0
    /\ danglingEnd = [k \in Keys |-> <<>>]
    /\ danglingStart = [k \in Keys |-> <<>>]
    /\ pending = {} /\ key = NoKey /\ cursor = NoCursor

(* Mutant: a pool statement does not look at the lifeline. *)
ParsePoolUnchecked ==
    /\ CanRead("Pool") /\ Len(pools) < MaxPools
    /\ NextLine("Pool")
    /\ pools' = Append(pools, [anonymous |-> FALSE, lanes |-> 0])
    /\ grouping' = [state |-> "Pool", pool |-> Len(pools) + 1, lane |-> 0]
    /\ UNCHANGED <<outcome, nodes, edges, elements, lifeline,
                   danglingEnd, danglingStart, connecting>>

(* `= Pool` *)
ParsePool ==
    /\ CanRead("Pool") /\ Len(pools) < MaxPools
    /\ \/ lifeline # 0 /\ Reject("unfinished_lifeline")
       \/ /\ lifeline = 0
          /\ NextLine("Pool")
          /\ pools' = Append(pools, [anonymous |-> FALSE, lanes |-> 0])
          /\ grouping' = [state |-> "Pool", pool |-> Len(pools) + 1, lane |-> 0]
          /\ UNCHANGED <<outcome, nodes, edges, elements, lifeline,
                         danglingEnd, danglingStart, connecting>>

(* `== Lane` *)
LaneError ==
    CASE lifeline # 0 -> {"unfinished_lifeline"}
      [] lifeline = 0 /\ grouping.state = "Init" -> {"lane_without_pool"}
      [] lifeline = 0 /\ grouping.state = "AnonymousPool" -> {"lane_in_anonymous_pool"}
      [] lifeline = 0 /\ grouping.state = "AnonymousLane" -> {"lane_in_anonymous_lane"}
      [] OTHER -> {}

ParseLane ==
    /\ CanRead("Lane")
    /\ \/ \E reason \in LaneError : Reject(reason)
       \/ /\ LaneError = {}
          /\ NextLine("Lane")
          /\ pools' = [pools EXCEPT ![grouping.pool].lanes = @ + 1]
          /\ grouping' = [state |-> "Lane", pool |-> grouping.pool,
                          lane |-> pools[grouping.pool].lanes + 1]
          /\ UNCHANGED <<outcome, nodes, edges, elements, lifeline,
                         danglingEnd, danglingStart, connecting>>

(* `# Event`: a start event if no sequence flow is active.  Every event of  *)
(* the lexer is a blank shorthand event.                                    *)
ParseEvent ==
    /\ CanRead("Event")
    /\ \E landings, jumps \in BoundedSeq(Labels, 1) :
          IF lifeline = 0
          THEN AddFlowNode("Event", "Start", landings, jumps, "Start")
          ELSE AddFlowNode("Event", "Throw", landings, jumps, "Middle")

(* `. End`, which the lexer denies a jump *)
ParseEventEnd ==
    /\ CanRead("End")
    /\ \E landings \in BoundedSeq(Labels, 1) :
          AddFlowNode("Event", "End", landings, <<>>, "End")

(* `- Task` *)
ParseActivity ==
    /\ CanRead("Task")
    /\ \E landings, jumps \in BoundedSeq(Labels, 1) :
          AddFlowNode("Task", "none", landings, jumps, "Middle")

(* `X ->l1 ->l2`, which has at least one arm *)
ParseGateway ==
    /\ CanRead("Gateway")
    /\ \E landings, jumps \in BoundedSeq(Labels, MaxArms) :
          /\ Len(landings) + Len(jumps) \in 1..MaxArms
          /\ AddFlowNode("Gateway", "none", landings, jumps, "InferOrIntermediate")

(* `T! ->l`: a boundary event of the task that was read last *)
BoundaryError ==
    CASE lifeline = 0 -> {"no_lifeline"}
      [] lifeline # 0 /\ nodes[lifeline].kind # "Task" -> {"boundary_host"}
      [] OTHER -> {}

ParseBoundaryEvent ==
    /\ CanRead("Boundary")
    /\ \/ \E reason \in BoundaryError : Reject(reason)
       \/ /\ BoundaryError = {}
          /\ NextLine("Boundary")
          /\ ManagePoolAndLane
          /\ \E l \in Labels :
                danglingEnd' = [danglingEnd EXCEPT ![<<PlaceForNewNode.pool, l>>] =
                                  Append(@, [node |-> lifeline, boundary |-> TRUE])]
          /\ UNCHANGED <<outcome, nodes, edges, elements, lifeline,
                         danglingStart, connecting>>

(* The node matcher knows every node but the gateways; a reference can miss *)
(* them all.                                                                *)
Registered == {n \in DOMAIN nodes : nodes[n].kind # "Gateway"}

(* Mutant: sender and receiver may be in one pool. *)
ParseMessageFlowAnywhere ==
    /\ CanRead("MessageFlow")
    /\ \/ Reject("unknown_node")
       \/ \E sender, receiver \in Registered :
             /\ NextLine("MessageFlow")
             /\ edges' = Append(edges, MessageFlow(sender, receiver))
             /\ UNCHANGED <<outcome, pools, nodes, elements, context, connecting>>

(* `MF <-sender ->receiver` *)
ParseMessageFlow ==
    /\ CanRead("MessageFlow")
    /\ \/ Reject("unknown_node")
       \/ \E sender, receiver \in Registered :
             \/ /\ nodes[sender].pool = nodes[receiver].pool
                /\ Reject("message_within_pool")
             \/ /\ nodes[sender].pool # nodes[receiver].pool
                /\ NextLine("MessageFlow")
                /\ edges' = Append(edges, MessageFlow(sender, receiver))
                /\ UNCHANGED <<outcome, pools, nodes, elements, context, connecting>>

(* The lane of a data node: the mean of its recipients' lanes, rounded. *)
LaneSum(recipients) ==
    LET sum[i \in 0..Len(recipients)] ==
            IF i = 0 THEN 0 ELSE sum[i - 1] + nodes[recipients[i].node].lane
    IN sum[Len(recipients)]

(* Mutant: the sum of the lanes is not divided. *)
IsLaneSum(lane, recipients) == lane = LaneSum(recipients)

IsRoundedMean(lane, recipients) ==
    /\ 2 * LaneSum(recipients) < (2 * lane + 1) * Len(recipients)
    /\ 2 * LaneSum(recipients) + Len(recipients) >= 2 * lane * Len(recipients)

(* add_sde(), add_node() and the data flows of a data statement *)
AddDataNode(recipients, continues) ==
    LET n == Len(nodes) + 1
        element == IF continues THEN elements ELSE elements + 1
        pool == nodes[recipients[1].node].pool
    IN /\ \A i \in DOMAIN recipients : nodes[recipients[i].node].pool = pool
       /\ NextLine("Data")
       /\ elements' = element
       /\ \E lane \in 0..MaxLines :
             /\ IsRoundedMean(lane, recipients)
             /\ nodes' = Append(nodes,
                   [kind |-> "Data", message |-> FALSE, visual |-> "none",
                    pool |-> pool, lane |-> lane, element |-> element])
       /\ edges' = edges \o [i \in DOMAIN recipients |->
                               DataFlow(n, recipients[i], element)]
       /\ UNCHANGED <<outcome, pools, context, connecting>>

(* `OD ->reader <-writer`, or with `&` one more icon of the data element of *)
(* the data statement right above                                           *)
ParseData ==
    /\ CanRead("Data")
    /\ Cardinality({n \in DOMAIN nodes : nodes[n].kind = "Data"}) < MaxDataNodes
    /\ \/ Reject("unknown_node")
       \/ \E recipients \in BoundedSeq([outgoing : BOOLEAN, node : Registered], MaxRecipients) :
             /\ recipients # <<>>
             /\ \/ /\ \E i \in DOMAIN recipients :
                           nodes[recipients[i].node].pool # nodes[recipients[1].node].pool
                   /\ Reject("recipients_in_two_pools")
                \/ \E continues \in IF afterData THEN BOOLEAN ELSE {FALSE} :
                      AddDataNode(recipients, continues)

-----------------------------------------------------------------------------
(* The end of the file *)

UsedKeys == {k \in Keys : danglingEnd[k] # <<>> \/ danglingStart[k] # <<>>}

EndOfFile ==
    /\ outcome = "reading"
    /\ \/ lifeline # 0 /\ Reject("unfinished_lifeline")
       \/ /\ lifeline = 0
          /\ outcome' = "connecting"
          /\ pending' = UsedKeys
          /\ UNCHANGED <<line, afterData, graph, context, key, cursor>>

(* The labels of one pool are connected before those of the next.  Neither  *)
(* the pools nor the labels of a pool have an order.                        *)
PoolInProgress(p) ==
    /\ \E k \in pending : k[1] = p
    /\ \E k \in UsedKeys \ pending : k[1] = p

NextKey ==
    /\ outcome = "connecting" /\ key = NoKey
    /\ \E k \in pending :
          /\ \A other \in pending : PoolInProgress(other[1]) => k[1] = other[1]
          /\ IF danglingEnd[k] = <<>> \/ danglingStart[k] = <<>>
             THEN Reject("undefined_label")
             ELSE /\ key' = k
                  /\ cursor' = [start |-> 1, end |-> 1]
                  /\ UNCHANGED <<outcome, line, afterData, graph, context, pending>>

(* Mutant: jumps and landings are zipped. *)
AdvanceBoth ==
    IF cursor.end < Len(danglingStart[key]) /\ cursor.start < Len(danglingEnd[key])
    THEN /\ cursor' = [start |-> cursor.start + 1, end |-> cursor.end + 1]
         /\ UNCHANGED <<pending, key>>
    ELSE /\ pending' = pending \ {key}
         /\ key' = NoKey
         /\ cursor' = NoCursor

(* One turn of the two loops over the starts and the ends of a label. *)
AdvanceCursor ==
    IF cursor.end < Len(danglingStart[key])
    THEN /\ cursor' = [cursor EXCEPT !.end = @ + 1]
         /\ UNCHANGED <<pending, key>>
    ELSE IF cursor.start < Len(danglingEnd[key])
    THEN /\ cursor' = [start |-> cursor.start + 1, end |-> 1]
         /\ UNCHANGED <<pending, key>>
    ELSE /\ pending' = pending \ {key}
         /\ key' = NoKey
         /\ cursor' = NoCursor

ConnectPair ==
    /\ outcome = "connecting" /\ key # NoKey
    /\ LET start == danglingEnd[key][cursor.start]
           end == danglingStart[key][cursor.end]
       IN IF nodes[start.node].pool # nodes[end.node].pool
          THEN Reject("flow_across_pools")
          ELSE /\ edges' = Append(edges, SequenceFlow(start.node, end.node, start.boundary))
               /\ AdvanceCursor
               /\ UNCHANGED <<outcome, line, afterData, pools, nodes, elements, context>>

(* process_shorthand_blank_events(): an event with a message flow becomes a *)
(* message event, whose symbol is guessed from its edges.                   *)
HasEdge(end, n) == \E e \in DOMAIN edges : edges[e][end] = n
HasMessage(end, n) ==
    \E e \in DOMAIN edges : edges[e][end] = n /\ edges[e].flow = "message"

MessageVisual(n) ==
    IF HasMessage("to", n)
    THEN IF HasEdge("from", n) THEN "Catch" ELSE "End"
    ELSE IF HasEdge("to", n) THEN "Throw" ELSE "Start"

ShorthandProcessed ==
    [n \in DOMAIN nodes |->
        IF nodes[n].kind = "Event" /\ (HasMessage("to", n) \/ HasMessage("from", n))
        THEN [nodes[n] EXCEPT !.message = TRUE, !.visual = MessageVisual(n)]
        ELSE nodes[n]]

(* validate_invariants() *)
MaySend(node) ==
    \/ node.kind = "Task"
    \/ node.kind = "Event" /\ node.message /\ node.visual \in {"Throw", "End"}

MayReceive(node) ==
    \/ node.kind = "Task"
    \/ node.kind = "Event" /\ (node.message => node.visual \in {"Start", "Catch"})

Valid(ns) ==
    \A e \in DOMAIN edges :
        edges[e].flow = "message" => MaySend(ns[edges[e].from]) /\ MayReceive(ns[edges[e].to])

Finish ==
    /\ outcome = "connecting" /\ pending = {}
    /\ IF Valid(ShorthandProcessed)
       THEN /\ outcome' = "accepted"
            /\ nodes' = ShorthandProcessed
            /\ UNCHANGED <<line, afterData, pools, edges, elements, context, connecting>>
       ELSE Reject("message_endpoint")

Answered == outcome = "accepted" \/ outcome \in Errors

(* parse() has returned. *)
Terminated == Answered /\ UNCHANGED vars

Next ==
    \/ ParsePool \/ ParseLane
    \/ ParseEvent \/ ParseEventEnd \/ ParseActivity \/ ParseGateway
    \/ ParseBoundaryEvent \/ ParseMessageFlow \/ ParseData
    \/ EndOfFile \/ NextKey \/ ConnectPair \/ Finish
    \/ Terminated

(* parse() runs until it returns. *)
Spec == Init /\ [][Next]_vars /\ WF_vars(Next)
-----------------------------------------------------------------------------
(* Properties *)

(* Types: what the parser keeps has the types of its fields in every state. *)
TypeOK ==
    /\ outcome \in {"reading", "connecting", "accepted"} \union Errors
    /\ line \in 0..MaxLines
    /\ afterData \in BOOLEAN
    /\ pools \in Seq(Pool)
    /\ nodes \in Seq(Node)
    /\ edges \in Seq(Edge)
    /\ elements \in Nat
    /\ grouping \in Grouping
    /\ lifeline \in Nat
    /\ danglingEnd \in [Keys -> Seq(Dangling)]
    /\ danglingStart \in [Keys -> Seq(Dangling)]
    /\ pending \in SUBSET Keys
    /\ key \in Keys \union {NoKey}
    /\ cursor \in [start : Nat, end : Nat]

(* Sequence flows and data flows stay within a pool, message flows go from  *)
(* one pool to another, whatever jumps, landings and references a file has. *)
FlowsRespectPools ==
    \A e \in DOMAIN edges :
        edges[e].flow = "message" <=> nodes[edges[e].from].pool # nodes[edges[e].to].pool

(* Labels are kept per pool, so the pool check of the connecting loop, with *)
(* its error message, is never reached.                                     *)
NoFlowAcrossPools == outcome # "flow_across_pools"

AllLabelsConnected ==
    \/ outcome = "accepted"
    \/ outcome = "connecting" /\ pending = {}

(* n:m labels: every jump to a label is connected to every landing of that  *)
(* label in the same pool, as an edge of the boundary event if it jumped.   *)
JumpsReachLandings ==
    AllLabelsConnected =>
        \A k \in Keys : \A i \in DOMAIN danglingEnd[k], j \in DOMAIN danglingStart[k] :
            \E e \in DOMAIN edges :
                edges[e] = SequenceFlow(danglingEnd[k][i].node, danglingStart[k][j].node,
                                        danglingEnd[k][i].boundary)

Leaves(n) ==
    \E e \in DOMAIN edges :
        edges[e].flow = "sequence" /\ edges[e].from = n /\ ~edges[e].boundary
Arrives(n) == \E e \in DOMAIN edges : edges[e].flow = "sequence" /\ edges[e].to = n

(* No dead ends: once all labels are connected, a sequence flow reaches     *)
(* every node that does not start one, and leaves every node that does not  *)
(* end one, and nothing leaves an end event.  The flow of a boundary event  *)
(* does not count for its task.  The parser checks this nowhere; it follows *)
(* from which statements it rejects.                                        *)
NoDeadEnd ==
    AllLabelsConnected =>
        \A n \in DOMAIN nodes :
            /\ nodes[n].kind \in {"Gateway", "Task"} => Leaves(n) /\ Arrives(n)
            /\ nodes[n].kind = "Event" /\ outcome = "connecting" =>
                  /\ nodes[n].visual # "End" <=> Leaves(n)
                  /\ nodes[n].visual # "Start" => Arrives(n)

(* A boundary event is attached to the task that was read last: the host    *)
(* is a task, and since that task nothing but data statements and message   *)
(* flows were read, which do not move the lifeline.  No flow is drawn for a *)
(* boundary event but from a host it was declared at.                       *)
DeclaredAt(n) ==
    \E k \in Keys : \E i \in DOMAIN danglingEnd[k] :
        danglingEnd[k][i].node = n /\ danglingEnd[k][i].boundary

OnlyDataAfter(n) == \A m \in DOMAIN nodes : m > n => nodes[m].kind = "Data"

AttachesToLastTask ==
    /\ \A k \in Keys : \A i \in DOMAIN danglingEnd'[k] \ DOMAIN danglingEnd[k] :
          danglingEnd'[k][i].boundary =>
              LET host == danglingEnd'[k][i].node
              IN nodes[host].kind = "Task" /\ OnlyDataAfter(host)
    /\ \A e \in DOMAIN edges' \ DOMAIN edges :
          edges'[e].boundary => DeclaredAt(edges'[e].from)

BoundaryEventsOnLastTask == [][AttachesToLastTask]_vars

(* Rounding keeps a data node between the lanes of those it exchanges data  *)
(* with.                                                                    *)
Recipients(n) ==
    {IF edges[e].from = n THEN edges[e].to ELSE edges[e].from :
        e \in {d \in DOMAIN edges : /\ edges[d].flow = "data"
                                    /\ n = IF edges[d].from > edges[d].to
                                           THEN edges[d].from ELSE edges[d].to}}

DataBetweenRecipients ==
    \A n \in {m \in DOMAIN nodes : nodes[m].kind = "Data"} :
        /\ \E r \in Recipients(n) : nodes[r].lane <= nodes[n].lane
        /\ \E r \in Recipients(n) : nodes[r].lane >= nodes[n].lane

(* The icons of one data element follow each other, and what flows over a   *)
(* data edge is the element of the data node whose statement drew it.       *)
IconsAreAdjacent ==
    \A m, n \in DOMAIN nodes :
        nodes[m].element # 0 /\ nodes[m].element = nodes[n].element =>
            \A i \in m..n : nodes[i].element = nodes[m].element

DataFlowsCarryElements ==
    \A e \in DOMAIN edges :
        edges[e].flow = "data" =>
            \E n \in {edges[e].from, edges[e].to} :
                nodes[n].kind = "Data" /\ nodes[n].element = edges[e].element

ContinuationsAreAdjacent == IconsAreAdjacent /\ DataFlowsCarryElements

(* The inductive invariant behind FlowsRespectPools and NoFlowAcrossPools:  *)
(* what the parser carries from statement to statement agrees on the pool.  *)
GroupingInv ==
    /\ grouping.state = "Init" => nodes = <<>>
    /\ grouping.state # "Init" => grouping.pool \in DOMAIN pools
    /\ grouping.state \in {"Init", "Pool"} => lifeline = 0

LifelineInv ==
    lifeline # 0 =>
        lifeline \in DOMAIN nodes /\ nodes[lifeline].pool = grouping.pool

DanglingInPool(dangling) ==
    \A k \in Keys : \A i \in DOMAIN dangling[k] :
        /\ dangling[k][i].node \in DOMAIN nodes
        /\ nodes[dangling[k][i].node].pool = k[1]

CursorInv ==
    /\ outcome = "reading" => key = NoKey
    /\ key # NoKey =>
          /\ cursor.start \in DOMAIN danglingEnd[key]
          /\ cursor.end \in DOMAIN danglingStart[key]

EdgesJoinNodes ==
    \A e \in DOMAIN edges :
        edges[e].from \in DOMAIN nodes /\ edges[e].to \in DOMAIN nodes

PoolInv ==
    /\ TypeOK
    /\ GroupingInv /\ LifelineInv /\ CursorInv
    /\ DanglingInPool(danglingEnd) /\ DanglingInPool(danglingStart)
    /\ EdgesJoinNodes
    /\ FlowsRespectPools
    /\ NoFlowAcrossPools

(* The label of a jump or a landing is kept under a pool that exists, and   *)
(* a file does not have more pools than the bound says.                     *)
PoolCountInv ==
    /\ Len(pools) <= MaxPools
    /\ grouping.state = "Init" => pools = <<>>

(* The inductive invariant behind BoundaryEventsOnLastTask: the lifeline is *)
(* at the flow node that was read last, and a jump that is still waiting,   *)
(* or a flow already drawn, of a boundary event leaves a task.              *)
LifelineIsLast == lifeline # 0 => OnlyDataAfter(lifeline)

BoundaryJumpsOnTasks ==
    \A k \in Keys : \A i \in DOMAIN danglingEnd[k] :
        danglingEnd[k][i].boundary => nodes[danglingEnd[k][i].node].kind = "Task"

BoundaryFlowsLeaveTasks ==
    \A e \in DOMAIN edges : edges[e].boundary => nodes[edges[e].from].kind = "Task"

BoundaryInv == LifelineIsLast /\ BoundaryJumpsOnTasks /\ BoundaryFlowsLeaveTasks

(* The inductive invariant behind JumpsReachLandings: the keys that are not *)
(* pending any more are connected, and of the key in hand every pair before *)
(* the cursor is.                                                           *)
Joined(k, i, j) ==
    \E e \in DOMAIN edges :
        edges[e] = SequenceFlow(danglingEnd[k][i].node, danglingStart[k][j].node,
                                danglingEnd[k][i].boundary)

BeforeCursor(i, j) == i < cursor.start \/ (i = cursor.start /\ j < cursor.end)

ConnectingInv ==
    outcome \in {"connecting", "accepted"} =>
        /\ lifeline = 0
        /\ pending \subseteq UsedKeys
        /\ key # NoKey => key \in pending
        /\ outcome = "accepted" => pending = {}
        /\ \A k \in UsedKeys \ pending :
              /\ danglingEnd[k] # <<>> /\ danglingStart[k] # <<>>
              /\ \A i \in DOMAIN danglingEnd[k], j \in DOMAIN danglingStart[k] : Joined(k, i, j)
        /\ key # NoKey =>
              \A i \in DOMAIN danglingEnd[key], j \in DOMAIN danglingStart[key] :
                  BeforeCursor(i, j) => Joined(key, i, j)

(* The inductive invariant behind NoDeadEnd: a node that must be left is    *)
(* left, or is the end of the lifeline, or waits to be connected to a       *)
(* landing; a node that must be reached is, or is such a landing.           *)
JumpsAway(n) ==
    \E k \in Keys : \E i \in DOMAIN danglingEnd[k] :
        danglingEnd[k][i].node = n /\ ~danglingEnd[k][i].boundary
Lands(n) == \E k \in Keys : \E j \in DOMAIN danglingStart[k] : danglingStart[k][j].node = n

NeedsExit(n) ==
    \/ nodes[n].kind \in {"Gateway", "Task"}
    \/ nodes[n].kind = "Event" /\ outcome # "accepted" /\ nodes[n].visual # "End"
NeedsEntry(n) ==
    \/ nodes[n].kind \in {"Gateway", "Task"}
    \/ nodes[n].kind = "Event" /\ outcome # "accepted" /\ nodes[n].visual # "Start"
Ends(n) == nodes[n].kind = "Event" /\ outcome # "accepted" /\ nodes[n].visual = "End"

Continues(n) ==
    /\ NeedsExit(n) => n = lifeline \/ JumpsAway(n) \/ Leaves(n)
    /\ NeedsEntry(n) => Lands(n) \/ Arrives(n)
    /\ Ends(n) => n # lifeline /\ ~JumpsAway(n) /\ ~Leaves(n)

ChainInv == \A n \in DOMAIN nodes : Continues(n)

(* The inductive invariant behind ContinuationsAreAdjacent: elements are    *)
(* numbered in the order of their statements, and after a data statement    *)
(* the last node is an icon of the last element.                            *)
ElementsInv ==
    /\ \A n \in DOMAIN nodes : nodes[n].element <= elements
    /\ afterData => nodes # <<>> /\ nodes[Len(nodes)].element = elements
    /\ ContinuationsAreAdjacent

(* The inductive invariant of the parser.                                   *)
ParserInv ==
    /\ PoolInv
    /\ PoolCountInv
    /\ BoundaryInv
    /\ ConnectingInv
    /\ ChainInv
    /\ ElementsInv
    /\ DataBetweenRecipients
=============================================================================
