# A verification project for bpmn-parser

`bpmn-parser` compiles BPMD, a line-oriented language for business processes,
into BPMN XML with a drawn layout. It is a sequential Rust program (`src/src/`),
a pipeline of phases over one mutable graph:

    lex -> parse -> transported data -> [PE-BPMN analysis]
        -> layer assignment -> dummy nodes -> sort lanes
        -> crossing minimisation -> port assignment -> x and y
        -> vertical edges -> half layers -> straight edges
        -> edge routing -> replace dummies -> XML

There are no threads, messages or crashes to recover from. What is hard is the
long life of one graph: it is addressed by plain indices, its edges are stored
in three places (`edges`, `incoming` of one node, `outgoing` of another), and
every phase temporarily or permanently reshapes what an earlier phase left,
relying on conditions that nobody states in the types. A phase that meets a
graph it does not expect panics. And the parser must turn any sequence of
statements, in any order, into a graph that these phases can work on.

## Inventory

| Component | Source | State | Operations | What makes it correct | Status |
|---|---|---|---|---|---|
| Lexer | `lexer/` | the statement being assembled | one transition per token | a statement is emitted once, with the fields its kind allows | not modelled |
| Statement parser | `parser.rs` | grouping, lifeline, dangling labels, graph | one handler per statement; label resolution; guess of event symbols | no dead ends; flows respect pools; labels are connected n:m; boundary events sit on the task read last | `BpmdParser`, partly |
| Name matchers | `node_id_matcher.rs`, `pool_id_matcher.rs` | normalised names | register, find | a reference finds what it abbreviates | not modelled; open choice in `BpmdParser` |
| Graph store | `common/` | nodes, edges, pools, lanes | add, reverse, sort, link, walk, validate | identifiers stay valid; adjacency mirrors edges; lanes are sorted; columns are lists; walks end | `BpmdParser`, `BpmnGraph`, `ColumnWalks` |
| Transported data | `analysis/mod.rs` | data elements on message flows and nodes | `create_transported_data` | what is sent was available and is received | `PeBpmnAnalysis` |
| PE-BPMN | `pe_bpmn/` | protections of data, flows and nodes | analyse, visibility table | protected flows are those along which the data move; a diagram is rejected when they never arrive; every analysis ends | `PeBpmnAnalysis`, partly |
| Layer assignment | `layout/solve_layer_assignment.rs` | layer, half layer | integer program; mean of neighbours; edge reversal | edges point right | `LayerAssignment` |
| Dummy nodes | `layout/dummy_node_generation.rs` | dummy nodes and edges | split long edges | a replaced edge is a chain between its ends | `LayerAssignment` |
| Crossing minimisation | `layout/all_crossing_minimization.rs` | temporary nodes, links of columns, order of edges | reroute, order, insert lone data, undo, sort | the undo restores the graph; columns are lists | `CrossingMinimization` |
| Port assignment | `layout/port_assignment.rs` | ports, bend dummies, vertical edges | ports of gateways and others; bend dummies | ports do not cross; bends keep flows whole and columns lists | `PortAssignment` |
| Coordinates | `layout/xy_ilp.rs` | x, y, heights | one program per lane | nothing overlaps | not modelled |
| Vertical edges, half layers | `layout/postprocess_...`, `try_move_...` | bend points, moved nodes | collapse, move | a vertical edge has its line | `FlowDrawing`, partly |
| Straight edges | `layout/straight_edge_routing.rs` | bend points | draw level edges, shortcut data edges | a shortcut drops its dummies | `FlowDrawing` |
| Edge routing | `layout/edge_routing.rs` | vertical segments per gap, message flows in the making | collect, order, place, finish | every flow is drawn once, segments do not overlap | `FlowDrawing`, `EdgeRouting` |
| Dummy replacement | `layout/replace_dummy_nodes.rs` | | join chains, drop dummies | the graph is the parsed one again | `FlowDrawing` |
| XML export | `to_xml.rs` | text | generate | both ends of an association are written as in the file | `FlowDrawing`, partly |
| Program | `main.rs` | options | `layout_graph` | the order of the phases | partly |

The phases interact only through the graph: one after the other, each to its
end. `parse()` returns a graph or an error, the analysis too, the layout phases
return or panic. The hazards, one by one with their lines, are listed in
`PROJECT.json`.

At this commit `pe_bpmn/analysis.rs` does not compile: a sentence of English
stands where `compute_accessible_data()` would go on, and some calls lack the
argument `analysis_state`. `PeBpmnAnalysis` models the functions that are
complete, with that state passed along.

## The modules

| Module | What it is |
|---|---|
| `BpmdParser` | the parser as a state machine over statements |
| `BpmdParserProofs`, `BpmdParserFlowProofs` | its theorems: what stays in a pool, then labels, flows and data |
| `BpmnGraph` | the graph of the layout phases as a value, with the operations of `common/` |
| `BpmnGraphProofs` | lemmas about these operations |
| `LayerAssignment` | layers, data nodes, dummies, sorted lanes |
| `LayerAssignmentProofs` | its theorems |
| `CrossingMinimization` | the crossing phase; extends `LayerAssignment`, whose steps come first |
| `CrossingMinimizationProofs`, `CrossingOutcomeProofs` | its theorems: the columns and the effects of a rerouting, then what the undo gives back, lone data and panics |
| `ColumnWalks` | the iterators over columns, lanes and pools |
| `PortAssignment` | ports, bends and vertical parts; composes with `CrossingMinimization` |
| `DrawnFlows` | abstract: flows stay what they are and are drawn once |
| `FlowDrawing` | every phase after the coordinates, up to the output; composes with `PortAssignment` and implements `DrawnFlows` |
| `EdgeRouting` | the order and the places of the segments in one space between layers |
| `PeBpmnAnalysis` | transported data, and the analysis of protections |
| `PeBpmnProofs` | its theorems |
| `InductionLemmas` | induction over numbers, and what it says of recursive functions, sums and growing sets |
| `LayoutFiles` | graphs that the parser produces for small files |
| `MCBpmdParser`, `MCLayout`, `MCCrossing`, `MCPorts`, `MCDrawing`, `MCRouting`, `MCPeBpmn` | the instances of the runs |

`FlowDrawing`, through its instances, runs the whole of `layout_graph()`: layers,
dummies, crossings, ports, drawing. Each layout module has its own runs, so that a
failure is met in the phase that is to blame.

### BpmdParser

One step reads one statement; there is no input tape, every statement kind in
`Statements` may come next, so a behaviour is a file and TLC enumerates files.

| Model | Code |
|---|---|
| `pools`, `nodes`, `edges`, `elements` | `Parser::graph`; a pool keeps whether it is anonymous and how many lanes it has |
| `grouping` | `GroupingState`: which pool and lane the next node goes to |
| `lifeline` | `LifelineState`: the node from which the next line continues, 0 if none |
| `danglingEnd`, `danglingStart` | `dangling_sequence_flows`, by pool and label |
| `pending`, `key`, `cursor` | the nested loops at the end of `parse()`; the order of the hash maps is left open |
| `Parse...` | the handlers `parse_pool` ... `parse_data`, each with its early returns as `Reject` |
| `EndOfFile`, `NextKey`, `ConnectPair`, `Finish` | the end of `parse()`: labels, `process_shorthand_blank_events`, `validate_invariants` |

An error drops the parser, and with it the graph; `Reject` clears the state. A
reference in a message flow or a data statement may find any node, as the
fuzzy matcher may. Texts, colours, task types and explicit event types are left out.

### The layout: BpmnGraph to FlowDrawing

A graph is a record of nodes, edges, lanes and the number of layers; a node
keeps place, layer, its neighbours in its column, and its two edge lists; an
edge keeps its ends, kind, direction and what it stands for. `phase` and `at`
are the program counter: which loop runs, and at which element.

| Model | Code |
|---|---|
| `SolveLayers` | `solve_layers()`: some optimum of the integer program, or its `unwrap()` |
| `PlaceDataNode` | one iteration of `solve_data_object_layers_via_arithmetic_mean()` with all its reversals |
| `SplitEdge` | one iteration of `generate_dummy_nodes()` |
| `SortLanes` | `sort_lanes_by_layer()` |
| `Reroute` | one iteration of `temporarily_add_dummy_nodes_for_edges_within_same_layer()` |
| `OrderLayer` | one layer of the solution, written to the nodes |
| `PlaceLoneData` | one iteration of `process_data_nodes_which_should_become_immediate_neighbors()` |
| `Undo` | one iteration of the undo loop; then the temporary nodes leave |
| `SortEdges` | one iteration of `sort_incoming_and_outgoing()` |
| `HandleNonGateways`, `HandleGateways` | one iteration of the two loops of `port_assignment()` |
| `Draw` and its steps | the functions of `layout_graph()` after the coordinates, edge routing layer by layer, the replacement edge by edge, then the output |
| `Panic` | an assertion, an `unwrap()` or an index out of range |
| phase `hang` | a loop of the port handlers that never ends |

Three things are abstracted. The solver may return any optimum of the layer
program, whose objective and constraints are those of the code. Of the crossing
program the objective is left out: any order of each layer may be its answer,
which includes all the optimal ones; the assertions made while its objective is
built are kept (`VariableMissing`, `SharedRemote`). And there are no coordinates:
a port is a side and a place on it, a bend point is a port or an end of a
segment, and whether two ends are level or the way between them is free is open.

In `FlowDrawing`, `points` are the bend points of the edges, `segments` what
has not been routed, and `store` the `MessageFlowBendPointStore`. A segment
belongs to the space before a layer, or between two pools; the places in it do
not matter there.

### EdgeRouting

This module is about those places: one call of `determine_segment_layers()` for
one space. `Sort` gives the rough order, with its pairs of edges that swap;
`Scan` builds the graph of neighbours; `LayOutPath` places one path, its runs of
segments without a place being squeezed between those that have one. A segment is
its two heights and its kind; places are integers, as in the code.

### PeBpmnAnalysis

`Transport` is `create_transported_data()`. Then each statement is checked
(`CheckStatement`) and its paths are followed: `StartCall` is a call of
`check_protection_paths()`, `StartPath` begins with one first flow and data element,
`Traverse` is one call of the recursive `protection_channel()`, with the calls
still to come on a stack, and `EndPath` is the check that an end was reached. The
flows and data elements of a call are a set of jobs, taken in the order of the
file (`Current`); what a path goes on with at a node depends on how it came
(`Directions`).
Lanes are analysed as pools are. A statement's nodes are in one of its four lists
only, as the parser demands.

## The runs

Parser. The bounds are chosen so that each question meets its interesting
cases: five statements are enough for a fork, a jump and a landing beyond it, for
two pools with one label used in both, or for a boundary event after a data statement
or after a message to its task; seven for a data node between lanes,
or for a message between two complete pools.

| Run | What it asks | Bounds |
|---|---|---|
| `parser_flows` | the inductive invariant `ParserInv`; nothing but an end event ends a flow, and nothing leaves one; every jump is connected to every landing; a boundary event is attached to the task read last, past data statements and message flows | 5 statements of all kinds, 1 label, 2 pools with lanes, 2 arms, 1 data node |
| `parser_data` | types; rounding of lanes; continuations of data elements; flows respect pools | 7 statements, 2 pools, 2 data nodes, 2 recipients |

Layout. These runs start from files in `LayoutFiles`: skeletons with their text
in a comment, some over two or three lanes, with data statements. Two recipients
give every way in which two data flows can meet in a node: both directions, same
node or another, same layer, half a layer, several layers, other lane.

| Run | What it asks | Files |
|---|---|---|
| `layers` | the inductive invariant `LayersInv`; lists mirror edges and lanes are sorted; panics are circles; no edge points left, half layers included; long edges become chains that cross lanes half-way and keep their boundary event | lines and diamonds with up to two data statements, circles, two pools |
| `crossings` | the inductive invariant `OutcomeInv`, of which `CrossingInv` is a part; the undo loses edges exactly when they are entangled; panics are circles, shared remotes or entangled edges; columns are linked lists; lone data stays beside its neighbour | lines, forks and pools with data; two messages to one event |
| `ports` | a bent edge is still a chain; lists and columns stay whole; ports of a node go round in the order of its edges; a bend is on the way, and messages bend at their sender only; assertions fail on known files only, and every walk ends | gateways with branches in all combinations of three lanes, boundary events over other nodes, messages, also to a task entered from above, data |
| `drawing` | refinement of `DrawnFlows`; lines start and end where their flow does and take the turns of all their parts; message flows turn in order; the graph is the parsed one again; the output keeps the flows; panics are known | long edges, gateways, boundary events, messages both ways, also to a task entered from above, data read and written |

| Run | What it asks | Instances |
|---|---|---|
| `routing` | places follow the order where segments overlap; edges cross only when they must; a swapping pair crosses in one diagonal; subtractions fail only in narrow spaces | all sets of up to three segments of any kind at four heights; of up to five edges at five heights, in a wide and in a narrow space |
| `pe_bpmn` | the inductive invariant `AnalysisInv`; protected paths have all flows that they must have and none that they cannot, and their nodes are protected; acceptance, rejection and panics are right; the traversal ends | three tasks in two pools that use two icons in every way, two orders of flows, ten sets of statements |

Three segments are enough for a run between two placed neighbours, four or five for a path
that shares segments with two earlier ones. Three tasks and two free icons give
paths of up to seven flows, with circles, through a message, and met from both sides.
The `routing` run meets single pairs that swap only, which is what `SwapsCross` speaks of.
`LinesFollowFlows` leaves out flows that were turned around twice (see below).

A message that ends at a bend is finished like one that starts at a bend (`RealEnd`,
`RealStart`), but no file has one. A message bends at a node if, seen from the side of the
node, it is at or beyond a message that has to turn and before a flow that is pinned to the top or the
bottom: the flow of a boundary event, or one that must go vertical (`Partition`). At a
receiver there are no boundary events, and `sort_incoming_and_outgoing()` puts flows that must
go vertical, from the same layer or from the nearest pool, further from the side than the messages that
have to turn, which stay at the side. `BendsAreOnTheWay` states this. It fails if flows
from the same layer are sorted last; the drawing then meets messages that end at bends,
and `LinesFollowFlows` holds with `RealEnd` and fails without it.

### The refinement

`Drawing == INSTANCE DrawnFlows WITH ...` in `FlowDrawing` maps `flows` to what
the first edges of the graph join (for an edge that is rerouted at the moment, to
what it joined before), `drawn` to the edges that are regular and have bend points,
and `state` to the phase. `EveryFlowIsDrawn` says that all of `layout_graph()`, from
layers to output, implements it: no phase changes what a flow joins, no
flow is drawn twice or loses its line, and only a flow of data may be left
without one.

### Where code and repository disagree

Each of these runs checks one property, which the code violates; the quotes
are in `PROJECT.json`.

| Run | What happens |
|---|---|
| `crossing_undo` | An activity right of the first layer that reads and writes one data object has two edges within its layer. They are undone in the order in which they were made, but from stacks: the second undo pops the edge that the first restored. A list then names an edge that does not exist and sorting it panics, or the edge is lost. |
| `port_gateways` | A gateway whose branches all lie in the next lane: the walk upwards is given a last lane below its first, and an assertion ends the process. |
| `drawing_output` | A data node that a late event writes and an early one reads: its flows are turned around to point right, nothing turns them back, and they are in the output with source and target exchanged. |
| `routing_overlaps` | A path that is laid out between the left border and a neighbour is moved too far to the right, because the centre of the last group is taken for its start; a segment then gets the place of the one it overlaps. |

Other deviations were met while modelling. Those of the parser, the ports, the
routing and the analysis that the models keep as they are:

- A pool statement after nodes of the anonymous pool is accepted, against the
  invariant stated in `common/pool.rs:12`.
- `. done` that sends a message becomes an intermediate event, and `# again <-l`
  outside a lifeline is a start event with an incoming flow. Labels give a task several
  incoming or outgoing flows, which port assignment assumes away (`PanicsAreKnown` and
  `FailuresAreKnown` hold nevertheless).
- Two nodes in one column that send to the same node, say two branches of a fork,
  fail `assert_ne!(this_to.id, other_to.id)`: `SharedRemote` in `PanicsAreKnown`.
- Circles of sequence flows leave the layer program without a solution;
  `eliminate_back_edges()` exists but is not called.
- What blocks an edge below is asked for only if nothing at all is above
  (`MustGoVertical`), so a flow may be vertical at one end only.
- Pairs of edges that swap are looked for in lists sorted by one key and compared by
  another, so some pairs are missed; and with several pairs both edges get the
  same number although the comment speaks of the next one. `SwapsCross` is
  stated for a single pair.
- A data flow between two data nodes that both turn around has its old direction
  but counts as reversed (`TurnedTwice`). Such flows are not written to the output.
- The answers of `verify_pebpmn_pool()`, `..._lane()` and `..._tasks()` are
  dropped, so a protecting node inside of the protected pool is accepted. Data
  nodes, hidden nodes and missing ends, which nobody else checks, then meet
  assertions of the analysis: these are the three panics of `AnswersAreRight`.
- `protection_channel()` notes a node as visited whichever way it was entered.
  A node that was entered forwards first is not left backwards later, so
  whether what it receives counts as protected depends on the order of the flows
  in the file: the lower and the upper bound in `PathsAreProtected` differ.

### Deadlock and fairness

Deadlock is checked everywhere; the steps `Terminated` stand for a function
that has returned. `WF_vars(Next)` says that a function that can go on does:
the program is sequential and nothing in it waits. Only `AnalysisEnds` needs it:
`protection_channel()` calls itself along flows that lead in circles, from tasks to icons
and back, and comes back only because a node is entered once. The loops of the parser and of the layout
run over lists and index ranges that are fixed when they start; that they end needs no property. The walks inside of one step
might not: they are bounded by the number of nodes, and a longer one is phase
`hang`, which `FailuresAreKnown` excludes.

## The proofs

Eight modules hold proofs; the theorems are true for every value of the
constants under the assumptions below.

| Module | Theorem | Statement |
|---|---|---|
| `BpmdParserProofs` | `PoolInvariant` | `Spec => []PoolInv` |
| | `TypeCorrect` | `Spec => []TypeOK` |
| | `FlowsStayInPools` | `Spec => []FlowsRespectPools` |
| | `PoolCheckIsDead` | `Spec => []NoFlowAcrossPools` |
| `BpmdParserFlowProofs` | `ParserInvariant` | `Spec => []ParserInv` |
| | `NoDeadEnds` | `Spec => []NoDeadEnd` |
| | `AllJumpsReachLandings` | `Spec => []JumpsReachLandings` |
| | `BoundaryEventsAttached` | `Spec => BoundaryEventsOnLastTask` |
| | `ContinuationsAdjacent` | `Spec => []ContinuationsAreAdjacent` |
| | `DataNodesBetweenRecipients` | `Spec => []DataBetweenRecipients` |
| `PeBpmnProofs` | `AnalysisInvariant` | `Spec => []AnalysisInv` |
| | `PathsProtected` | `Spec => []PathsAreProtected` |
| | `AnswersRight` | `Spec => []AnswersAreRight` |
| `LayerAssignmentProofs` | `LayersInvariant` | `Spec => []LayersInv` |
| | `ListsAlwaysMirrorGraph` | `Spec => []ListsMirrorGraph` |
| | `OnlyCyclesPanic` | `Spec => []PanicsOnCycles` |
| | `EdgesAlwaysPointRight` | `Spec => []EdgesPointRight` |
| | `LongEdgesBecomeChains` | `Spec => []LongEdgesAreChains` |
| `CrossingMinimizationProofs` | `CrossingInvariant` | `CrossingSpec => []CrossingInv` |
| | `ColumnsAlwaysLinked` | `CrossingSpec => []ColumnsAreLinkedLists` |
| `CrossingOutcomeProofs` | `OutcomeInvariant` | `CrossingSpec => []OutcomeInv` |
| | `OnlyEntangledAreLost` | `CrossingSpec => []OnlyEntangledEdgesAreLost` |
| | `LoneDataStaysBeside` | `CrossingSpec => []LoneDataBesideNeighbour` |
| | `PanicsKnown` | `CrossingSpec => []PanicsAreKnown` |

`InductionLemmas` and `BpmnGraphProofs` hold lemmas only.

### Assumptions

`BpmdParser` assumes that its bounds are numbers and that `NoKey` is no key.

`DiagramsAreWellFormed` (`PeBpmnAnalysis`) and `FilesAreParsed`
(`LayerAssignment`) describe what the parser hands over; TLC checks them of the
files of the runs. Edges have ends. Gateways have sequence flows only:
`validate_invariants()` accepts message flows at events and activities only,
and `parse_data()` takes no gateway. Sequence flows join flow nodes: they are drawn from
the lifeline, which `connect_nodes()` sets to flow nodes only and data statements leave
alone, or between nodes with labels, and data nodes have none (`parser.rs:163-262`). Message flows cross pools
(`parser.rs:660`); data flows join a data node to a node that was looked up before the
data node was added (`parser.rs:718-790`), so never to itself; like sequence flows, they stay within a
pool (`FlowsStayInPools`). A node is in a lane that
exists. Nothing is assumed of how often nodes are joined, of circles or of lanes.

### The parser

`FlowsRespectPools` is not inductive. A sequence flow is drawn from the
lifeline to a new node, so the lifeline's node must be in the pool of the
grouping (`LifelineInv`), and that pool must exist and must not change while
a lifeline is active (`GroupingInv`). A flow of a label is drawn between two nodes that
were put aside, so both must be in the pool of their key (`DanglingInPool`),
and while pairs are connected the cursor must point into both lists
(`CursorInv`). Together with types, `EdgesJoinNodes` and the two results this
is `PoolInv`.

`ParserInv` adds a part for each promise about whole files. `BoundaryInv`:
what follows the lifeline's node is data only, so the host of a boundary event is the task
read last; a boundary event's jump that is put aside, or drawn, leaves a task.
`BoundaryEventsOnLastTask` is an action property: a step lemma (`EffectAttaches`) shows it
of every effect. `ConnectingInv`: of the keys that
are not pending every pair is joined, and of the key in hand every pair before the
cursor. `ChainInv`: a node that must be left is left, or is the end of the
lifeline, or waits with a jump; a node that must be reached is, or waits
with a landing; so when every label is connected no node is a dead end. `ElementsInv`:
elements are numbered in the order of their statements. One lemma per handler
states its effect (what is new, what stays); one lemma per part shows that the
effects keep it. A rejection drops everything, so each part holds then.

### Data with recursion

Folds over lists and walks along flows are recursive functions in the models.
That such a function is defined is not a library fact: `f[i] == ... f[i - 1] ...` is a
`CHOOSE`, and it must be shown that there is something to choose.
`InductionLemmas` proves, from the least element of a set of numbers, that a function
unfolds on `0..n` if each stage maps values of its stage to values of the next
(`Stages`, `StagesUnfold`), that what each stage keeps holds at the end (`StagesHold`),
that sums lie between their bounds, and that a set that only
grows inside of a finite set stops growing (`GrowthEnds`).

### The layers

`LayersInv` is needed as a whole, because a phase relies on what an
earlier one left:

- `GraphInv`: edges have ends, lists mirror edges, lanes are complete. Every step
  works through the lists, so nothing else is provable without it.
- `FlowsInv`: until edges are split they are those of the file, and message flows are the
  ones that leave their pool.
- `UnplacedInv`: a data node that has not been placed is in layer 0. A flow to it
  that was turned is turned again when its turn comes.
- `PlacedInv`: which edges may point left while data nodes are placed. A node's
  edges are turned around when it is placed, and those between two placed nodes are never
  disturbed again; a flow from a flow node to a data node still in layer 0 may point left.
- `EdgesPointRight` afterwards; with it the subtraction in
  `generate_dummy_nodes()` cannot fail.
- `CyclesInv`: the solver has found layers, so no set of nodes exists in which
  each has a sequence flow from another; the least layer of such a set would
  be above another.
- `SplitInv`: edges before `at` are short or chains, and so are all dummies; those
  from `at` on are regular. The chain is built by a recursion, whose `i`-th value
  (`GrowChain`) has the first `i` dummies and edges.

The mean of a node's neighbours matters in one way only: whatever layer it gives,
the turning that follows makes the edges right. Sorting is an insertion sort
whose `i`-th list is sorted and has the counts of the first `i` nodes
(`PartlySorted`).

### The crossings

`ColumnsAreLinkedLists` is about the graph after the undo. The links of a column are
written by three loops, none of which ever looks at a whole column, so its
invariant `CrossingInv` says what is linked at any moment:

- `StartInv`: while the layers are assigned it is `LayersInv`, whose theorem covers
  these steps, and no link has been set.
- `KeptInv`: the nodes of the parser and of the dummies are in layers of the program, and what
  comes after them is temporary. A rerouted edge of the last layer has its temporary node
  beyond the program: that one is never ordered, and truncated later.
- `ReroutingInv`: edges that the rerouting has not come to are as they were, so the end
  that it looks up in `incoming` lists them.
- `WholeInv`: lists mirror edges and lanes are complete until the undo begins, and a data
  node with a single edge is in the column of its other end, which has a smaller number.
  The latter is why two data nodes are never each other's only neighbours, so the
  insertion finds its neighbour linked already.
- `LinksInv`: the nodes that have got their neighbours (`LinkedNodes`) are, column by column, one
  list, and all others have no links. In the phase `order` these are the layers before `at`
  without lone data; in `lone` they are joined by the data nodes before `at`.

That a column is a list is stated by a numbering of its nodes (`IsLinkedList`). Each
operation has a lemma that gives the new numbering: an order numbers the nodes of
a lane (`Linked`), an insertion shifts what is below (`Inserted`), and a temporary node that
leaves closes the gap (`Unlinked`). The nodes of a column are in one lane, so the branch
of the code that does not join the neighbours is never taken.

`OnlyEntangledEdgesAreLost` says exactly when the undo works. Its invariant `UndoInv`
describes the graph by what is saved and by the set `U` of saved edges that are
undone (`Fits`; none while edges are rerouted, those before `at` during the undo):

- `SavedFit`: the saved edges ran within a layer and are in the order of the program.
- `EdgesFit`: one edge was added for each, two more right of layer 0, and only
  edges that stand rerouted differ from what they were.
- `ListsFit`: a node has one more outgoing edge for each standing edge that leads to it, at
  the end of its list. If no edges are entangled, what is in `incoming` is the edges
  of before, without the standing ones that lead there, and on top of them the temporary
  ones (`OnTop`), so that popping takes away a temporary edge. With entangled edges
  nothing is said: what is popped may be anything.
- `LostFits`: a standing edge is not listed at its end; one that is undone is the last of
  the list, once, until a later edge with that end is undone, which pops it for good.

Truncation then gives `FinallyFits`, which sorting keeps: without entangled edges lists
have the counts of before; with them, the first of two entangled edges is no longer
listed (`LostFits`), although the graph of before listed it (`Mirrored`). Hence both
directions of the equivalence.

`LoneDataBesideNeighbour` speaks of ranks, which are counted from the top of a
column, and of everything between two nodes. Its invariant `LoneDataInv` speaks of one
link: what is next to a lone data node, on the side of its neighbour, is that
neighbour or data that was put on the same side of it (`IsBesideAlike`). An
insertion keeps it: it comes between the neighbour and what was next to it; if that is
lone data, it is of the same kind, or has its own neighbour on its other side. The lists of lone data
are not touched by a rerouting (`LoneListsKept`, no saved edge has a lone end), so the
neighbour is the same one to the end, and a temporary node that leaves was between
two other nodes. From single links to ranks goes an induction over their
difference (`RowBelow`, `RowAbove`): a row of nodes each of which hangs on the one
before or on the neighbour is all there is in between. `Rank` is recursive over the links, which
is well-founded because the columns are lists (`RanksExist`).

`PanicsAreKnown` says that three kinds of files are all that fail. Its invariant
`ShortInv` says of the edges what the integer program and the sort keys take for
granted: before the rerouting an edge of a pool is over at most one layer (`IsShort`,
from `LongEdgesAreChains`), and only message flows leave their pool (`KnownFlows`,
from `FlowsInv`); an edge that the rerouting has come to is over exactly one layer, is
a message flow as it was, or has a lone data node at its end (`IsSettled`). Then, one panic
after the other:

- The integer program misses a variable only for edges over different numbers of
  layers: all it takes are over one. Message flows are as they were before, so two
  neighbours with one remote end had it then (`ProgramPanics`).
- The two assertions of an insertion ask whether the spot's nodes name each other: they
  are next to each other in a list (`LoneDataCanBePlaced`).
- A sort key is missing for an edge that does not exist or goes nowhere known. Without
  entangled edges the lists hold the edges of before (`FinallyFits`), whose ends are
  in different pools, or in layers next to each other, or in one layer, where
  their lanes or ranks differ (`OneIsAbove`, `KeyIsKnown`, `SortPanics`).

### The analysis

`AnswersAreRight` compares the traversal, with its stack and its set of visited
nodes, to two sets of steps that are defined without them: `MaySteps`, along which
data may have come or gone, and `SureSteps`, the turns that do not depend on how a node
was entered first. `StepsClosed` and `StepsLeast` show that each is the least set
that has the first flow and is closed under going on, since growing stops
(`GrowthEnds`) before the bound of the recursion. `ReachableInv` says that what is
visited or on the stack is in `MaySteps`. `FollowedInv` says that nothing is
forgotten: all flows by which a visited node is left are visited or on the
stack (`LeftFrom`); when the stack is empty the visited flows are closed, so they contain
`SureSteps`. `ProtectedInv` and `AnsweredInv` carry what was protected and answered
through the loops over calls, flows and statements.

### What is only model-checked

Liveness (`AnalysisEnds`) is out of the prover's reach. The ports, the drawing
with its refinement of `DrawnFlows`, and edge routing are checked on the instances of
their runs only: they fold with `FoldLeft`, filter with `SelectSeq` and sort with
`SetToSortSeq`, which the prover does not expand, and have to be put into the form of
the modules above first. Everything else that a passing run checks is proved.

## Not modelled

The lexer's characters and escapes, the scores of the fuzzy matcher, texts, colours
and the XML text are data that no property is about; the lexer keeps no state
that outlives a statement but the last statement itself, which `BpmdParser` models
for continuations. Coordinates are the optimum of linear programs over reals,
computed from sizes of texts; half layers move nodes within them. The precision
of the solver's floating-point answers, which the code truncates or compares
with `== 1.0`, is the library's. The visibility table and the functions that
collect what it shows are unfinished in the source. `eliminate_back_edges.rs`
and `testlayout.rs` are not called.

## Plan

1. `EdgeRouting`: the places of a run lie between its neighbours. They lie strictly
   between them only if the run has fewer segments than `SegSpace`: a longer one is
   squeezed onto the border, which the run's five segments do not show.
2. The refinement of `DrawnFlows`, one phase after the other.
3. `HalfLayers` on a small grid, if coordinates are added.
