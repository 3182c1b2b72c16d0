---------------------------- MODULE PeBpmnAnalysis ----------------------------
(***************************************************************************)
(* What PE-BPMN statements protect.  Secure channels, trusted environments *)
(* (tee) and multi-party computations (mpc) name the nodes that put data   *)
(* under protection and the nodes that take it off again.  analyse() finds *)
(* out along which data and message flows protected data moves, for one    *)
(* statement, one first flow and one data element at a time, and rejects a *)
(* diagram in which it never arrives.                                      *)
(*                                                                         *)
(* The traversal is the recursion of protection_channel() with its stack.  *)
(* Edges keep the order of the file, which decides what is visited first.  *)
(***************************************************************************)
EXTENDS Integers, FiniteSets, SequencesExt

\* Diagrams with their statements.  A node has a kind and the data element
\* that it is an icon of or 0; an edge has a flow and ends.
CONSTANT Diagrams

(* What the parsers of BPMD and of PE-BPMN make sure of: edges and          *)
(* statements name nodes of the diagram, 0 stands for no sender or no       *)
(* receiver, and only sequence flows come to a gateway.                     *)
ChannelsOf(d) ==
    [type : {"channel"}, sender : 0..Len(d.nodes), receiver : 0..Len(d.nodes),
     permitted : SUBSET Nat]

ComputationsOf(d) ==
    [type : {"pool", "tasks"}, tasks : Seq(DOMAIN d.nodes),
     inProtect : Seq(DOMAIN d.nodes), inUnprotect : Seq(DOMAIN d.nodes),
     outProtect : Seq(DOMAIN d.nodes), outUnprotect : Seq(DOMAIN d.nodes),
     without : SUBSET Nat]

WellFormed(d) ==
    /\ d.nodes \in Seq([kind : {"Event", "Gateway", "Task", "Data"}, element : Nat])
    /\ d.edges \in Seq([from : DOMAIN d.nodes, to : DOMAIN d.nodes,
                        flow : {"sequence", "message", "data"}, element : Nat])
    /\ \A e \in DOMAIN d.edges :
          "Gateway" \in {d.nodes[d.edges[e].from].kind, d.nodes[d.edges[e].to].kind}
              => d.edges[e].flow = "sequence"
    /\ d.statements \in Seq(ChannelsOf(d) \union ComputationsOf(d))

ASSUME DiagramsAreWellFormed == \A d \in Diagrams : WellFormed(d)

VARIABLES
    phase,     \* what is next, or the answer: done, rejected or a panic
    diagram,
    carried,   \* transported_data of edges
    passed,    \* transported_data of nodes
    at,        \* the statement that is analysed
    calls,     \* the nodes whose paths are still to be checked
    jobs,      \* the first flows of one of them, with data elements, to follow
    stack,     \* the calls of protection_channel() that are still to come
    visited, edgesVisited,
    protected, \* what each statement protects: nodes, flows, data in messages
    paths      \* protection_paths_graphs: the sets of edges of each statement

vars == <<phase, diagram, carried, passed, at, calls, jobs, stack, visited, edgesVisited,
          protected, paths>>

Nodes == DOMAIN diagram.nodes
Edges == DOMAIN diagram.edges
Statements == DOMAIN diagram.statements

Init ==
    /\ diagram \in Diagrams
    /\ phase = "transport" /\ carried = <<>> /\ passed = <<>>
    /\ at = 1 /\ calls = <<>> /\ jobs = {} /\ stack = <<>> /\ visited = {} /\ edgesVisited = {}
    /\ protected = [s \in Statements |-> {}]
    /\ paths = [s \in Statements |-> {}]

IsData(n) == diagram.nodes[n].kind = "Data"

Incoming(n) == {e \in Edges : diagram.edges[e].to = n}
Outgoing(n) == {e \in Edges : diagram.edges[e].from = n}
Flows(n, reverse) == IF reverse THEN Incoming(n) ELSE Outgoing(n)

-----------------------------------------------------------------------------
(* create_transported_data() *)

Elements(N) == {diagram.nodes[n].element : n \in N} \ {0}

(* Mutant: a message carries what its sender or its receiver has. *)
MessageDataOfEither(e) ==
    Elements({diagram.edges[d].from : d \in Incoming(diagram.edges[e].from)})
    \union Elements({diagram.edges[d].to : d \in Outgoing(diagram.edges[e].to)})

(* A message carries what its sender reads and its receiver writes. *)
MessageData(e) ==
    Elements({diagram.edges[d].from : d \in {d \in Incoming(diagram.edges[e].from) :
                                                diagram.edges[d].flow = "data"}})
    \intersect
    Elements({diagram.edges[d].to : d \in {d \in Outgoing(diagram.edges[e].to) :
                                              diagram.edges[d].flow = "data"}})

(* A data flow was given the element of its statement by the parser. *)
Carried ==
    [e \in Edges |-> CASE diagram.edges[e].flow = "data" -> {diagram.edges[e].element}
                       [] diagram.edges[e].flow = "message" -> MessageData(e)
                       [] OTHER -> {}]

CarriedBy(S, data) == UNION {data[e] : e \in S}

(* What passes through a node comes and goes on flows. *)
Passed(data) ==
    [n \in Nodes |-> IF diagram.nodes[n].kind = "Gateway" THEN {}
                     ELSE CarriedBy(Incoming(n), data) \intersect CarriedBy(Outgoing(n), data)]

Transport ==
    /\ phase = "transport"
    /\ carried' = Carried
    /\ passed' = Passed(Carried)
    /\ phase' = "statement"
    /\ UNCHANGED <<diagram, at, calls, jobs, stack, visited, edgesVisited, protected, paths>>

-----------------------------------------------------------------------------
(* The statements *)

Statement == diagram.statements[at]

(* The filters of both kinds of statements. *)
Considered(s, c) ==
    IF s.type = "channel" THEN s.permitted = {} \/ c \in s.permitted ELSE c \notin s.without

Considering(s, e) == {c \in carried[e] : Considered(s, c)}

(* tee-tasks and mpc-tasks hide what their tasks do, from parsing on. *)
Hidden(n) ==
    \E i \in Statements : diagram.statements[i].type = "tasks"
                          /\ n \in ToSet(diagram.statements[i].tasks)

(* What must hold of the nodes of a statement, in the order it is looked at. *)
Check(n, reverse) == [node |-> n, reverse |-> reverse]
Known(n, reverse) == IF n = 0 THEN <<>> ELSE <<Check(n, reverse)>>
ForEach(nodes, reverse) == [i \in DOMAIN nodes |-> Check(nodes[i], reverse)]

ChannelChecks(s) == Known(s.sender, FALSE) \o Known(s.receiver, TRUE)
ComputationChecks(s) ==
    ForEach(s.inProtect \o s.outProtect, FALSE) \o ForEach(s.inUnprotect \o s.outUnprotect, TRUE)

ChecksOf(s) == IF s.type = "channel" THEN ChannelChecks(s) ELSE ComputationChecks(s)

(* What a channel permits explicitly goes through its sender and receiver.  *)
Misses(s, check) == s.type = "channel" /\ ~(s.permitted \subseteq passed[check.node])

(* check_that_protection_is_visually_applied(): so does all that they       *)
(* protect or unprotect.                                                    *)
Detached(s, check) ==
    \E e \in Flows(check.node, check.reverse) : ~(Considering(s, e) \subseteq passed[check.node])

(* The calls of check_protection_paths(), in their order. *)
Call(start, reverse, ends, enforce) ==
    [start |-> start, reverse |-> reverse, ends |-> ends, enforce |-> enforce]

ChannelCalls(s) ==
    IF s.sender # 0 THEN <<Call(s.sender, FALSE, {s.receiver} \ {0}, s.receiver # 0)>>
    ELSE <<Call(s.receiver, TRUE, {s.receiver}, FALSE)>>

PoolCalls(s) ==
    LET fromEach(nodes, ends) == [i \in DOMAIN nodes |-> Call(nodes[i], FALSE, ToSet(ends), TRUE)]
    IN fromEach(s.inProtect, s.inUnprotect) \o fromEach(s.outProtect, s.outUnprotect)

TaskCalls(s) ==
    [i \in 1..(2 * Len(s.tasks)) |->
        LET task == s.tasks[(i + 1) \div 2]
        IN IF i % 2 = 1 THEN Call(task, FALSE, ToSet(s.outUnprotect), TRUE)
                        ELSE Call(task, TRUE, ToSet(s.inProtect), TRUE)]

CallsOf(s) ==
    CASE s.type = "channel" -> ChannelCalls(s)
      [] s.type = "pool" -> PoolCalls(s)
      [] s.type = "tasks" -> TaskCalls(s)

(* A channel that begins before and ends after the diagram protects its     *)
(* data wherever they are.                                                  *)
IsOpen(s) == s.type = "channel" /\ s.sender = 0 /\ s.receiver = 0

Everywhere(s) ==
    LET icons == {n \in Nodes : diagram.nodes[n].element \in s.permitted}
        messages == {e \in Edges : diagram.edges[e].flow = "message"}
    IN {<<"node", n>> : n \in icons}
       \union {<<"flow", e>> : e \in {e \in Edges : diagram.edges[e].from \in icons
                                                  \/ diagram.edges[e].to \in icons}}
       \union {<<"flow", e>> : e \in {e \in messages : carried[e] \intersect s.permitted # {}}}

Protect(new) == protected' = [protected EXCEPT ![at] = @ \union new]

ProtectEverywhere ==
    /\ phase = "statement" /\ at \in Statements
    /\ IsOpen(Statement)
    /\ Protect(Everywhere(Statement))
    /\ at' = at + 1
    /\ UNCHANGED <<phase, diagram, carried, passed, calls, jobs, stack, visited, edgesVisited, paths>>

CheckStatement ==
    /\ phase = "statement" /\ at \in Statements
    /\ ~IsOpen(Statement)
    /\ LET s == Statement
           checks == ChecksOf(s)
           fails(check) == Misses(s, check) \/ Hidden(check.node) \/ Detached(s, check)
           failing == {i \in DOMAIN checks : fails(checks[i])}
       IN IF failing # {}
          THEN LET check == checks[Min(failing)]
               IN /\ phase' = IF ~Misses(s, check) /\ Hidden(check.node)
                              THEN "panic" ELSE "rejected"
                  /\ UNCHANGED calls
          ELSE phase' = "call" /\ calls' = CallsOf(s)
    /\ UNCHANGED <<diagram, carried, passed, at, jobs, stack, visited, edgesVisited, protected, paths>>

-----------------------------------------------------------------------------
(* check_protection_paths() *)

JobsOf(s, call) ==
    {job \in [edge : Flows(call.start, call.reverse), element : UNION {carried[e] : e \in Edges}] :
        job.element \in Considering(s, job.edge)}

(* The flows in the order of the file, and for each its data elements in    *)
(* order.                                                                   *)
NotAfter(job, other) ==
    job.edge < other.edge \/ (job.edge = other.edge /\ job.element <= other.element)

Current == CHOOSE job \in jobs : \A other \in jobs : NotAfter(job, other)

StartCall ==
    /\ phase = "call" /\ calls # <<>>
    /\ LET call == Head(calls)
           ends == {call.start} \union call.ends
       IN IF \E n \in ends : IsData(n)
          THEN phase' = "panic" /\ UNCHANGED <<jobs, protected>>
          ELSE /\ Protect({<<"node", n>> : n \in ends})
               /\ jobs' = JobsOf(Statement, call)
               /\ phase' = "job"
    /\ UNCHANGED <<diagram, carried, passed, at, calls, stack, visited, edgesVisited, paths>>

StartPath ==
    /\ phase = "job" /\ jobs # {}
    /\ Protect({<<"flow", Current.edge>>})
    /\ visited' = {Head(calls).start} /\ edgesVisited' = {}
    /\ stack' = <<[edge |-> Current.edge, reverse |-> Head(calls).reverse]>>
    /\ phase' = "path"
    /\ UNCHANGED <<diagram, carried, passed, at, calls, jobs, paths>>

Target(t) == IF t.reverse THEN diagram.edges[t.edge].from ELSE diagram.edges[t.edge].to

(* Mutant: from a data node one only goes on to its readers. *)
DirectionsForward(n, reverse) ==
    IF IsData(n) THEN {FALSE}
    ELSE IF ~reverse THEN {FALSE}
    ELSE IF Current.element \in passed[n] THEN BOOLEAN ELSE {}

(* What a path goes on with: all writers and readers of a data node; what a *)
(* node sends; what a node that passes the data on receives and sends.      *)
Directions(n, reverse) ==
    IF IsData(n) THEN BOOLEAN
    ELSE IF ~reverse THEN {FALSE}
    ELSE IF Current.element \in passed[n] THEN BOOLEAN ELSE {}

(* Mutant: an end is recognised before the node is noted as visited. *)
VisitedBeforeEnd(n) == IF n \in Head(calls).ends THEN visited ELSE visited \union {n}

(* Mutant: the visited nodes are asked for, but nothing is noted. *)
VisitedUnchanged(n) == visited

Visited(n) == visited \union {n}

(* Mutant: all data that a flow carries are followed. *)
CarriesAny(e) == diagram.edges[e].flow \in {"data", "message"}

Carries(e) == diagram.edges[e].flow \in {"data", "message"} /\ Current.element \in carried[e]

(* A set of edges as a list, in the order of the file. *)
InFileOrder(S) ==
    LET list[i \in 0..Len(diagram.edges)] ==
            IF i = 0 THEN <<>>
            ELSE IF i \in S THEN Append(list[i - 1], i) ELSE list[i - 1]
    IN list[Len(diagram.edges)]

(* The recursive calls for some edges. *)
Calling(S, reverse) ==
    LET list == InFileOrder(S)
    IN [i \in DOMAIN list |-> [edge |-> list[i], reverse |-> reverse]]

(* protection_channel(), with the recursive calls that are still to come.   *)
Traverse ==
    /\ phase = "path" /\ stack # <<>>
    /\ LET t == Head(stack)
           n == Target(t)
           others(reverse) ==
               IF reverse \in Directions(n, t.reverse) THEN Flows(n, reverse) \ {t.edge} ELSE {}
       IN IF ~Carries(t.edge)
          THEN stack' = Tail(stack) /\ UNCHANGED <<visited, edgesVisited, protected>>
          ELSE /\ edgesVisited' = edgesVisited \union {t.edge}
               /\ visited' = Visited(n)
               /\ IF n \in visited \union Head(calls).ends
                  THEN Protect({<<"flow", t.edge>>}) /\ stack' = Tail(stack)
                  ELSE /\ Protect({<<"flow", t.edge>>, <<"node", n>>})
                       /\ stack' = Calling(others(TRUE), TRUE) \o Calling(others(FALSE), FALSE)
                                \o Tail(stack)
    /\ UNCHANGED <<phase, diagram, carried, passed, at, calls, jobs, paths>>

EndPath ==
    /\ phase = "path" /\ stack = <<>>
    /\ LET ends == Head(calls).ends
       IN IF Head(calls).enforce /\ visited \intersect ends = {}
          THEN phase' = (IF ends = {} THEN "panic" ELSE "rejected") /\ UNCHANGED <<jobs, paths>>
          ELSE /\ paths' = [paths EXCEPT ![at] = @ \union {edgesVisited}]
               /\ jobs' = jobs \ {Current}
               /\ phase' = "job"
    /\ UNCHANGED <<diagram, carried, passed, at, calls, stack, visited, edgesVisited, protected>>

EndCall ==
    /\ phase = "job" /\ jobs = {}
    /\ calls' = Tail(calls) /\ phase' = "call"
    /\ UNCHANGED <<diagram, carried, passed, at, jobs, stack, visited, edgesVisited, protected, paths>>

NextStatement ==
    /\ phase = "call" /\ calls = <<>>
    /\ at' = at + 1 /\ phase' = "statement"
    /\ UNCHANGED <<diagram, carried, passed, calls, jobs, stack, visited, edgesVisited, protected, paths>>

EndAnalysis ==
    /\ phase = "statement" /\ at \notin Statements
    /\ phase' = "done"
    /\ UNCHANGED <<diagram, carried, passed, at, calls, jobs, stack, visited, edgesVisited, protected, paths>>

Terminated == phase \in {"done", "rejected", "panic"} /\ UNCHANGED vars

Next ==
    \/ Transport \/ ProtectEverywhere \/ CheckStatement \/ StartCall \/ StartPath
    \/ Traverse \/ EndPath \/ EndCall \/ NextStatement \/ EndAnalysis \/ Terminated

Spec == Init /\ [][Next]_vars /\ WF_vars(Next)

-----------------------------------------------------------------------------
(* Properties *)

(* Steps along which protected data move.  `turns` says in which directions *)
(* a path leaves the node n that it entered in the direction `reverse`.     *)
Step == {[edge |-> e, reverse |-> r] : e \in Edges, r \in BOOLEAN}

Grow(call, c, turns, S) ==
    S \union {t \in Step :
        /\ c \in carried[t.edge]
        /\ \E u \in S : LET n == Target(u)
                        IN /\ n \notin call.ends \union {call.start}
                           /\ t.reverse \in turns[n][u.reverse]
                           /\ t.edge \in Flows(n, t.reverse) \ {u.edge}}

(* The steps from the first flow of a job; there are no more than Step has. *)
Steps(call, first, c, turns) ==
    LET grown[i \in 0..2 * Len(diagram.edges)] ==
            IF i = 0 THEN {[edge |-> first, reverse |-> call.reverse]}
            ELSE Grow(call, c, turns, grown[i - 1])
    IN grown[2 * Len(diagram.edges)]

MayTurn(c) ==
    [n \in Nodes |-> [reverse \in BOOLEAN |->
        IF IsData(n) \/ (reverse /\ c \in passed[n]) THEN BOOLEAN
        ELSE IF reverse THEN {} ELSE {FALSE}]]

(* The turns that do not depend on how a node was entered first. *)
SureTurn(c) ==
    [n \in Nodes |-> [reverse \in BOOLEAN |->
        IF IsData(n) THEN BOOLEAN
        ELSE IF reverse /\ c \notin passed[n] THEN {} ELSE {FALSE}]]

MaySteps(call, first, c) == Steps(call, first, c, MayTurn(c))
SureSteps(call, first, c) == Steps(call, first, c, SureTurn(c))

EdgesOf(steps) == {t.edge : t \in steps}

ReachesEnd(call, steps) == call.start \in call.ends \/ \E t \in steps : Target(t) \in call.ends

(* The state is one that analyse() may be in: data move along flows that    *)
(* carry them, and a path is followed from a flow of its statement.         *)
TypeOK ==
    /\ phase \in {"transport", "statement", "call", "job", "path", "done", "rejected", "panic"}
    /\ at \in 1..(Len(diagram.statements) + 1)
    /\ stack # <<>> => phase = "path" /\ jobs # {} /\ calls # <<>>
    /\ visited \subseteq Nodes
    /\ phase = "path" => \A e \in edgesVisited : Current.element \in carried[e]
    /\ protected \in [Statements -> SUBSET ({"node", "flow"} \X (Nodes \union Edges))]
    /\ paths \in [Statements -> SUBSET SUBSET Edges]

(* When a path has been followed, it has all flows of the icons it meets    *)
(* and all by which the nodes it meets send the data on, it has no flow but *)
(* those along which they may have come or gone, and each of its flows is   *)
(* protected together with both of its ends.  protection_channel() notes a  *)
(* node as visited whichever way it was entered, so the order of flows in   *)
(* the file decides about those that a node receives.                       *)
PathsAreProtected ==
    phase = "path" /\ stack = <<>> =>
        LET call == Head(calls)
            first == Current.edge
            c == Current.element
        IN /\ EdgesOf(SureSteps(call, first, c)) \subseteq edgesVisited
           /\ edgesVisited \subseteq EdgesOf(MaySteps(call, first, c))
           /\ \A e \in edgesVisited :
                {<<"flow", e>>, <<"node", diagram.edges[e].from>>, <<"node", diagram.edges[e].to>>}
                    \subseteq protected[at]

(* The answer of analyse() is right.  If it succeeds, protected data may    *)
(* reach an end from every first flow of a statement that asks for it.  If  *)
(* it misses the ends, no flow leads to one for sure.  It only panics if a  *)
(* node that does its work hidden is to protect, if a data node is to, or   *)
(* if there is no node to take the protection off again.                    *)
AnswersAreRight ==
    /\ phase = "done" =>
        \A s \in {diagram.statements[i] : i \in Statements} : ~IsOpen(s) =>
            \A call \in {call \in ToSet(CallsOf(s)) : call.enforce} :
                \A job \in JobsOf(s, call) :
                    ReachesEnd(call, MaySteps(call, job.edge, job.element))
    /\ phase = "rejected" /\ calls # <<>> =>
        ~ReachesEnd(Head(calls), SureSteps(Head(calls), Current.edge, Current.element))
    /\ phase = "panic" =>
        \/ calls = <<>> /\ \E check \in ToSet(ChecksOf(Statement)) : Hidden(check.node)
        \/ calls # <<>> /\ \E n \in {Head(calls).start} \union Head(calls).ends : IsData(n)
        \/ calls # <<>> /\ Head(calls).enforce /\ Head(calls).ends = {}

(* Every analysis ends, and with an answer: the recursion of                *)
(* protection_channel() comes back although data flows lead in circles,     *)
(* from task to icon to task, and data nodes are left in both directions,   *)
(* because a node that was visited is not left again.                       *)
AnalysisEnds == <>(phase \in {"done", "rejected", "panic"})

-----------------------------------------------------------------------------
(* The inductive invariant behind these properties *)

CallRecords == [start : Nodes, reverse : BOOLEAN, ends : SUBSET Nodes, enforce : BOOLEAN]
Jobs == [edge : Edges, element : Nat]

StateInv ==
    /\ TypeOK
    /\ WellFormed(diagram)
    /\ calls \in Seq(CallRecords) /\ jobs \subseteq Jobs
    /\ stack \in Seq(Step) /\ edgesVisited \subseteq Edges
    /\ phase = "statement" => calls = <<>>
    /\ phase \in {"job", "path"} => calls # <<>>
    /\ phase = "path" => jobs # {}

(* What flows carry is computed once. *)
TransportInv ==
    IF phase = "transport" THEN at = 1 /\ calls = <<>>
    ELSE carried = Carried /\ passed = Passed(Carried)

(* A first flow from which protected data may reach an end, if they must.   *)
Reached(call, job) ==
    call.enforce => ReachesEnd(call, MaySteps(call, job.edge, job.element))

(* All flows of the statements that were analysed reach an end, and so do   *)
(* those of the calls and the flows that are not due any more.              *)
AnsweredInv ==
    /\ phase # "transport" =>
          \A i \in 1..(at - 1) : ~IsOpen(diagram.statements[i]) =>
              \A call \in ToSet(CallsOf(diagram.statements[i])) :
                  \A job \in JobsOf(diagram.statements[i], call) : Reached(call, job)
    /\ phase \in {"call", "job", "path"} =>
          /\ at \in Statements /\ ~IsOpen(Statement)
          /\ \A call \in ToSet(CallsOf(Statement)) \ ToSet(calls) :
                \A job \in JobsOf(Statement, call) : Reached(call, job)
    /\ phase \in {"job", "path"} =>
          /\ jobs \subseteq JobsOf(Statement, Head(calls))
          /\ \A job \in JobsOf(Statement, Head(calls)) \ jobs : Reached(Head(calls), job)
    /\ phase = "done" => at = Len(diagram.statements) + 1

Source(t) == IF t.reverse THEN diagram.edges[t.edge].to ELSE diagram.edges[t.edge].from

(* The flows by which a path leaves the node n were followed, or will be:   *)
(* all those of the directions in which the node was entered first.         *)
LeftFrom(n) ==
    \E reverse \in BOOLEAN : \A r \in Directions(n, reverse) : \A e \in Flows(n, r) :
        Current.element \in carried[e] =>
            e \in edgesVisited \/ [edge |-> e, reverse |-> r] \in ToSet(stack)

(* Nothing is forgotten: the first flow and all flows of the nodes on the   *)
(* path are visited or on the stack, and a visited flow has visited ends.   *)
FollowedInv ==
    phase = "path" =>
        LET call == Head(calls)
        IN /\ call.start \in visited
           /\ \/ Current.edge \in edgesVisited
              \/ [edge |-> Current.edge, reverse |-> call.reverse] \in ToSet(stack)
           /\ \A t \in ToSet(stack) : Source(t) \in visited
           /\ \A e \in edgesVisited : {diagram.edges[e].from, diagram.edges[e].to} \subseteq visited
           /\ \A n \in visited \ (call.ends \union {call.start}) : LeftFrom(n)

(* Nothing is invented: what is visited can be reached.                     *)
ReachableInv ==
    phase = "path" =>
        LET call == Head(calls)
            may == MaySteps(call, Current.edge, Current.element)
        IN /\ \A t \in ToSet(stack) : Current.element \in carried[t.edge] => t \in may
           /\ edgesVisited \subseteq EdgesOf(may)
           /\ \A n \in visited \ {call.start} : \E t \in may : Target(t) = n

(* What is visited is protected, and so are the ends.                       *)
ProtectedInv ==
    /\ phase \in {"job", "path"} =>
          \A n \in {Head(calls).start} \union Head(calls).ends : <<"node", n>> \in protected[at]
    /\ phase = "path" =>
          /\ \A n \in visited : <<"node", n>> \in protected[at]
          /\ \A e \in edgesVisited : <<"flow", e>> \in protected[at]

AnalysisInv ==
    /\ StateInv /\ TransportInv /\ AnsweredInv
    /\ FollowedInv /\ ReachableInv /\ ProtectedInv
=============================================================================
