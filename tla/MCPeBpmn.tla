------------------------------- MODULE MCPeBpmn -------------------------------
(* The diagrams that PeBpmnAnalysis is checked on: three tasks, of which    *)
(* the last one is in another pool, and icons of one data element.          *)
EXTENDS PeBpmnAnalysis

Task == [kind |-> "Task", element |-> 0]
Icon(c) == [kind |-> "Data", element |-> c]

DataFlow(from, to, c) == [from |-> from, to |-> to, flow |-> "data", element |-> c]
MessageFlow(from, to) == [from |-> from, to |-> to, flow |-> "message", element |-> 0]

(* How a task uses an icon. *)
Use == {"none", "reads", "writes"}
FlowsOf(icon, c, uses) ==
    FlattenSeq([t \in 1..3 |-> CASE uses[t] = "reads" -> <<DataFlow(icon, t, c)>>
                                 [] uses[t] = "writes" -> <<DataFlow(t, icon, c)>>
                                 [] OTHER -> <<>>])

Channel(sender, receiver, permitted) ==
    [type |-> "channel", sender |-> sender, receiver |-> receiver, permitted |-> permitted]
Computation(type, tasks, inProtect, inUnprotect, outProtect, outUnprotect, without) ==
    [type |-> type, tasks |-> tasks, inProtect |-> inProtect, inUnprotect |-> inUnprotect,
     outProtect |-> outProtect, outUnprotect |-> outUnprotect, without |-> without]

(* Task 1 reads icon 4, task 3 writes icon 7; the tasks use icons 5 and 6   *)
(* in any way, and one of the first two sends a message to the third.       *)
Diagram(sender, first, second, reversed, statements) ==
    LET flows == <<MessageFlow(sender, 3), DataFlow(4, 1, 1)>> \o FlowsOf(5, 1, first)
                     \o FlowsOf(6, 1, second) \o <<DataFlow(3, 7, 1)>>
    IN [nodes |-> <<Task, Task, Task, Icon(1), Icon(1), Icon(1), Icon(1)>>,
        edges |-> IF reversed THEN Reverse(flows) ELSE flows,
        statements |-> statements]

Channels == {<<Channel(1, 3, {})>>, <<Channel(1, 2, {1})>>, <<Channel(2, 0, {})>>,
             <<Channel(0, 3, {}), Channel(0, 0, {1})>>, <<Channel(1, 5, {})>>}

Computations ==
    {<<Computation("pool", <<>>, <<1>>, <<3>>, <<>>, <<>>, {})>>,
     <<Computation("pool", <<>>, <<1>>, <<>>, <<>>, <<2>>, {}), Channel(1, 3, {1})>>,
     <<Computation("pool", <<>>, <<1>>, <<2>>, <<2>>, <<1>>, {1})>>,
     <<Computation("tasks", <<2>>, <<1>>, <<>>, <<>>, <<3>>, {})>>,
     <<Channel(2, 3, {}), Computation("tasks", <<2>>, <<>>, <<>>, <<>>, <<3>>, {})>>}

Uses == [1..3 -> Use]

AllDiagrams ==
    {Diagram(sender, first, second, sender = 2, s) :
        sender \in 1..2, first, second \in Uses, s \in Channels \union Computations}
=============================================================================
