---------------------------- MODULE LayoutFiles ----------------------------
(***************************************************************************)
(* Graphs that the parser leaves for small files, for the layout phases.   *)
(* Each skeleton is what parsing the file in its comment gives: `flows`    *)
(* are the edges that the statements add, `jumps` those that the labels    *)
(* add at the end of the file.  A data statement adds a node and flows, as *)
(* parse_data() does.                                                      *)
(***************************************************************************)
EXTENDS Integers, SequencesExt, FiniteSetsExt

Flow(kind, lane) == [kind |-> kind, pool |-> 1, lane |-> lane]
InPool(pool, kind) == [kind |-> kind, pool |-> pool, lane |-> 1]
Sequence(from, to) == [from |-> from, to |-> to, flow |-> "sequence", boundary |-> FALSE]
Message(from, to) == [from |-> from, to |-> to, flow |-> "message", boundary |-> FALSE]
Boundary(from, to) == [from |-> from, to |-> to, flow |-> "sequence", boundary |-> TRUE]

(* # a / . b *)
Pair ==
    [nodes |-> <<Flow("Event", 1), Flow("Event", 1)>>,
     flows |-> <<Sequence(1, 2)>>,
     jumps |-> <<>>,
     lanes |-> {<<1, 1>>}]

(* # a / - b / . c *)
Line ==
    [nodes |-> <<Flow("Event", 1), Flow("Task", 1), Flow("Event", 1)>>,
     flows |-> <<Sequence(1, 2), Sequence(2, 3)>>,
     jumps |-> <<>>,
     lanes |-> {<<1, 1>>}]

(* = P / == L1 / # a / X ->r ->s / == L2 / - b <-s ->r / . c <-r *)
Diamond(lane) ==
    [nodes |-> <<Flow("Event", 1), Flow("Gateway", 1), Flow("Task", lane), Flow("Event", lane)>>,
     flows |-> <<Sequence(1, 2)>>,
     jumps |-> <<Sequence(2, 4), Sequence(3, 4), Sequence(2, 3)>>,
     lanes |-> {<<1, l>> : l \in 1..lane}]

(* # a / X ->r ->s / - b <-s / - c ->r / . d <-r, d in the last lane *)
LongDiamond(lane) ==
    [nodes |-> <<Flow("Event", 1), Flow("Gateway", 1), Flow("Task", 1), Flow("Task", 1),
                 Flow("Event", lane)>>,
     flows |-> <<Sequence(1, 2), Sequence(3, 4)>>,
     jumps |-> <<Sequence(2, 5), Sequence(4, 5), Sequence(2, 3)>>,
     lanes |-> {<<1, l>> : l \in 1..lane}]

(* # a / X ->r ->s / - b <-r ->t / - c <-s ->t / . d <-t, c and d in the    *)
(* last lane                                                                *)
Parallel(lane) ==
    [nodes |-> <<Flow("Event", 1), Flow("Gateway", 1), Flow("Task", 1), Flow("Task", lane),
                 Flow("Event", lane)>>,
     flows |-> <<Sequence(1, 2)>>,
     jumps |-> <<Sequence(2, 3), Sequence(2, 4), Sequence(3, 5), Sequence(4, 5)>>,
     lanes |-> {<<1, l>> : l \in 1..lane}]

(* # a / - b / T! ->l / - c ->l / . d <-l *)
BoundaryFlow ==
    [nodes |-> <<Flow("Event", 1), Flow("Task", 1), Flow("Task", 1), Flow("Event", 1)>>,
     flows |-> <<Sequence(1, 2), Sequence(2, 3)>>,
     jumps |-> <<Boundary(2, 4), Sequence(3, 4)>>,
     lanes |-> {<<1, 1>>}]

(* # a / X ->r ->s / . b <-r / . c <-s, each in its lane *)
Fork(gateway, upper, lower) ==
    [nodes |-> <<Flow("Event", gateway), Flow("Gateway", gateway),
                 Flow("Event", upper), Flow("Event", lower)>>,
     flows |-> <<Sequence(1, 2)>>,
     jumps |-> <<Sequence(2, 3), Sequence(2, 4)>>,
     lanes |-> {<<1, l>> : l \in 1..Max({gateway, upper, lower})}]

(* # a ->r / # b ->s / X <-r <-s / . c, each in its lane *)
Join(upper, lower, gateway) ==
    [nodes |-> <<Flow("Event", upper), Flow("Event", lower),
                 Flow("Gateway", gateway), Flow("Event", gateway)>>,
     flows |-> <<Sequence(3, 4)>>,
     jumps |-> <<Sequence(1, 3), Sequence(2, 3)>>,
     lanes |-> {<<1, l>> : l \in 1..Max({gateway, upper, lower})}]

(* # a / - b / T! ->l / - c ->l / . d <-l, where d, then c, may be in lower *)
(* lanes                                                                    *)
BoundaryTo(main, target) ==
    [nodes |-> <<Flow("Event", 1), Flow("Task", 1), Flow("Task", main), Flow("Event", target)>>,
     flows |-> <<Sequence(1, 2)>>,
     jumps |-> <<Sequence(2, 3), Boundary(2, 4), Sequence(3, 4)>>,
     lanes |-> {<<1, l>> : l \in 1..Max({main, target})}]

(* # a / X ->r ->s / - b <-s ->t / X c <-r <-t / . d, b in the last lane    *)
ForkJoin(lane) ==
    [nodes |-> <<Flow("Event", 1), Flow("Gateway", 1), Flow("Task", lane),
                 Flow("Gateway", 1), Flow("Event", 1)>>,
     flows |-> <<Sequence(1, 2), Sequence(4, 5)>>,
     jumps |-> <<Sequence(2, 4), Sequence(2, 3), Sequence(3, 4)>>,
     lanes |-> {<<1, l>> : l \in 1..lane}]

(* - b / T! ->l / # x / . y / . d <-l, b, x and d in these lanes            *)
BoundaryOver(task, event, target) ==
    [nodes |-> <<Flow("Task", task), Flow("Event", event), Flow("Event", event),
                 Flow("Event", target)>>,
     flows |-> <<Sequence(2, 3)>>,
     jumps |-> <<Boundary(1, 4)>>,
     lanes |-> {<<1, l>> : l \in 1..Max({task, event, target})}]

(* X a ->r ->s / X b ->t ->u / and an end event for each of r, s, t and u   *)
(* in its lane                                                              *)
TwoForks(lanes) ==
    [nodes |-> <<Flow("Gateway", 1), Flow("Gateway", 1)>>
               \o [i \in DOMAIN lanes |-> Flow("Event", lanes[i])],
     flows |-> <<>>,
     jumps |-> <<Sequence(1, 3), Sequence(1, 4), Sequence(2, 5), Sequence(2, 6)>>,
     lanes |-> {<<1, l>> : l \in 1..Max({1} \union ToSet(lanes))}]

(* # a ->r / # b ->s / X <-r <-s ->t ->u / . c <-t / . d <-u, the gateway   *)
(* in the first lane                                                        *)
Cross(lanes) ==
    [nodes |-> <<Flow("Gateway", 1)>> \o [i \in DOMAIN lanes |-> Flow("Event", lanes[i])],
     flows |-> <<>>,
     jumps |-> <<Sequence(2, 1), Sequence(3, 1), Sequence(1, 4), Sequence(1, 5)>>,
     lanes |-> {<<1, l>> : l \in 1..Max({1} \union ToSet(lanes))}]

(* = P / == L1 / - b <-s ->r / == L2 / X a ->r ->s / - d <-r ->t /          *)
(* == L3 / . f <-t / = Q / # g / . h                                        *)
EmptyLane ==
    [nodes |-> <<Flow("Task", 1), Flow("Gateway", 2), Flow("Task", 2), Flow("Event", 3),
                 InPool(2, "Event"), InPool(2, "Event")>>,
     flows |-> <<Sequence(5, 6)>>,
     jumps |-> <<Sequence(2, 1), Sequence(1, 3), Sequence(2, 3), Sequence(3, 4)>>,
     lanes |-> {<<1, l>> : l \in 1..3} \union {<<2, 1>>}]

(* = P / # a / . b / = Q / # c / . d / MF <-b ->c *)
TwoPools ==
    [nodes |-> <<InPool(1, "Event"), InPool(1, "Event"), InPool(2, "Event"), InPool(2, "Event")>>,
     flows |-> <<Sequence(1, 2), Sequence(3, 4), Message(2, 3)>>,
     jumps |-> <<>>,
     lanes |-> {<<1, 1>>, <<2, 1>>}]

(* = P / # a ->r / . b <-r / . c <-r / = Q / # d / . e / MF <-b ->d /       *)
(* MF <-sender ->d, where c is in the last lane and the sender is b or c    *)
Messages(lane, sender) ==
    [nodes |-> <<Flow("Event", 1), Flow("Event", 1), Flow("Event", lane),
                 InPool(2, "Event"), InPool(2, "Event")>>,
     flows |-> <<Sequence(4, 5), Message(2, 4), Message(sender, 4)>>,
     jumps |-> <<Sequence(1, 2), Sequence(1, 3)>>,
     lanes |-> {<<1, l>> : l \in 1..lane} \union {<<2, 1>>}]

(* = P / # a / - b / . c / = Q / # d / - e / . f / MF <-from ->to *)
Talk(from, to) ==
    [nodes |-> <<InPool(1, "Event"), InPool(1, "Task"), InPool(1, "Event"),
                 InPool(2, "Event"), InPool(2, "Task"), InPool(2, "Event")>>,
     flows |-> <<Sequence(1, 2), Sequence(2, 3), Sequence(4, 5), Sequence(5, 6), Message(from, to)>>,
     jumps |-> <<>>,
     lanes |-> {<<1, 1>>, <<2, 1>>}]

(* = P / == L1 / . a / == L2 / . b / = Q / == L1 / . c / == L2 / . d /      *)
(* MF <-from ->to                                                           *)
Stacked(from, to) ==
    [nodes |-> <<Flow("Event", 1), Flow("Event", 2), [InPool(2, "Event") EXCEPT !.lane = 1],
                 [InPool(2, "Event") EXCEPT !.lane = 2]>>,
     flows |-> <<Message(from, to)>>,
     jumps |-> <<>>,
     lanes |-> {1, 2} \X {1, 2}]

(* = P / == L1 / - b / T! ->l / . d <-l / == L2 / # x / . y / = Q / . e /   *)
(* MF <-b ->e, or back if not `sends`                                       *)
BoundaryMessage(sends) ==
    [nodes |-> <<Flow("Task", 1), Flow("Event", 1), Flow("Event", 2), Flow("Event", 2),
                 InPool(2, "Event")>>,
     flows |-> <<Sequence(3, 4), IF sends THEN Message(1, 5) ELSE Message(5, 1)>>,
     jumps |-> <<Boundary(1, 2)>>,
     lanes |-> {<<1, 1>>, <<1, 2>>, <<2, 1>>}]

(* # a ->l / - b <-l ->l *)
Loop ==
    [nodes |-> <<Flow("Event", 1), Flow("Task", 1)>>,
     flows |-> <<>>,
     jumps |-> <<Sequence(1, 2), Sequence(2, 2)>>,
     lanes |-> {<<1, 1>>}]

(* OD ->reader <-writer: the lane is the rounded mean of the recipients'.   *)
WithData(file, recipients) ==
    LET n == Len(file.nodes) + 1
        count == Len(recipients)
        lanes == [i \in DOMAIN recipients |-> file.nodes[recipients[i].node].lane]
        lane == (2 * FoldLeft(+, 0, lanes) + count) \div (2 * count)
    IN [file EXCEPT
          !.nodes = Append(@, [kind |-> "Data", lane |-> lane,
                               pool |-> file.nodes[recipients[1].node].pool]),
          !.flows = @ \o [i \in DOMAIN recipients |->
                            [from |-> IF recipients[i].outgoing THEN n ELSE recipients[i].node,
                             to |-> IF recipients[i].outgoing THEN recipients[i].node ELSE n,
                             flow |-> "data", boundary |-> FALSE]]]

(* The files with one more data statement of up to `max` recipients. *)
DataStatements(file, max) ==
    LET named == {n \in DOMAIN file.nodes : file.nodes[n].kind # "Gateway"}
        pool(n) == file.nodes[n].pool
    IN {WithData(file, recipients) :
          recipients \in {r \in BoundedSeq([outgoing : BOOLEAN, node : named], max) :
                            r # <<>> /\ \A i \in DOMAIN r : pool(r[i].node) = pool(r[1].node)}}

OneData(files, max) == UNION {DataStatements(file, max) : file \in files}

(* What the parser makes of the statements. *)
Parsed(files) ==
    {[nodes |-> file.nodes, edges |-> file.flows \o file.jumps, lanes |-> file.lanes] :
        file \in files}
=============================================================================
