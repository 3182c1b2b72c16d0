----------------------------- MODULE ColumnWalks -----------------------------
(***************************************************************************)
(* The iterators of common/graph.rs that walk up or down a layer, over the *)
(* linked nodes of a lane and on to the next lanes and pools.  A walk is   *)
(* the list of the nodes it meets and how it ends: "end", "panic" (an      *)
(* assertion), or "loop" when it never does.                               *)
(***************************************************************************)
EXTENDS BpmnGraph

(* PoolAndLane is ordered by pool, then by lane. *)
IsAbove(p, q) == p[1] < q[1] \/ (p[1] = q[1] /\ p[2] < q[2])
Lower(p, q) == IF IsAbove(p, q) THEN q ELSE p
Higher(p, q) == IF IsAbove(p, q) THEN p ELSE q

LaneCount(g, pool) == Max({place[2] : place \in {q \in DOMAIN g.lanes : q[1] = pool}} \union {0})
Pools(g) == {place[1] : place \in DOMAIN g.lanes}

(* get_top_node(), get_bottom_node(): the first node of a lane in this      *)
(* layer that has no link `open`; 0 if there is none before a later layer.  *)
EndNode(g, place, layer, open) ==
    LET ns == g.lanes[place]
        found == {i \in DOMAIN ns :
                     /\ g.nodes[ns[i]].layer = layer /\ g.nodes[ns[i]][open] = 0
                     /\ \A j \in 1..i : g.nodes[ns[j]].layer <= layer}
    IN IF found = {} THEN 0 ELSE ns[Min(found)]

TopNode(g, place, layer) == EndNode(g, place, layer, "above")
BottomNode(g, place, layer) == EndNode(g, place, layer, "below")

(* get_nextup_higher_node_same_pool(), get_next_lower_node_same_pool(): the *)
(* lane and node where a walk goes on, up to lane `final` of its pool.      *)
NoStep == [node |-> 0, place |-> <<0, 0>>]

Opposite(way) == IF way = "above" THEN "below" ELSE "above"

LanesOnTheWay(g, place, final, way) ==
    IF way = "above" THEN (IF final[1] = place[1] THEN final[2] ELSE 1)..(place[2] - 1)
    ELSE (place[2] + 1)..(IF final[1] = place[1] THEN final[2] ELSE LaneCount(g, place[1]))

Nearest(steps, way) ==
    IF steps = {} THEN NoStep
    ELSE CHOOSE step \in steps : \A other \in steps :
            IF way = "above" THEN ~IsAbove(step.place, other.place)
            ELSE ~IsAbove(other.place, step.place)

NextLane(g, place, final, layer, way) ==
    LET step(lane) == [node |-> EndNode(g, <<place[1], lane>>, layer, Opposite(way)),
                       place |-> <<place[1], lane>>]
        steps == {step(lane) : lane \in LanesOnTheWay(g, place, final, way)}
    IN Nearest({st \in steps : st.node # 0}, way)

(* Mutant: the final lane is beyond the current one. *)
MayAskBeyond(place, final, way) == IF way = "above" THEN IsAbove(final, place) ELSE IsAbove(place, final)

(* Their assertion: the final lane is not on the wrong side. *)
MayAsk(place, final, way) == IF way = "above" THEN ~IsAbove(place, final) ELSE ~IsAbove(final, place)

(* One call of next() of iter_upwards_same_pool() or its counterpart: along  *)
(* the link of the node, to the first node of the lane the walk starts with, *)
(* or to the next lane.  A walk that starts at a lane keeps that lane as the *)
(* current one although its first node may be in another.                   *)
MovedTo(walk, node, place) ==
    [walk EXCEPT !.node = node, !.place = place, !.path = Append(@, node)]

Moved(walk, final, way, linked, own, next) ==
    CASE linked # 0 -> MovedTo(walk, linked, walk.place)
      [] linked = 0 /\ own # 0 -> MovedTo(walk, own, walk.place)
      [] linked = 0 /\ own = 0 /\ ~MayAsk(walk.place, final, way) -> [walk EXCEPT !.end = "panic"]
      [] linked = 0 /\ own = 0 /\ MayAsk(walk.place, final, way) ->
            IF next.node = 0 THEN [walk EXCEPT !.end = "end"]
            ELSE MovedTo(walk, next.node, IF walk.node = 0 THEN walk.place ELSE next.place)

Step(g, walk, final, way) ==
    IF walk.end # "no" THEN walk
    ELSE Moved(walk, final, way,
               IF walk.node = 0 THEN 0 ELSE g.nodes[walk.node][way],
               IF walk.node # 0 THEN 0 ELSE EndNode(g, walk.place, walk.layer, Opposite(way)),
               NextLane(g, walk.place, final, walk.layer, way))

(* A walk that starts at a lane may meet the nodes of another twice; if it   *)
(* meets more it goes on for ever.                                          *)
Ended(walk) == [path |-> walk.path, end |-> IF walk.end = "no" THEN "loop" ELSE walk.end]

Walk(g, start, final, way) ==
    LET bound == 2 * Len(g.nodes) + 1
        after[k \in 0..bound] == IF k = 0 THEN start ELSE Step(g, after[k - 1], final, way)
    IN Ended(after[bound])

StartAtNode(g, n) ==
    [node |-> n, place |-> Place(g.nodes[n]), layer |-> g.nodes[n].layer,
     path |-> <<>>, end |-> "no"]

StartAtLane(place, layer) ==
    [node |-> 0, place |-> place, layer |-> layer, path |-> <<>>, end |-> "no"]

(* The lane that a walk ends with if the caller names none. *)
LastLane(g, place, way) ==
    IF way = "above" THEN <<1, 1>> ELSE <<place[1], LaneCount(g, place[1])>>

(* iter_upwards_all_pools(), iter_downwards_all_pools() without a final     *)
(* lane: the walk in the own pool, then one for each of the next pools.     *)
WalksFrom(g, starts, way) ==
    [i \in DOMAIN starts |-> Walk(g, starts[i], LastLane(g, starts[i].place, way), way)]

WalksOverPools(g, n, way) ==
    LET pool == g.nodes[n].pool
        entered == [i \in 1..(IF way = "above" THEN pool - 1 ELSE Max(Pools(g)) - pool) |->
                       IF way = "above" THEN <<pool - i, LaneCount(g, pool - i)>> ELSE <<pool + i, 1>>]
    IN WalksFrom(g, <<StartAtNode(g, n)>>
                    \o [i \in DOMAIN entered |-> StartAtLane(entered[i], g.nodes[n].layer)], way)

(* The first node on a walk that is no dummy; 0 if there is none. *)
FirstReal(g, walk) ==
    LET met == {i \in DOMAIN walk.path : g.nodes[walk.path[i]].kind # "Dummy"}
    IN IF met = {} THEN 0 ELSE walk.path[Min(met)]
=============================================================================
