----------------------------- MODULE EdgeRouting -----------------------------
(***************************************************************************)
(* determine_segment_layers(): the vertical segments in the space between  *)
(* two layers, or the horizontal ones between two pools, get their places  *)
(* from left to right.  A rough order comes from the kind of the segments; *)
(* a scan from top to bottom finds out which segments are next to each     *)
(* other; and the places are given along the paths from left to right, the *)
(* longest first.                                                          *)
(*                                                                         *)
(* A segment is a record: the heights of its start, which is on its left,  *)
(* and of its end, and what it belongs to; a message flow that goes left   *)
(* consists of two loops.                                                  *)
(***************************************************************************)
EXTENDS Integers, SequencesExt

CONSTANTS
    Gaps,       \* sets of segments, each with the width of its space
    SegSpace    \* max_space_between_vertical_edge_segments

ASSUME SegSpaceIsPositive == SegSpace \in Nat \ {0}

VARIABLES
    phase, segments, width,
    swaps,     \* the pairs of segments that exchange their heights
    idx,       \* the rough order from left to right
    window,    \* the segments at the current height, from left to right
    right,     \* SegmentGraph.graph: the next segments to the right
    roots,     \* the segments with nothing on their left
    laid,      \* the paths that have been laid out
    x,         \* the places that have been given
    bends,     \* the places of both bend points, which differ for a swap
    pushed     \* the segments that were not put in the middle for lack of room on the right

vars == <<phase, segments, width, swaps, idx, window, right, roots, laid, x, bends, pushed>>

Init ==
    /\ \E gap \in Gaps : segments = gap.segments /\ width = gap.width
    /\ phase = "sort"
    /\ swaps = <<>> /\ idx = <<>> /\ window = <<>> /\ right = <<>>
    /\ roots = {} /\ laid = {} /\ x = <<>> /\ bends = <<>> /\ pushed = {}

MinY(s) == IF s.start < s.end THEN s.start ELSE s.end
MaxY(s) == IF s.start < s.end THEN s.end ELSE s.start

Overlap(s, t) == MinY(s) <= MaxY(t) /\ MinY(t) <= MaxY(s)

LeadsUp(s) == s.start > s.end

Alignment(s) ==
    CASE s.kind = "edge" -> "center"
      [] s.kind = "leftLoop" \/ (s.kind = "message" /\ LeadsUp(s)) -> "left"
      [] OTHER -> "right"

-----------------------------------------------------------------------------
(* get_layered_edges(): the kinds of segments *)

(* A list sorted by a pair of numbers. *)
SortedBy(S, key(_)) ==
    SetToSortSeq(S, LAMBDA s, t : \/ key(s)[1] < key(t)[1]
                                  \/ key(s)[1] = key(t)[1] /\ key(s)[2] < key(t)[2])

TopDown(S) == SortedBy(S, LAMBDA s : <<MinY(s), MaxY(s)>>)

(* Mutant: both lists are gone through without taking pairs out. *)
PairedKeptInLists(found, up, down) ==
    [found EXCEPT !.pairs = Append(@, <<up, down>>), !.i = @ + 1, !.j = @ + 1]

(* A pair leaves the lists of both its segments. *)
Paired(found, up, down) ==
    [found EXCEPT !.pairs = Append(@, <<up, down>>),
                  !.ups = RemoveAt(@, found.i), !.downs = RemoveAt(@, found.j)]

(* Both lists are gone through at once for segments that swap two heights.  *)
(* What is behind is compared by the lower height first, while the lists    *)
(* are sorted by the upper.                                                 *)
FindSwaps(ups, downs) ==
    LET next(found, k) ==
            IF found.i > Len(found.ups) \/ found.j > Len(found.downs) THEN found
            ELSE LET up == found.ups[found.i]
                     down == found.downs[found.j]
                     isBefore == \/ MaxY(up) < MaxY(down)
                                 \/ MaxY(up) = MaxY(down) /\ MinY(up) < MinY(down)
                 IN IF up.start = down.end /\ up.end = down.start THEN Paired(found, up, down)
                    ELSE IF isBefore THEN [found EXCEPT !.i = @ + 1]
                    ELSE [found EXCEPT !.j = @ + 1]
    IN FoldLeft(next, [ups |-> ups, downs |-> downs, i |-> 1, j |-> 1, pairs |-> <<>>],
                [k \in 1..(Len(ups) + Len(downs)) |-> k])

-----------------------------------------------------------------------------
(* The rough order *)

(* Mutant: what leads down is put in the order of what leads up. *)
LogicalIdxForwards(n, reverse, k) == k - 1

LogicalIdx(n, reverse, k) == IF reverse THEN n - k ELSE k - 1

InOrder(list, reverse, base) ==
    [s \in ToSet(list) |-> base + LogicalIdx(Len(list), reverse,
                                             CHOOSE k \in DOMAIN list : list[k] = s)]

(* Upper segments come first, among loops the shorter ones. *)
LoopsInOrder(loops) == SortedBy(loops, LAMBDA s : <<MaxY(s) - MinY(s), MinY(s)>>)

(* Swaps that do not overlap share a layer; their layers are sorted by the  *)
(* heights they cover and arranged around the middle, where the first three *)
(* get the same place.                                                      *)
SwapLayers(pairs) ==
    LET fits(layers, s) == {k \in DOMAIN layers : MaxY(Last(layers[k])) < MinY(s)}
        add(layers, pair) ==
            LET fitting == fits(layers, pair[1])
            IN IF fitting = {} THEN Append(layers, <<pair[1]>>)
               ELSE [layers EXCEPT ![Min(fitting)] = Append(@, pair[1])]
    IN FoldLeft(add, <<>>, pairs)

Covered(layer) == FoldLeft(LAMBDA sum, s : sum + MaxY(s) - MinY(s), 0, layer)

Offset(k) == IF k <= 3 THEN 0 ELSE IF k % 2 = 0 THEN (k - 2) \div 2 ELSE -((k - 3) \div 2)

SwapsInOrder(pairs, base) ==
    LET layers == SwapLayers(pairs)
        ranking == SortedBy(DOMAIN layers, LAMBDA k : <<Covered(layers[k]), k>>)
        mid == (Len(layers) - 1) \div 2
        place(k) == base + 2 * (mid + Offset(CHOOSE r \in DOMAIN ranking : ranking[r] = k))
        both == UNION {{pairs[i][1], pairs[i][2]} : i \in DOMAIN pairs}
        layerOf(s) == CHOOSE k \in DOMAIN layers :
                         \E i \in DOMAIN pairs : s \in ToSet(pairs[i]) /\ pairs[i][1] \in ToSet(layers[k])
    IN IF Len(pairs) = 1 THEN [s \in both |-> IF s = pairs[1][1] THEN base ELSE base + 1]
       ELSE [s \in both |-> place(layerOf(s))]

SwapCount(pairs) == IF Len(pairs) = 1 THEN 2 ELSE 2 * Len(SwapLayers(pairs))

Sort ==
    LET ofKind(kind) == {s \in segments : s.kind = kind}
        found == FindSwaps(TopDown({s \in ofKind("edge") : LeadsUp(s)}),
                           TopDown({s \in ofKind("edge") : ~LeadsUp(s)}))
        messages(up) == TopDown({s \in ofKind("message") : LeadsUp(s) = up})
        loops(kind) == LoopsInOrder(ofKind(kind))
        b1 == Len(loops("leftLoop"))
        b2 == b1 + Len(messages(TRUE))
        b3 == b2 + Len(found.ups)
        b4 == b3 + SwapCount(found.pairs)
        b5 == b4 + Len(found.downs)
        b6 == b5 + Len(messages(FALSE))
        orders == <<InOrder(loops("leftLoop"), FALSE, 0), InOrder(messages(TRUE), FALSE, b1),
                    InOrder(found.ups, FALSE, b2), SwapsInOrder(found.pairs, b3),
                    InOrder(found.downs, TRUE, b4), InOrder(messages(FALSE), TRUE, b5),
                    InOrder(loops("rightLoop"), TRUE, b6)>>
    IN /\ phase = "sort"
       /\ swaps' = found.pairs
       /\ idx' = [s \in segments |-> LET k == CHOOSE k \in DOMAIN orders : s \in DOMAIN orders[k]
                                     IN orders[k][s]]
       /\ phase' = "scan"
       /\ UNCHANGED <<segments, width, window, right, roots, laid, x, bends, pushed>>

-----------------------------------------------------------------------------
(* The scan: SegmentGraph::add_edge() for each segment from top to bottom *)

Swapped == UNION {ToSet(swaps[i]) : i \in DOMAIN swaps}

(* The lists are merged by the upper heights; ties between lists are open.  *)
SameList(s, t) ==
    /\ s.kind = t.kind /\ LeadsUp(s) = LeadsUp(t)
    /\ s \in Swapped <=> t \in Swapped

NextSegments ==
    LET rest == segments \ DOMAIN right
        top == {s \in rest : \A t \in rest : MinY(s) <= MinY(t)}
    IN {s \in top : \A t \in top : SameList(s, t) => MaxY(s) <= MaxY(t)}

(* Mutant: a segment that ends where the next one begins is dropped. *)
StillThereBelow(s) == SelectSeq(window, LAMBDA t : MaxY(t) > MinY(s))

StillThere(s) == SelectSeq(window, LAMBDA t : MaxY(t) >= MinY(s))

(* s comes in between its neighbours, if there are any. *)
Connected(s, before, after) ==
    [t \in DOMAIN right \union {s} |->
        IF t = s THEN after
        ELSE IF <<t>> = before
             THEN Append(SelectSeq(right[t], LAMBDA c : c \notin ToSet(after)), s)
        ELSE right[t]]

Scan ==
    /\ phase = "scan"
    /\ \/ /\ segments = DOMAIN right
          /\ phase' = "lay" /\ UNCHANGED <<window, right, roots>>
       \/ \E s \in NextSegments :
              LET there == StillThere(s)
                  \* Ties stay in the order in which they came.
                  k == Len(SelectSeq(there, LAMBDA t : idx[t] <= idx[s]))
                  before == IF k > 0 THEN <<there[k]>> ELSE <<>>
                  after == IF k < Len(there) THEN <<there[k + 1]>> ELSE <<>>
              IN /\ window' = InsertAt(there, k + 1, s)
                 /\ right' = Connected(s, before, after)
                 /\ roots' = IF before = <<>> THEN (roots \ ToSet(after)) \union {s} ELSE roots
                 /\ UNCHANGED phase
    /\ UNCHANGED <<segments, width, swaps, idx, laid, x, bends, pushed>>

-----------------------------------------------------------------------------
(* The places: assign_the_real_x_values() for each run of a path *)

AllPaths ==
    LET from[s \in segments] ==
            IF right[s] = <<>> THEN {<<s>>}
            ELSE UNION {{<<s>> \o path : path \in from[t]} : t \in ToSet(right[s])}
    IN UNION {from[s] : s \in roots}

(* What add_bend_points_one_segment() makes of the k-th place of a run. *)
Crosswise(s) == CASE \E i \in DOMAIN swaps : swaps[i][1] = s -> <<0, 1>>
                  [] \E i \in DOMAIN swaps : swaps[i][2] = s -> <<-1, 0>>
                  [] OTHER -> <<0, 0>>

Bends(s, k, at(_)) == <<at(k + Crosswise(s)[1]), at(k + Crosswise(s)[2])>>

(* Mutant: what goes to the right border may be on the border.              *)
RightStartOnBorder(hi, n) == hi - n * SegSpace

RightStart(hi, n) == hi - (n + 1) * SegSpace

(* The run goes into the space between lo and hi.  If it fits comfortably,  *)
(* what is aligned left and right goes to the borders, the rest to the      *)
(* middle of the whole space as far as possible.  Where that is too far to  *)
(* the right it starts in the middle of what is left, not at its end.       *)
Placed(run, lo, hi) ==
    LET n(alignment) == Len(SelectSeq(run, LAMBDA s : Alignment(s) = alignment))
        leftmost == lo + n("left") * SegSpace
        rightmost == hi - n("right") * SegSpace
        half == ((n("center") + 1) * SegSpace) \div 2
        middle == width \div 2
        tooFar == middle > rightmost - half
        centerStart == IF middle < leftmost + half THEN leftmost
                       ELSE IF tooFar THEN rightmost - half
                       ELSE middle - half
        start(s) == CASE Alignment(s) = "left" -> lo
                      [] Alignment(s) = "center" -> centerStart - n("left") * SegSpace
                      [] OTHER -> RightStart(hi, n("right")) - (n("left") + n("center")) * SegSpace
        comfortable(s, k) == start(s) + k * SegSpace
        squeezed(s, k) == lo + (k * (hi - lo)) \div (Len(run) + 1)
        fits == Len(run) < ((hi - lo) \div SegSpace) - 1
    IN [bends |-> [s \in ToSet(run) |->
                      Bends(s, CHOOSE k \in DOMAIN run : run[k] = s,
                            LAMBDA k : IF fits THEN comfortable(s, k) ELSE squeezed(s, k))],
        pushed |-> IF fits /\ tooFar THEN {s \in ToSet(run) : Alignment(s) = "center"} ELSE {}]

(* The runs of a path that have no places yet, with the space between their *)
(* neighbours.                                                              *)
Runs(path) ==
    LET n == Len(path)
        fresh(k) == path[k] \notin DOMAIN x
    IN {[run |-> SubSeq(path, i, j),
         lo |-> IF i = 1 THEN 0 ELSE x[path[i - 1]],
         hi |-> IF j = n THEN width ELSE x[path[j + 1]]] :
           <<i, j>> \in {<<i, j>> \in (1..n) \X (1..n) :
                            /\ i <= j /\ \A k \in i..j : fresh(k)
                            /\ i = 1 \/ ~fresh(i - 1)
                            /\ j = n \/ ~fresh(j + 1)}}

(* The place of a swap is that of the bend point its partner shares. *)
XCoordinate(s, both) == IF Crosswise(s) = <<-1, 0>> THEN both[2] ELSE both[1]

(* Mutant: what fits just once is too much.                                 *)
TooNarrowForOne(lo, hi) == hi - lo <= SegSpace

(* No usize is below 0: a subtraction panics.                               *)
TooNarrow(lo, hi) == hi - lo < SegSpace

LayOutPath ==
    LET rest == AllPaths \ laid
        longest == {path \in rest : \A other \in rest : Len(other) <= Len(path)}
    IN /\ phase = "lay"
       /\ \/ /\ rest = {}
             /\ phase' = "done" /\ UNCHANGED <<laid, x, bends, pushed>>
          \/ \E path \in longest :
                LET places == {Placed(r.run, r.lo, r.hi) : r \in Runs(path)}
                    given == [s \in UNION {DOMAIN p.bends : p \in places} |->
                                 (CHOOSE p \in places : s \in DOMAIN p.bends).bends[s]]
                IN IF \E r \in Runs(path) : TooNarrow(r.lo, r.hi)
                   THEN phase' = "panic" /\ UNCHANGED <<laid, x, bends, pushed>>
                   ELSE /\ laid' = laid \union {path}
                        /\ bends' = given @@ bends
                        /\ x' = [s \in DOMAIN given |-> XCoordinate(s, given[s])] @@ x
                        /\ pushed' = pushed \union UNION {p.pushed : p \in places}
                        /\ UNCHANGED phase
       /\ UNCHANGED <<segments, width, swaps, idx, window, right, roots>>

Terminated == phase \in {"done", "panic"} /\ UNCHANGED vars

Next == Sort \/ Scan \/ LayOutPath \/ Terminated

Spec == Init /\ [][Next]_vars /\ WF_vars(Next)

-----------------------------------------------------------------------------
(* Properties *)

(* Types: all maps are over segments, and places are inside the space, also *)
(* where a run is squeezed between neighbours that have theirs already; for *)
(* very long runs that place may be on the left border.                     *)
TypeOK ==
    /\ phase \in {"sort", "scan", "lay", "done", "panic"}
    /\ phase # "sort" => DOMAIN idx = segments
    /\ \A s \in DOMAIN idx : idx[s] \in 0..(2 * Cardinality(segments))
    /\ ToSet(window) \union roots \subseteq DOMAIN right /\ DOMAIN right \subseteq segments
    /\ DOMAIN x = DOMAIN bends /\ pushed \subseteq DOMAIN x
    /\ \A s \in DOMAIN x : 0 <= x[s] /\ x[s] < width
    /\ Cardinality(segments) < SegSpace => \A s \in DOMAIN x : 0 < x[s]

(* Every segment gets a place, though paths share segments and are laid out *)
(* one after the other; and segments that overlap get theirs in the rough   *)
(* order, never the same, unless the left one was to be moved left for lack *)
(* of room: assign_the_real_x_values() moves that one too far to the right. *)
OverlapsStayOrdered ==
    phase = "done" =>
        /\ DOMAIN x = segments
        /\ \A s, t \in segments : Overlap(s, t) /\ idx[s] < idx[t] => x[s] < x[t] \/ s \in pushed

(* The same for all segments, as the comment in determine_segment_layers()  *)
(* has it: the left-of relationship is what the x coordinates are made of.  *)
OverlapsKeepTheirOrder ==
    phase = "done" => \A s, t \in segments : Overlap(s, t) /\ idx[s] < idx[t] => x[s] < x[t]

(* Where the line of s, which is further to the left, crosses that of t:    *)
(* its way out may cross t, the way into t may cross s.                     *)
CrossingCount(s, t) ==
    (IF MinY(t) < s.end /\ s.end < MaxY(t) THEN 1 ELSE 0)
    + (IF MinY(s) < t.start /\ t.start < MaxY(s) THEN 1 ELSE 0)

(* Two edges that swap with no other cross once if their order changes on   *)
(* the way and else not at all; this is what the rough order is for.  So do *)
(* two message flows that both go up or both go down.                       *)
CrossingsAreNeeded ==
    phase = "done" =>
        \A s, t \in segments \ Swapped :
            /\ s.kind = t.kind /\ s.kind \in {"edge", "message"}
            /\ s.kind = "message" => (LeadsUp(s) <=> LeadsUp(t))
            /\ {s.start, s.end} \intersect {t.start, t.end} = {}
            /\ Overlap(s, t) /\ x[s] < x[t] /\ s \notin pushed
            => CrossingCount(s, t) = (IF s.start < t.start <=> s.end < t.end THEN 0 ELSE 1)

(* The two edges that swap heights, if there is but one such pair, cross in *)
(* one diagonal: both have the same two bend points, although each has its  *)
(* own place on the path.                                                   *)
SwapsCross ==
    phase = "done" /\ Len(swaps) = 1 =>
        \A s, t \in ToSet(swaps[1]) : bends[s] = bends[t]

(* The subtractions of assign_the_real_x_values() fail only where a path    *)
(* does not fit at half the usual distance: then a run may be left with less*)
(* room between its neighbours than one segment takes.                      *)
NarrowGapsPanic ==
    phase = "panic" => \E path \in AllPaths : 2 * width < SegSpace * (Len(path) + 1)
=============================================================================
