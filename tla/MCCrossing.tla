----------------------------- MODULE MCCrossing -----------------------------
(* The files that CrossingMinimization is checked on.                       *)
EXTENDS CrossingMinimization, LayoutFiles

(* The files of one data statement after three nodes in line. *)
LineFiles == Parsed(OneData({Line}, 2))

(* The files of two pools with two message flows to one event. *)
MessageFiles == Parsed({Messages(lane, sender) : lane \in 1..2, sender \in 2..3})

CrossingFiles ==
    MessageFiles
    \union Parsed({Loop, LongDiamond(2)}
                  \union OneData({Line, Parallel(1), Parallel(2), TwoPools}, 2)
                  \union OneData(OneData({Line}, 1), 1)
                  \union OneData(OneData({Pair}, 1), 2))
=============================================================================
