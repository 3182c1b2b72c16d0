----------------------------- MODULE DrawnFlows -----------------------------
(***************************************************************************)
(* What drawing a file promises: the flows that were read stay what they   *)
(* are, each is drawn once, and a drawing is given out only when every     *)
(* flow is drawn.  A flow of data may be left out, the process may fail.   *)
(***************************************************************************)
VARIABLES
    flows,   \* what each flow joins, and what kind of flow it is
    drawn,   \* the flows that have their lines
    state

vars == <<flows, drawn, state>>

Init == drawn = {} /\ state = "running"

(* Some flows get their lines. *)
Draw ==
    /\ state = "running"
    /\ \E new \in (SUBSET (DOMAIN flows \ drawn)) \ {{}} : drawn' = drawn \union new
    /\ UNCHANGED <<flows, state>>

Finish ==
    /\ state = "running"
    /\ \A f \in DOMAIN flows \ drawn : flows[f].kind = "data"
    /\ state' = "finished" /\ UNCHANGED <<flows, drawn>>

Fail == state = "running" /\ state' = "failed" /\ UNCHANGED <<flows, drawn>>

Next == Draw \/ Finish \/ Fail

Spec == Init /\ [][Next]_vars
=============================================================================
