---------------------------- MODULE MCBpmdParser ----------------------------
(***************************************************************************)
(* Small instances of BpmdParser, one set of statement kinds per question: *)
(* chains of sequence flows with labels, pools and lanes, and a data       *)
(* statement and message flows in between; data nodes with their lanes and *)
(* elements and message flows between named nodes.                         *)
(***************************************************************************)
EXTENDS BpmdParser

CONSTANT l1   \* a label

OneLabel == {l1}

FlowFiles == {"Pool", "Lane", "Event", "End", "Task", "Gateway", "Boundary",
              "MessageFlow", "Data"}
DataFiles == {"Pool", "Lane", "End", "MessageFlow", "Data"}
=============================================================================
