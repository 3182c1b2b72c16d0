----------------------------- MODULE PeBpmnProofs -----------------------------
(***************************************************************************)
(* Proofs about PeBpmnAnalysis, for every diagram: the traversal of a path *)
(* visits what it must and nothing that it cannot reach, all of it is      *)
(* protected, and the answer of the analysis is right.                     *)
(***************************************************************************)
EXTENDS PeBpmnAnalysis, InductionLemmas

-----------------------------------------------------------------------------
(* Lists *)

(* The members of a list are those of its head and its tail.                *)
LEMMA TailMembers ==
    ASSUME NEW S, NEW list \in Seq(S), list # <<>>
    PROVE  /\ Head(list) \in S /\ Tail(list) \in Seq(S)
           /\ Head(list) \in ToSet(list)
           /\ ToSet(list) = {Head(list)} \union ToSet(Tail(list))
<1>1. /\ Len(list) \in Nat /\ Len(list) # 0 /\ DOMAIN list = 1..Len(list)
      /\ Head(list) = list[1] /\ Tail(list) \in Seq(S) /\ Len(Tail(list)) = Len(list) - 1
      /\ DOMAIN Tail(list) = 1..(Len(list) - 1)
      /\ \A i \in 1..(Len(list) - 1) : Tail(list)[i] = list[i + 1]
  OBVIOUS
<1>2. 1 \in DOMAIN list /\ Head(list) \in S /\ Head(list) \in ToSet(list)
  BY <1>1 DEF ToSet
<1>3. \A i \in DOMAIN Tail(list) : Tail(list)[i] \in ToSet(list)
  BY <1>1 DEF ToSet
<1>4. ASSUME NEW i \in DOMAIN list, i # 1
      PROVE  list[i] \in ToSet(Tail(list))
  <2>1. i - 1 \in 1..(Len(list) - 1) /\ Tail(list)[i - 1] = list[i]
    BY <1>1, <1>4
  <2> QED
    BY <1>1, <2>1 DEF ToSet
<1> QED
  BY <1>1, <1>2, <1>3, <1>4 DEF ToSet

(* The members of two lists in a row. *)
LEMMA ConcatMembers ==
    ASSUME NEW S, NEW first \in Seq(S), NEW second \in Seq(S)
    PROVE  /\ first \o second \in Seq(S)
           /\ ToSet(first \o second) = ToSet(first) \union ToSet(second)
<1>1. PICK m \in Nat, k \in Nat : m = Len(first) /\ k = Len(second)
  OBVIOUS
<1>2. PICK both : both = first \o second
  OBVIOUS
<1>3. /\ both \in Seq(S) /\ DOMAIN first = 1..m /\ DOMAIN second = 1..k /\ DOMAIN both = 1..(m + k)
      /\ \A i \in 1..(m + k) : both[i] = IF i <= m THEN first[i] ELSE second[i - m]
  BY <1>1, <1>2
<1>4. ASSUME NEW i \in 1..(m + k)
      PROVE  both[i] \in ToSet(first) \union ToSet(second)
  <2>1. CASE i <= m
    <3>1. i \in DOMAIN first /\ both[i] = first[i]
      BY <1>3, <2>1
    <3> QED
      BY <3>1 DEF ToSet
  <2>2. CASE ~(i <= m)
    <3>1. i - m \in DOMAIN second /\ both[i] = second[i - m]
      BY <1>3, <2>2
    <3> QED
      BY <3>1 DEF ToSet
  <2> QED
    BY <2>1, <2>2
<1>5. ASSUME NEW i \in DOMAIN first
      PROVE  first[i] \in ToSet(both)
  <2>1. i \in DOMAIN both /\ both[i] = first[i]
    BY <1>3
  <2> QED
    BY <2>1 DEF ToSet
<1>6. ASSUME NEW i \in DOMAIN second
      PROVE  second[i] \in ToSet(both)
  <2>1. i + m \in DOMAIN both /\ both[i + m] = second[i]
    BY <1>3
  <2> QED
    BY <2>1 DEF ToSet
<1>7. ToSet(both) \subseteq ToSet(first) \union ToSet(second)
  BY <1>3, <1>4 DEF ToSet
<1>8. ToSet(first) \subseteq ToSet(both) /\ ToSet(second) \subseteq ToSet(both)
  BY <1>5, <1>6 DEF ToSet
<1>9. both \in Seq(S) /\ ToSet(both) = ToSet(first) \union ToSet(second)
  BY <1>3, <1>7, <1>8
<1> QED
  BY <1>2, <1>9

(* The empty list has no members. *)
LEMMA NoMembers == ToSet(<<>>) = {}
BY DEF ToSet

(* A list with one member. *)
LEMMA Single ==
    ASSUME NEW S, NEW x \in S
    PROVE  <<x>> \in Seq(S) /\ ToSet(<<x>>) = {x}
BY DEF ToSet

(* A list of the images of the members of a list.                           *)
LEMMA Mapped ==
    ASSUME NEW S, NEW R, NEW list \in Seq(R), NEW f, DOMAIN f = DOMAIN list,
           f = [i \in DOMAIN f |-> f[i]], \A i \in DOMAIN list : f[i] \in S
    PROVE  f \in Seq(S)
<1>1. Len(list) \in Nat /\ DOMAIN list = 1..Len(list)
  OBVIOUS
<1>2. f \in [1..Len(list) -> S]
  BY <1>1
<1> QED
  BY <1>1, <1>2

-----------------------------------------------------------------------------
(* Diagrams *)

(* What a diagram is made of. *)
LEMMA Shape ==
    ASSUME WellFormed(diagram)
    PROVE  /\ Len(diagram.nodes) \in Nat /\ Nodes = 1..Len(diagram.nodes)
           /\ Len(diagram.edges) \in Nat /\ Edges = 1..Len(diagram.edges)
           /\ Len(diagram.statements) \in Nat /\ Statements = 1..Len(diagram.statements)
           /\ \A n \in Nodes : diagram.nodes[n].element \in Nat
           /\ \A e \in Edges : /\ diagram.edges[e].from \in Nodes /\ diagram.edges[e].to \in Nodes
                               /\ diagram.edges[e].element \in Nat
                               /\ diagram.edges[e].flow \in {"sequence", "message", "data"}
           /\ \A i \in Statements :
                 diagram.statements[i] \in ChannelsOf(diagram) \union ComputationsOf(diagram)
<1>1. PICK N, E, S :
        /\ N = [kind : {"Event", "Gateway", "Task", "Data"}, element : Nat]
        /\ E = [from : Nodes, to : Nodes, flow : {"sequence", "message", "data"}, element : Nat]
        /\ S = ChannelsOf(diagram) \union ComputationsOf(diagram)
  OBVIOUS
<1>2. diagram.nodes \in Seq(N) /\ diagram.edges \in Seq(E) /\ diagram.statements \in Seq(S)
  BY <1>1 DEF WellFormed, Nodes
<1>3. /\ Len(diagram.nodes) \in Nat /\ Nodes = 1..Len(diagram.nodes)
      /\ Len(diagram.edges) \in Nat /\ Edges = 1..Len(diagram.edges)
      /\ Len(diagram.statements) \in Nat /\ Statements = 1..Len(diagram.statements)
  BY <1>2 DEF Nodes, Edges, Statements
<1>4. /\ \A n \in Nodes : diagram.nodes[n] \in N
      /\ \A e \in Edges : diagram.edges[e] \in E
      /\ \A i \in Statements : diagram.statements[i] \in S
  BY <1>2 DEF Nodes, Edges, Statements
<1>5. \A n \in Nodes : diagram.nodes[n].element \in Nat
  BY <1>1, <1>4
<1>6. \A e \in Edges : /\ diagram.edges[e].from \in Nodes /\ diagram.edges[e].to \in Nodes
                       /\ diagram.edges[e].element \in Nat
                       /\ diagram.edges[e].flow \in {"sequence", "message", "data"}
  BY <1>1, <1>4
<1> QED
  BY <1>1, <1>3, <1>4, <1>5, <1>6

(* The ends of steps are nodes. *)
LEMMA StepEnds ==
    ASSUME WellFormed(diagram), NEW t \in Step
    PROVE  /\ t.edge \in Edges /\ t.reverse \in BOOLEAN
           /\ t = [edge |-> t.edge, reverse |-> t.reverse]
           /\ Target(t) \in Nodes /\ Source(t) \in Nodes
           /\ {Source(t), Target(t)} = {diagram.edges[t.edge].from, diagram.edges[t.edge].to}
<1>1. t.edge \in Edges /\ t.reverse \in BOOLEAN /\ t = [edge |-> t.edge, reverse |-> t.reverse]
  BY DEF Step
<1>2. diagram.edges[t.edge].from \in Nodes /\ diagram.edges[t.edge].to \in Nodes
  BY <1>1, Shape
<1> QED
  BY <1>1, <1>2 DEF Target, Source

(* Each flow can be gone along in both directions. *)
LEMMA BothWays ==
    ASSUME NEW e \in Edges, NEW r \in BOOLEAN
    PROVE  [edge |-> e, reverse |-> r] \in Step
BY DEF Step

(* A step leaves a node along one of its flows. *)
LEMMA FlowsAreSteps ==
    ASSUME NEW n, NEW r \in BOOLEAN, NEW e \in Flows(n, r)
    PROVE  [edge |-> e, reverse |-> r] \in Step /\ Source([edge |-> e, reverse |-> r]) = n
BY DEF Flows, Incoming, Outgoing, Step, Source

(* A list in the order of the file has the members of the set.              *)
LEMMA FileOrder ==
    ASSUME WellFormed(diagram), NEW S \in SUBSET Edges
    PROVE  InFileOrder(S) \in Seq(Edges) /\ ToSet(InFileOrder(S)) = S
<1>1. PICK m \in Nat : m = Len(diagram.edges) /\ Edges = 1..m /\ \A i \in S : i \in 1..m
  BY Shape
<1>2. PICK V : V = Seq(Edges)
  OBVIOUS
<1>3. <<>> \in V /\ \A x \in V, i \in 1..m : Append(x, i) \in V
  BY <1>1, <1>2
<1> DEFINE Is(list) == list = [i \in 0..m |->
                                  IF i = 0 THEN <<>>
                                  ELSE IF i \in S THEN Append(list[i - 1], i) ELSE list[i - 1]]
           next == [i \in 1..m |-> [x \in V |-> IF i \in S THEN Append(x, i) ELSE x]]
           Below(n) == {i \in S : i <= n}
<1>4. \E list : Is(list)
  <2>1. /\ next \in [1..m -> [V -> V]]
        /\ \A i \in 1..m : \A x \in V : next[i][x] = IF i \in S THEN Append(x, i) ELSE x
    BY <1>3
  <2> HIDE DEF next
  <2>2. PICK g : g \in Recursions(m, V, <<>>, next)
    BY <1>3, <2>1, RecursionExists
  <2>3. /\ g \in [0..m -> V] /\ g[0] = <<>>
        /\ \A i \in 1..m : g[i] = next[i][g[i - 1]]
    BY <2>2 DEF Recursions
  <2>4. ASSUME NEW i \in 0..m
        PROVE  g[i] = IF i = 0 THEN <<>> ELSE IF i \in S THEN Append(g[i - 1], i) ELSE g[i - 1]
    <3>1. CASE i # 0
      <4>1. i \in 1..m /\ i - 1 \in 0..m
        BY <3>1
      <4>2. g[i - 1] \in V
        BY <2>3, <4>1
      <4> QED
        BY <2>1, <2>3, <3>1, <4>1, <4>2
    <3> QED
      BY <2>3, <3>1
  <2>5. Is(g)
    BY <2>3, <2>4
  <2> HIDE DEF Is
  <2> QED
    BY <2>5
<1>5. PICK list : Is(list) /\ InFileOrder(S) = list[m]
  <2>1. InFileOrder(S) = (CHOOSE list : Is(list))[m]
    BY <1>1 DEF InFileOrder
  <2> HIDE DEF Is
  <2> QED
    BY <1>4, <2>1
<1>6. \A i \in 0..m : list[i] = IF i = 0 THEN <<>>
                                ELSE IF i \in S THEN Append(list[i - 1], i) ELSE list[i - 1]
  BY <1>5
<1> DEFINE T == {n \in Nat : n <= m => list[n] \in V /\ ToSet(list[n]) = Below(n)}
<1>6a. \A i \in S : i \in Nat /\ 1 <= i /\ i <= m
  BY <1>1
<1>7. 0 \in T
  <2>1. list[0] = <<>>
    BY <1>6
  <2>2. Below(0) = {}
    BY <1>6a
  <2> HIDE DEF Below
  <2> QED
    BY <1>3, <2>1, <2>2, NoMembers
<1>8. ASSUME NEW n \in T
      PROVE  n + 1 \in T
  <2> SUFFICES ASSUME n + 1 <= m
               PROVE  list[n + 1] \in V /\ ToSet(list[n + 1]) = Below(n + 1)
    OBVIOUS
  <2>1. n \in Nat /\ list[n] \in V /\ ToSet(list[n]) = Below(n)
    OBVIOUS
  <2>2. n + 1 \in 1..m /\ n + 1 \in 0..m /\ n + 1 # 0 /\ (n + 1) - 1 = n
    BY <2>1
  <2>3. list[n + 1] = IF n + 1 \in S THEN Append(list[n], n + 1) ELSE list[n]
    BY <1>6, <2>2
  <2>4. Below(n + 1) = IF n + 1 \in S THEN Below(n) \union {n + 1} ELSE Below(n)
    <3>1. \A i \in S : i <= n + 1 <=> i <= n \/ i = n + 1
      BY <1>6a, <2>1
    <3>2. n <= n + 1
      BY <2>1
    <3> QED
      BY <1>6a, <2>1, <3>1, <3>2
  <2>5. CASE n + 1 \in S
    <3>1. list[n] \in Seq(Edges) /\ <<n + 1>> \in Seq(Edges)
      BY <1>1, <1>2, <2>1, <2>2
    <3>2. Append(list[n], n + 1) = list[n] \o <<n + 1>>
      BY <3>1
    <3>3. ToSet(<<n + 1>>) = {n + 1}
      BY DEF ToSet
    <3>4. /\ list[n] \o <<n + 1>> \in Seq(Edges)
          /\ ToSet(list[n] \o <<n + 1>>) = ToSet(list[n]) \union ToSet(<<n + 1>>)
      <4>1. PICK first \in Seq(Edges) : first = list[n]
        BY <3>1
      <4>2. PICK second \in Seq(Edges) : second = <<n + 1>>
        BY <3>1
      <4>3. first \o second \in Seq(Edges) /\ ToSet(first \o second) = ToSet(first) \union ToSet(second)
        BY ConcatMembers
      <4> QED
        BY <4>1, <4>2, <4>3
    <3> HIDE DEF Below
    <3> QED
      BY <1>2, <2>1, <2>3, <2>4, <2>5, <3>2, <3>3, <3>4
  <2>6. CASE n + 1 \notin S
    BY <2>1, <2>3, <2>4, <2>6
  <2> QED
    BY <2>5, <2>6
<1> HIDE DEF T
<1>9. T = Nat
  <2>1. T \in SUBSET Nat
    BY DEF T
  <2> QED
    BY <1>7, <1>8, <2>1, Induction
<1>10. list[m] \in V /\ ToSet(list[m]) = Below(m)
  BY <1>9 DEF T
<1>11. Below(m) = S
  BY <1>6a
<1> QED
  BY <1>2, <1>5, <1>10, <1>11

(* The calls for some flows of a node. *)
LEMMA CallingSteps ==
    ASSUME WellFormed(diagram), NEW r \in BOOLEAN, NEW S \in SUBSET Edges
    PROVE  /\ Calling(S, r) \in Seq(Step)
           /\ ToSet(Calling(S, r)) = {[edge |-> e, reverse |-> r] : e \in S}
<1>1. PICK list \in Seq(Edges) : list = InFileOrder(S) /\ ToSet(list) = S
  BY FileOrder
<1>2. Calling(S, r) = [i \in DOMAIN list |-> [edge |-> list[i], reverse |-> r]]
  BY <1>1 DEF Calling
<1>3. \A i \in DOMAIN list : list[i] \in S
  BY <1>1 DEF ToSet
<1>4. \A e \in S : [edge |-> e, reverse |-> r] \in Step
  BY DEF Step
<1>5. Calling(S, r) \in Seq(Step)
  <2>1. DOMAIN list = 1..Len(list) /\ Len(list) \in Nat
    OBVIOUS
  <2> QED
    BY <1>2, <1>3, <1>4, <2>1
<1>6. ToSet(Calling(S, r)) = {[edge |-> list[i], reverse |-> r] : i \in DOMAIN list}
  BY <1>2 DEF ToSet
<1> QED
  BY <1>1, <1>5, <1>6 DEF ToSet

(* The steps along the flows R backwards and along S forwards, before rest. *)
IsStackOf(top, R, S, rest) ==
    ToSet(top) = {[edge |-> e, reverse |-> TRUE] : e \in R}
                 \union {[edge |-> e, reverse |-> FALSE] : e \in S} \union ToSet(rest)

(* The stack with the calls for the flows that come to a node and for those *)
(* that leave it on top.                                                    *)
LEMMA StackGrows ==
    ASSUME WellFormed(diagram), NEW R \in SUBSET Edges, NEW S \in SUBSET Edges,
           NEW rest \in Seq(Step),
           NEW top, top = Calling(R, TRUE) \o Calling(S, FALSE) \o rest
    PROVE  top \in Seq(Step) /\ IsStackOf(top, R, S, rest)
<1>1. PICK first \in Seq(Step) :
         first = Calling(R, TRUE) /\ ToSet(first) = {[edge |-> e, reverse |-> TRUE] : e \in R}
  BY CallingSteps
<1>2. PICK second \in Seq(Step) :
         second = Calling(S, FALSE) /\ ToSet(second) = {[edge |-> e, reverse |-> FALSE] : e \in S}
  BY CallingSteps
<1>3. PICK both \in Seq(Step) : both = first \o second /\ ToSet(both) = ToSet(first) \union ToSet(second)
  BY ConcatMembers
<1>4. both \o rest \in Seq(Step) /\ ToSet(both \o rest) = ToSet(both) \union ToSet(rest)
  BY ConcatMembers
<1>5. both \o rest = top
  BY <1>1, <1>2, <1>3
<1> QED
  BY <1>1, <1>2, <1>3, <1>4, <1>5 DEF IsStackOf

-----------------------------------------------------------------------------
(* What can be reached *)

(* There are two steps along each flow. *)
LEMMA StepsAreFew ==
    ASSUME WellFormed(diagram)
    PROVE  IsFiniteSet(Step) /\ Cardinality(Step) <= 2 * Len(diagram.edges)
<1>1. PICK m \in Nat : m = Len(diagram.edges) /\ Edges = 1..m
  BY Shape
<1> DEFINE number == [t \in Step |-> IF t.reverse THEN 2 * t.edge - 1 ELSE 2 * t.edge]
<1>2. \A t \in Step : t.edge \in 1..m /\ t.reverse \in BOOLEAN
                      /\ t = [edge |-> t.edge, reverse |-> t.reverse]
  BY <1>1 DEF Step
<1>3. \A t \in Step : number[t] \in 1..(2 * m)
  BY <1>2
<1>4. ASSUME NEW t \in Step, NEW u \in Step, number[t] = number[u]
      PROVE  t = u
  <2>1. PICK e \in 1..m, f \in 1..m, r \in BOOLEAN, q \in BOOLEAN :
           t = [edge |-> e, reverse |-> r] /\ u = [edge |-> f, reverse |-> q]
    BY <1>2
  <2>2. (IF r THEN 2 * e - 1 ELSE 2 * e) = (IF q THEN 2 * f - 1 ELSE 2 * f)
    BY <1>4, <2>1
  <2>3. e = f /\ r = q
    BY <2>2
  <2> QED
    BY <2>1, <2>3
<1>5. number \in Injection(Step, 1..(2 * m))
  <2>1. number \in [Step -> 1..(2 * m)]
    BY <1>3
  <2> HIDE DEF number
  <2> QED
    BY <1>4, <2>1 DEF Injection, IsInjective
<1>6. IsFiniteSet(1..(2 * m)) /\ Cardinality(1..(2 * m)) = 2 * m
  <2>1. 2 * m \in Nat
    OBVIOUS
  <2> QED
    BY <2>1, FS_Interval
<1> HIDE DEF number
<1> QED
  BY <1>1, <1>5, <1>6, FS_Injection

(* What steps from the first one are made of, turn by turn.                 *)
Turns(call, first, c, turns) ==
    {g \in [0..2 * Len(diagram.edges) -> SUBSET Step] :
        /\ g[0] = {[edge |-> first, reverse |-> call.reverse]}
        /\ \A i \in 1..2 * Len(diagram.edges) : g[i] = Grow(call, c, turns, g[i - 1])}

(* Steps has the value that its recursive definition gives it.              *)
LEMMA StepsUnfold ==
    ASSUME WellFormed(diagram), NEW call, call.reverse \in BOOLEAN, NEW first \in Edges,
           NEW c, NEW turns
    PROVE  \E g \in Turns(call, first, c, turns) :
              Steps(call, first, c, turns) = g[2 * Len(diagram.edges)]
<1>1. PICK m \in Nat : m = 2 * Len(diagram.edges)
  BY Shape
<1>2. PICK V : V = SUBSET Step
  OBVIOUS
<1>3. PICK base : base = {[edge |-> first, reverse |-> call.reverse]} /\ base \in V
  <2>1. [edge |-> first, reverse |-> call.reverse] \in Step
    BY DEF Step
  <2> QED
    BY <1>2, <2>1
<1>4. \A x \in V : Grow(call, c, turns, x) \in V
  BY <1>2 DEF Grow
<1> DEFINE Is(g) == g = [i \in 0..m |-> IF i = 0 THEN base
                                        ELSE Grow(call, c, turns, g[i - 1])]
           next == [i \in 1..m |-> [x \in V |-> Grow(call, c, turns, x)]]
<1>5. \E g : Is(g)
  <2>1. /\ next \in [1..m -> [V -> V]]
        /\ \A i \in 1..m : \A x \in V : next[i][x] = Grow(call, c, turns, x)
    BY <1>4
  <2> HIDE DEF next
  <2>2. PICK g : g \in Recursions(m, V, base, next)
    BY <1>3, <2>1, RecursionExists
  <2>3. /\ g \in [0..m -> V] /\ g[0] = base
        /\ \A i \in 1..m : g[i] = next[i][g[i - 1]]
    BY <2>2 DEF Recursions
  <2>4. ASSUME NEW i \in 0..m
        PROVE  g[i] = IF i = 0 THEN base ELSE Grow(call, c, turns, g[i - 1])
    <3>1. CASE i # 0
      <4>1. i \in 1..m /\ i - 1 \in 0..m
        BY <3>1
      <4>2. g[i - 1] \in V
        BY <2>3, <4>1
      <4> QED
        BY <2>1, <2>3, <3>1, <4>1, <4>2
    <3> QED
      BY <2>3, <3>1
  <2>5. Is(g)
    BY <2>3, <2>4
  <2> HIDE DEF Is
  <2> QED
    BY <2>5
<1>6. PICK g : Is(g) /\ Steps(call, first, c, turns) = g[m]
  <2>1. Steps(call, first, c, turns) = (CHOOSE g : Is(g))[m]
    BY <1>1, <1>3 DEF Steps
  <2> HIDE DEF Is
  <2> QED
    BY <1>5, <2>1
<1>7. g[0] = base /\ \A i \in 1..m : g[i] = Grow(call, c, turns, g[i - 1])
  <2>1. \A i \in 0..m : g[i] = IF i = 0 THEN base ELSE Grow(call, c, turns, g[i - 1])
    BY <1>6
  <2>2. \A i \in 1..m : i \in 0..m /\ i # 0
    OBVIOUS
  <2> QED
    BY <2>1, <2>2
<1> DEFINE T == {n \in Nat : n <= m => g[n] \in V}
<1>8. 0 \in T
  BY <1>3, <1>7
<1>9. ASSUME NEW n \in T
      PROVE  n + 1 \in T
  <2> SUFFICES ASSUME n + 1 <= m
               PROVE  g[n + 1] \in V
    OBVIOUS
  <2>1. n \in Nat /\ g[n] \in V /\ n + 1 \in 1..m /\ (n + 1) - 1 = n
    OBVIOUS
  <2> QED
    BY <1>4, <1>7, <2>1
<1> HIDE DEF T
<1>10. T = Nat
  <2>1. T \in SUBSET Nat
    BY DEF T
  <2> QED
    BY <1>8, <1>9, <2>1, Induction
<1>11. g \in [0..m -> V]
  <2>1. \A n \in 0..m : g[n] \in V
    BY <1>10 DEF T
  <2>2. g = [i \in 0..m |-> g[i]]
    BY <1>6
  <2> QED
    BY <2>1, <2>2
<1>12. g \in Turns(call, first, c, turns)
  BY <1>1, <1>2, <1>3, <1>7, <1>11 DEF Turns
<1> QED
  BY <1>1, <1>6, <1>12

(* The first step is one of the steps. *)
LEMMA StepsStart ==
    ASSUME WellFormed(diagram), NEW call, call.reverse \in BOOLEAN, NEW first \in Edges,
           NEW c, NEW turns
    PROVE  [edge |-> first, reverse |-> call.reverse] \in Steps(call, first, c, turns)
<1>1. PICK m \in Nat : m = 2 * Len(diagram.edges)
  BY Shape
<1>2. PICK g : g \in Turns(call, first, c, turns) /\ Steps(call, first, c, turns) = g[m]
  BY <1>1, StepsUnfold
<1>3. PICK start : start = [edge |-> first, reverse |-> call.reverse]
  OBVIOUS
<1>4. /\ g \in [0..m -> SUBSET Step] /\ start \in g[0]
      /\ \A i \in 1..m : g[i] = Grow(call, c, turns, g[i - 1])
  BY <1>1, <1>2, <1>3 DEF Turns
<1> DEFINE T == {n \in Nat : n <= m => start \in g[n]}
<1>5. 0 \in T
  BY <1>4
<1>6. ASSUME NEW n \in T
      PROVE  n + 1 \in T
  <2> SUFFICES ASSUME n + 1 <= m
               PROVE  start \in g[n + 1]
    OBVIOUS
  <2>1. n \in Nat /\ start \in g[n] /\ n + 1 \in 1..m /\ (n + 1) - 1 = n
    OBVIOUS
  <2>2. g[n + 1] = Grow(call, c, turns, g[n])
    BY <1>4, <2>1
  <2> QED
    BY <2>1, <2>2 DEF Grow
<1> HIDE DEF T
<1>7. T = Nat
  <2>1. T \in SUBSET Nat
    BY DEF T
  <2> QED
    BY <1>5, <1>6, <2>1, Induction
<1>8. start \in g[m] /\ m \in 0..m
  BY <1>7 DEF T
<1> QED
  BY <1>2, <1>3, <1>4, <1>8

(* The steps are steps. *)
LEMMA StepsAreSteps ==
    ASSUME WellFormed(diagram), NEW call, call.reverse \in BOOLEAN, NEW first \in Edges,
           NEW c, NEW turns
    PROVE  Steps(call, first, c, turns) \in SUBSET Step
<1>1. PICK m \in Nat : m = 2 * Len(diagram.edges)
  BY Shape
<1>2. PICK g \in [0..m -> SUBSET Step] : Steps(call, first, c, turns) = g[m]
  BY <1>1, StepsUnfold DEF Turns
<1>3. m \in 0..m
  OBVIOUS
<1> QED
  BY <1>2, <1>3

(* No step can be added to the steps: the recursion turns often enough.     *)
LEMMA StepsClosed ==
    ASSUME WellFormed(diagram), NEW call, call.reverse \in BOOLEAN, NEW first \in Edges,
           NEW c, NEW turns
    PROVE  Grow(call, c, turns, Steps(call, first, c, turns)) = Steps(call, first, c, turns)
<1>1. PICK m \in Nat : m = 2 * Len(diagram.edges)
  BY Shape
<1>2. PICK g : g \in Turns(call, first, c, turns) /\ Steps(call, first, c, turns) = g[m]
  BY <1>1, StepsUnfold
<1>3. PICK U : U = Step
  OBVIOUS
<1>4. IsFiniteSet(U) /\ Cardinality(U) <= m
  BY <1>1, <1>3, StepsAreFew
<1>5. /\ g \in [0..m -> SUBSET U] /\ g[0] # {}
      /\ \A i \in 1..m : g[i] = Grow(call, c, turns, g[i - 1])
  BY <1>1, <1>2, <1>3 DEF Turns
<1> DEFINE grow == [S \in SUBSET U |-> Grow(call, c, turns, S)]
<1>6. \A S \in SUBSET U : Grow(call, c, turns, S) \in SUBSET U /\ S \subseteq Grow(call, c, turns, S)
  BY <1>3 DEF Grow
<1>7. /\ grow \in [SUBSET U -> SUBSET U] /\ \A S \in SUBSET U : S \subseteq grow[S]
      /\ \A S \in SUBSET U : grow[S] = Grow(call, c, turns, S)
  BY <1>6
<1> HIDE DEF grow
<1>8. \A i \in 1..m : g[i] = grow[g[i - 1]]
  <2>1. ASSUME NEW i \in 1..m
        PROVE  g[i] = grow[g[i - 1]]
    <3>1. i - 1 \in 0..m
      OBVIOUS
    <3>2. g[i - 1] \in SUBSET U
      BY <1>5, <3>1
    <3> QED
      BY <1>5, <1>7, <3>2
  <2> QED
    BY <2>1
<1>9. grow[g[m]] = g[m]
  <2>1. Grows(grow, U) /\ Grown(g, m, U, grow)
    BY <1>5, <1>7, <1>8 DEF Grows, Grown
  <2> QED
    BY <1>4, <2>1, GrowthEnds
<1>10. g[m] \in SUBSET U
  <2>1. m \in 0..m
    OBVIOUS
  <2> QED
    BY <1>5, <2>1
<1> QED
  BY <1>2, <1>7, <1>9, <1>10

(* The steps are within every set that holds the first one and to which     *)
(* none can be added.                                                       *)
LEMMA StepsLeast ==
    ASSUME WellFormed(diagram), NEW call, call.reverse \in BOOLEAN, NEW first \in Edges,
           NEW c, NEW turns,
           NEW D \in SUBSET Step, [edge |-> first, reverse |-> call.reverse] \in D,
           Grow(call, c, turns, D) \subseteq D
    PROVE  Steps(call, first, c, turns) \subseteq D
<1>1. PICK m \in Nat : m = 2 * Len(diagram.edges)
  BY Shape
<1>2. PICK g : g \in Turns(call, first, c, turns) /\ Steps(call, first, c, turns) = g[m]
  BY <1>1, StepsUnfold
<1>3. /\ g \in [0..m -> SUBSET Step] /\ g[0] = {[edge |-> first, reverse |-> call.reverse]}
      /\ \A i \in 1..m : g[i] = Grow(call, c, turns, g[i - 1])
  BY <1>1, <1>2 DEF Turns
<1>4. ASSUME NEW S, S \subseteq D
      PROVE  Grow(call, c, turns, S) \subseteq D
  <2>1. Grow(call, c, turns, S) \subseteq S \union Grow(call, c, turns, D)
    BY <1>4 DEF Grow
  <2> QED
    BY <1>4, <2>1
<1> DEFINE T == {n \in Nat : n <= m => g[n] \subseteq D}
<1>5. 0 \in T
  BY <1>3
<1>6. ASSUME NEW n \in T
      PROVE  n + 1 \in T
  <2> SUFFICES ASSUME n + 1 <= m
               PROVE  g[n + 1] \subseteq D
    OBVIOUS
  <2>1. n \in Nat /\ g[n] \subseteq D /\ n + 1 \in 1..m /\ (n + 1) - 1 = n
    OBVIOUS
  <2>2. g[n + 1] = Grow(call, c, turns, g[n])
    BY <1>3, <2>1
  <2> QED
    BY <1>4, <2>1, <2>2
<1> HIDE DEF T
<1>7. T = Nat
  <2>1. T \in SUBSET Nat
    BY DEF T
  <2> QED
    BY <1>5, <1>6, <2>1, Induction
<1> QED
  BY <1>2, <1>7 DEF T

(* The job that is due is one of the jobs. *)
LEMMA CurrentIsDue ==
    ASSUME WellFormed(diagram), jobs \subseteq Jobs, jobs # {}
    PROVE  Current \in jobs
<1>1. \A e \in Edges : e \in Nat
  BY Shape
<1>2. \A job \in jobs : job.edge \in Nat /\ job.element \in Nat
  BY <1>1 DEF Jobs
<1>3. PICK T : T = {job.edge : job \in jobs}
  OBVIOUS
<1>3a. T \in SUBSET Nat /\ T # {}
  BY <1>2, <1>3
<1>4. PICK e \in T : \A f \in T : e <= f
  BY <1>3a, LeastElement
<1>5. PICK R : R = {job.element : job \in {job \in jobs : job.edge = e}}
  OBVIOUS
<1>5a. R \in SUBSET Nat /\ R # {}
  BY <1>2, <1>3, <1>5
<1>6. PICK c \in R : \A d \in R : c <= d
  BY <1>5a, LeastElement
<1>7. PICK least \in jobs : least.edge = e /\ least.element = c
  BY <1>5
<1>8. ASSUME NEW other \in jobs
      PROVE  NotAfter(least, other)
  <2>1. other.edge \in Nat /\ e \in Nat /\ e <= other.edge
    BY <1>2, <1>3, <1>3a, <1>4
  <2>2. other.edge = e => c <= other.element
    BY <1>5, <1>6
  <2> QED
    BY <1>7, <2>1, <2>2 DEF NotAfter
<1> QED
  BY <1>7, <1>8 DEF Current

-----------------------------------------------------------------------------
(* Statements *)

(* What a statement is made of. *)
LEMMA StatementShape ==
    ASSUME WellFormed(diagram), NEW i \in Statements, NEW s, s = diagram.statements[i]
    PROVE  /\ s.type \in {"channel", "pool", "tasks"}
           /\ s.type = "channel" => /\ s.sender = 0 \/ s.sender \in Nodes
                                    /\ s.receiver = 0 \/ s.receiver \in Nodes
           /\ s.type # "channel" =>
                 /\ s.tasks \in Seq(Nodes)
                 /\ s.inProtect \in Seq(Nodes) /\ s.inUnprotect \in Seq(Nodes)
                 /\ s.outProtect \in Seq(Nodes) /\ s.outUnprotect \in Seq(Nodes)
<1>1. PICK m \in Nat : m = Len(diagram.nodes) /\ Nodes = 1..m
  BY Shape
<1>2. PICK L : L = Seq(Nodes)
  OBVIOUS
<1>3. s \in ChannelsOf(diagram) \union ComputationsOf(diagram)
  BY Shape
<1>4. CASE s \in ChannelsOf(diagram)
  <2>1. s \in [type : {"channel"}, sender : 0..m, receiver : 0..m, permitted : SUBSET Nat]
    BY <1>1, <1>4 DEF ChannelsOf
  <2> QED
    BY <1>1, <2>1
<1>5. CASE s \in ComputationsOf(diagram)
  <2>1. s \in [type : {"pool", "tasks"}, tasks : L, inProtect : L, inUnprotect : L,
               outProtect : L, outUnprotect : L, without : SUBSET Nat]
    BY <1>2, <1>5 DEF ComputationsOf, Nodes
  <2> QED
    BY <1>2, <2>1
<1> QED
  BY <1>3, <1>4, <1>5

(* The members of a list of nodes are nodes. *)
LEMMA ListedNodes ==
    ASSUME NEW list \in Seq(Nodes)
    PROVE  ToSet(list) \in SUBSET Nodes
BY DEF ToSet

(* One call, with nodes for its start and its ends.                         *)
LEMMA CallType ==
    ASSUME NEW start \in Nodes, NEW reverse \in BOOLEAN, NEW ends \in SUBSET Nodes,
           NEW enforce \in BOOLEAN
    PROVE  Call(start, reverse, ends, enforce) \in CallRecords
BY DEF Call, CallRecords

(* The calls of a statement begin and end at nodes of the diagram.          *)
LEMMA CallsAreOfNodes ==
    ASSUME WellFormed(diagram), NEW i \in Statements, NEW s, s = diagram.statements[i],
           ~IsOpen(s)
    PROVE  CallsOf(s) \in Seq(CallRecords)
<1>1. PICK C : C = CallRecords
  OBVIOUS
<1>2. CASE s.type = "channel"
  <2>1. ChannelCalls(s) \in Seq(C)
    <3>1. CASE s.sender # 0
      <4>1. s.sender \in Nodes /\ {s.receiver} \ {0} \in SUBSET Nodes /\ (s.receiver # 0) \in BOOLEAN
        BY <1>2, <3>1, StatementShape
      <4>2. Call(s.sender, FALSE, {s.receiver} \ {0}, s.receiver # 0) \in C
        BY <1>1, <4>1, CallType
      <4>3. PICK x \in C : x = Call(s.sender, FALSE, {s.receiver} \ {0}, s.receiver # 0)
        BY <4>2
      <4>4. ChannelCalls(s) = <<x>>
        BY <3>1, <4>3 DEF ChannelCalls
      <4> QED
        BY <4>4, Single
    <3>2. CASE s.sender = 0
      <4>1. s.receiver \in Nodes
        BY <1>2, <3>2, StatementShape DEF IsOpen
      <4>2. Call(s.receiver, TRUE, {s.receiver}, FALSE) \in C
        BY <1>1, <4>1, CallType
      <4>3. PICK x \in C : x = Call(s.receiver, TRUE, {s.receiver}, FALSE)
        BY <4>2
      <4>4. ChannelCalls(s) = <<x>>
        BY <3>2, <4>3 DEF ChannelCalls
      <4> QED
        BY <4>4, Single
    <3> QED
      BY <3>1, <3>2
  <2> QED
    BY <1>1, <1>2, <2>1 DEF CallsOf
<1>3. CASE s.type = "pool"
  <2>1. /\ s.inProtect \in Seq(Nodes) /\ s.outProtect \in Seq(Nodes)
        /\ ToSet(s.inUnprotect) \in SUBSET Nodes /\ ToSet(s.outUnprotect) \in SUBSET Nodes
    BY <1>3, StatementShape, ListedNodes
  <2> DEFINE fromEach(nodes, ends) == [j \in DOMAIN nodes |-> Call(nodes[j], FALSE, ToSet(ends), TRUE)]
  <2>2. ASSUME NEW nodes \in Seq(Nodes), NEW ends, ToSet(ends) \in SUBSET Nodes
        PROVE  fromEach(nodes, ends) \in Seq(C)
    <3>1. Len(nodes) \in Nat /\ DOMAIN nodes = 1..Len(nodes) /\ \A j \in DOMAIN nodes : nodes[j] \in Nodes
      OBVIOUS
    <3>2. \A j \in DOMAIN nodes : Call(nodes[j], FALSE, ToSet(ends), TRUE) \in C
      BY <1>1, <2>2, <3>1, CallType
    <3>3. PICK f : f = fromEach(nodes, ends)
      OBVIOUS
    <3>4. DOMAIN f = DOMAIN nodes /\ f = [j \in DOMAIN f |-> f[j]] /\ \A j \in DOMAIN nodes : f[j] \in C
      BY <3>2, <3>3
    <3> HIDE DEF fromEach
    <3> QED
      BY <3>3, <3>4, Mapped
  <2>3. fromEach(s.inProtect, s.inUnprotect) \in Seq(C) /\ fromEach(s.outProtect, s.outUnprotect) \in Seq(C)
    BY <2>1, <2>2
  <2>4. PoolCalls(s) = fromEach(s.inProtect, s.inUnprotect) \o fromEach(s.outProtect, s.outUnprotect)
    BY DEF PoolCalls
  <2> HIDE DEF fromEach
  <2>5. PoolCalls(s) \in Seq(C)
    BY <2>3, <2>4
  <2> QED
    BY <1>1, <1>3, <2>5 DEF CallsOf
<1>4. CASE s.type = "tasks"
  <2>1. /\ s.tasks \in Seq(Nodes)
        /\ ToSet(s.inProtect) \in SUBSET Nodes /\ ToSet(s.outUnprotect) \in SUBSET Nodes
    BY <1>4, StatementShape, ListedNodes
  <2>2. PICK m \in Nat : m = Len(s.tasks) /\ \A j \in 1..m : s.tasks[j] \in Nodes
    BY <2>1
  <2> DEFINE of(j) == IF j % 2 = 1 THEN Call(s.tasks[(j + 1) \div 2], FALSE, ToSet(s.outUnprotect), TRUE)
                      ELSE Call(s.tasks[(j + 1) \div 2], TRUE, ToSet(s.inProtect), TRUE)
  <2>3. ASSUME NEW j \in 1..(2 * m)
        PROVE  of(j) \in C
    <3>1. (j + 1) \div 2 \in 1..m
      OBVIOUS
    <3>2. s.tasks[(j + 1) \div 2] \in Nodes
      BY <2>2, <3>1
    <3>3. PICK task \in Nodes : task = s.tasks[(j + 1) \div 2]
      BY <3>2
    <3>4. /\ Call(task, FALSE, ToSet(s.outUnprotect), TRUE) \in C
          /\ Call(task, TRUE, ToSet(s.inProtect), TRUE) \in C
      BY <1>1, <2>1, CallType
    <3> QED
      BY <3>3, <3>4
  <2>4. TaskCalls(s) = [j \in 1..(2 * m) |-> of(j)]
    BY <2>2 DEF TaskCalls
  <2> HIDE DEF of
  <2>5. TaskCalls(s) \in Seq(C)
    <3>1. 2 * m \in Nat
      OBVIOUS
    <3> QED
      BY <2>3, <2>4, <3>1
  <2> QED
    BY <1>1, <1>4, <2>5 DEF CallsOf
<1> QED
  BY <1>2, <1>3, <1>4, StatementShape

(* The checks of a statement make a list. *)
LEMMA ChecksAreListed ==
    ASSUME WellFormed(diagram), NEW i \in Statements, NEW s, s = diagram.statements[i]
    PROVE  DOMAIN ChecksOf(s) \in SUBSET Nat
<1>1. CASE s.type = "channel"
  <2>1. PICK V : V = {Check(s.sender, FALSE), Check(s.receiver, TRUE)}
    OBVIOUS
  <2>2. ASSUME NEW n, NEW r, Check(n, r) \in V
        PROVE  Known(n, r) \in Seq(V)
    <3>1. PICK x \in V : x = Check(n, r)
      BY <2>2
    <3>2. Known(n, r) = IF n = 0 THEN <<>> ELSE <<x>>
      BY <3>1 DEF Known
    <3>3. <<x>> \in Seq(V) /\ <<>> \in Seq(V)
      BY Single
    <3> QED
      BY <3>2, <3>3
  <2>3. ChecksOf(s) \in Seq(V)
    <3>1. Check(s.sender, FALSE) \in V /\ Check(s.receiver, TRUE) \in V
      BY <2>1
    <3>2. PICK f \in Seq(V) : f = Known(s.sender, FALSE)
      BY <2>2, <3>1
    <3>3. PICK g \in Seq(V) : g = Known(s.receiver, TRUE)
      BY <2>2, <3>1
    <3>4. ChecksOf(s) = f \o g
      BY <1>1, <3>2, <3>3 DEF ChecksOf, ChannelChecks
    <3> QED
      BY <3>4, ConcatMembers
  <2> QED
    BY <2>3
<1>2. CASE s.type # "channel"
  <2>1. s.inProtect \o s.outProtect \in Seq(Nodes) /\ s.inUnprotect \o s.outUnprotect \in Seq(Nodes)
    BY <1>2, StatementShape
  <2>2. PICK V : V = [node : Nodes, reverse : BOOLEAN]
    OBVIOUS
  <2>3. ASSUME NEW list \in Seq(Nodes), NEW r \in BOOLEAN
        PROVE  ForEach(list, r) \in Seq(V)
    <3>1. Len(list) \in Nat /\ DOMAIN list = 1..Len(list) /\ \A j \in DOMAIN list : list[j] \in Nodes
      OBVIOUS
    <3>2. \A j \in DOMAIN list : Check(list[j], r) \in V
      BY <2>2, <3>1 DEF Check
    <3>3. PICK f : f = ForEach(list, r)
      OBVIOUS
    <3>4. DOMAIN f = DOMAIN list /\ f = [j \in DOMAIN f |-> f[j]] /\ \A j \in DOMAIN list : f[j] \in V
      BY <3>2, <3>3 DEF ForEach
    <3> QED
      BY <3>3, <3>4, Mapped
  <2>4. ChecksOf(s) \in Seq(V)
    <3>1. /\ ForEach(s.inProtect \o s.outProtect, FALSE) \in Seq(V)
          /\ ForEach(s.inUnprotect \o s.outUnprotect, TRUE) \in Seq(V)
      BY <2>1, <2>3
    <3>2. PICK f \in Seq(V) : f = ForEach(s.inProtect \o s.outProtect, FALSE)
      BY <3>1
    <3>3. PICK g \in Seq(V) : g = ForEach(s.inUnprotect \o s.outUnprotect, TRUE)
      BY <3>1
    <3>4. ChecksOf(s) = f \o g
      BY <1>2, <3>2, <3>3 DEF ChecksOf, ComputationChecks
    <3> QED
      BY <3>4, ConcatMembers
  <2> QED
    BY <2>4
<1> QED
  BY <1>1, <1>2

-----------------------------------------------------------------------------
(* What flows carry *)

(* Flows carry data elements, and only data and message flows do; what      *)
(* comes to a node and leaves it passes through it.                         *)
LEMMA WhatFlowsCarry ==
    ASSUME WellFormed(diagram), TransportInv, phase # "transport"
    PROVE  /\ \A e \in Edges : carried[e] \in SUBSET Nat
           /\ \A e \in Edges, c \in Nat : c \in carried[e] => diagram.edges[e].flow \in {"data", "message"}
           /\ \A n \in Nodes, c \in Nat :
                 \A e \in Incoming(n), f \in Outgoing(n) :
                    c \in carried[e] /\ c \in carried[f] => c \in passed[n]
<1>1. carried = Carried /\ passed = Passed(carried)
  BY DEF TransportInv
<1>2. ASSUME NEW N, N \subseteq Nodes
      PROVE  Elements(N) \in SUBSET Nat
  BY <1>2, Shape DEF Elements
<1>3. ASSUME NEW e \in Edges
      PROVE  MessageData(e) \in SUBSET Nat
  <2>1. PICK N : N = {diagram.edges[d].from : d \in {d \in Incoming(diagram.edges[e].from) :
                                                       diagram.edges[d].flow = "data"}}
    OBVIOUS
  <2>2. N \subseteq Nodes
    BY <2>1, Shape DEF Incoming
  <2>3. MessageData(e) \subseteq Elements(N)
    BY <2>1 DEF MessageData
  <2> QED
    BY <1>2, <2>2, <2>3
<1>4. \A e \in Edges :
         carried[e] = CASE diagram.edges[e].flow = "data" -> {diagram.edges[e].element}
                        [] diagram.edges[e].flow = "message" -> MessageData(e)
                        [] OTHER -> {}
  BY <1>1 DEF Carried
<1>5. \A e \in Edges : carried[e] \in SUBSET Nat
  BY <1>3, <1>4, Shape
<1>6. \A e \in Edges, c \in Nat : c \in carried[e] => diagram.edges[e].flow \in {"data", "message"}
  BY <1>4
<1>7. ASSUME NEW n \in Nodes, NEW c \in Nat, NEW e \in Incoming(n), NEW f \in Outgoing(n),
             c \in carried[e], c \in carried[f]
      PROVE  c \in passed[n]
  <2>1. e \in Edges /\ diagram.edges[e].to = n /\ diagram.edges[e].flow # "sequence"
    BY <1>6, <1>7 DEF Incoming
  <2>2. diagram.nodes[n].kind # "Gateway"
    BY <2>1 DEF WellFormed, Edges
  <2>3. passed[n] = CarriedBy(Incoming(n), carried) \intersect CarriedBy(Outgoing(n), carried)
    BY <1>1, <2>2 DEF Passed
  <2>4. c \in CarriedBy(Incoming(n), carried) /\ c \in CarriedBy(Outgoing(n), carried)
    BY <1>7 DEF CarriedBy
  <2> QED
    BY <2>3, <2>4
<1> QED
  BY <1>5, <1>6, <1>7

(* The jobs of a call are first flows with data elements that they carry.   *)
LEMMA JobsAreJobs ==
    ASSUME WellFormed(diagram), TransportInv, phase # "transport", NEW s, NEW call,
           NEW job \in JobsOf(s, call)
    PROVE  /\ job \in Jobs /\ job.element \in carried[job.edge]
           /\ job.edge \in Flows(call.start, call.reverse)
<1>1. job.edge \in Flows(call.start, call.reverse) /\ job = [edge |-> job.edge, element |-> job.element]
      /\ job.element \in carried[job.edge]
  BY DEF JobsOf, Considering
<1>2. job.edge \in Edges
  BY <1>1 DEF Flows, Incoming, Outgoing
<1>3. job.element \in Nat
  BY <1>1, <1>2, WhatFlowsCarry
<1> QED
  BY <1>1, <1>2, <1>3 DEF Jobs

(* What is protected are nodes and flows. *)
Protectable == {"node", "flow"} \X (Nodes \union Edges)

(* So are those that an open statement protects.                            *)
LEMMA OpenProtects ==
    ASSUME NEW s
    PROVE  Everywhere(s) \in SUBSET Protectable
BY DEF Everywhere, Protectable

(* What flows carry depends on the diagram alone. *)
LEMMA CarriedStays ==
    ASSUME UNCHANGED diagram
    PROVE  Carried' = Carried /\ \A data : Passed(data)' = Passed(data)
BY DEF Carried, Passed, MessageData, Elements, Incoming, Outgoing, Nodes, Edges, CarriedBy

(* Once flows are known to carry data, all that is said of the diagram      *)
(* stays as it is.                                                          *)
LEMMA DiagramStays ==
    ASSUME UNCHANGED <<diagram, carried, passed>>
    PROVE  /\ Nodes' = Nodes /\ Edges' = Edges /\ Statements' = Statements /\ Step' = Step
           /\ CallRecords' = CallRecords /\ Jobs' = Jobs /\ Carried' = Carried
           /\ \A data : Passed(data)' = Passed(data)
           /\ \A t : Target(t)' = Target(t) /\ Source(t)' = Source(t)
           /\ \A n : IsData(n)' = IsData(n) /\ Hidden(n)' = Hidden(n)
           /\ \A n, r : Flows(n, r)' = Flows(n, r)
           /\ \A s, call : JobsOf(s, call)' = JobsOf(s, call)
           /\ \A call, first, c : /\ MaySteps(call, first, c)' = MaySteps(call, first, c)
                                  /\ SureSteps(call, first, c)' = SureSteps(call, first, c)
           /\ \A call, steps : ReachesEnd(call, steps)' = ReachesEnd(call, steps)
           /\ \A call, job : Reached(call, job)' = Reached(call, job)
<1>1. /\ Nodes' = Nodes /\ Edges' = Edges /\ Statements' = Statements
      /\ \A n, r : Flows(n, r)' = Flows(n, r)
  BY DEF Nodes, Edges, Statements, Flows, Incoming, Outgoing
<1>2. Step' = Step /\ CallRecords' = CallRecords /\ Jobs' = Jobs
  BY DEF Step, CallRecords, Jobs, Nodes, Edges
<1>3. Carried' = Carried /\ \A data : Passed(data)' = Passed(data)
  BY CarriedStays
<1>4. \A t : Target(t)' = Target(t) /\ Source(t)' = Source(t)
  BY DEF Target, Source
<1>5. \A n : IsData(n)' = IsData(n) /\ Hidden(n)' = Hidden(n)
  BY DEF IsData, Hidden, Statements
<1>6. \A s, call : JobsOf(s, call)' = JobsOf(s, call)
  BY DEF JobsOf, Considering, Flows, Incoming, Outgoing, Edges
<1>7. \A call, first, c : /\ MaySteps(call, first, c)' = MaySteps(call, first, c)
                          /\ SureSteps(call, first, c)' = SureSteps(call, first, c)
  BY DEF MaySteps, SureSteps, Steps, Grow, Step, MayTurn, SureTurn, Target, Flows, Incoming, Outgoing,
         IsData, Nodes, Edges
<1>8. \A call, steps : ReachesEnd(call, steps)' = ReachesEnd(call, steps)
  BY DEF ReachesEnd, Target
<1>9. \A call, job : Reached(call, job)' = Reached(call, job)
  BY DEF Reached, ReachesEnd, MaySteps, Steps, Grow, Step, MayTurn, Target, Flows, Incoming, Outgoing,
         IsData, Nodes, Edges
<1> QED
  BY <1>1, <1>2, <1>3, <1>4, <1>5, <1>6, <1>7, <1>8, <1>9

-----------------------------------------------------------------------------
(* The inductive invariant, part by part *)

(* What a statement protects, it protects from then on.                     *)
LEMMA ProtectAdds ==
    ASSUME protected \in [Statements -> SUBSET Protectable], NEW new \in SUBSET Protectable,
           Protect(new)
    PROVE  /\ protected' \in [Statements -> SUBSET Protectable]
           /\ at \in Statements => protected'[at] = protected[at] \union new
BY DEF Protect

(* The initial state satisfies the invariant. *)
LEMMA InitInv == Init => AnalysisInv
<1> SUFFICES ASSUME Init PROVE AnalysisInv
  OBVIOUS
<1> USE DEF Init
<1>1. WellFormed(diagram)
  BY DiagramsAreWellFormed
<1>2. Len(diagram.statements) \in Nat
  BY <1>1, Shape
<1>3. TypeOK
  BY <1>2 DEF TypeOK
<1>4. StateInv
  BY <1>1, <1>3 DEF StateInv
<1>5. TransportInv /\ AnsweredInv
  BY DEF TransportInv, AnsweredInv
<1>6. FollowedInv /\ ReachableInv /\ ProtectedInv
  BY DEF FollowedInv, ReachableInv, ProtectedInv
<1> QED
  BY <1>4, <1>5, <1>6 DEF AnalysisInv

(* What flows carry is computed in the first step and stays.                *)
LEMMA TransportStep ==
    ASSUME AnalysisInv, Next
    PROVE  TransportInv' /\ UNCHANGED diagram /\ WellFormed(diagram)' /\ phase' # "transport"
           /\ (phase # "transport" => UNCHANGED <<diagram, carried, passed>>)
<1> USE DEF AnalysisInv, StateInv, TypeOK, TransportInv
<1>1. CASE Transport
  <2>1. carried' = Carried /\ passed' = Passed(Carried) /\ phase' = "statement" /\ UNCHANGED diagram
    BY <1>1 DEF Transport
  <2>2. Carried' = Carried /\ \A data : Passed(data)' = Passed(data)
    BY <2>1, CarriedStays
  <2> QED
    BY <1>1, <2>1, <2>2 DEF Transport
<1>2. CASE ~Transport
  <2>1. UNCHANGED <<diagram, carried, passed>> /\ phase # "transport" /\ phase' # "transport"
    BY <1>2 DEF Next, ProtectEverywhere, CheckStatement, StartCall, StartPath, Traverse, EndPath, EndCall,
            NextStatement, EndAnalysis, Terminated, vars
  <2>2. Carried' = Carried /\ \A data : Passed(data)' = Passed(data)
    BY <2>1, DiagramStays
  <2> QED
    BY <2>1, <2>2
<1> QED
  BY <1>1, <1>2

(* The job that is due stays as long as the jobs do. *)
LEMMA CurrentStays ==
    ASSUME UNCHANGED jobs
    PROVE  Current' = Current
BY DEF Current, NotAfter

(* A step of the analysis leaves it in a state that it may be in.           *)
LEMMA StateStep ==
    ASSUME AnalysisInv, Next
    PROVE  StateInv'
<1> USE DEF AnalysisInv
<1>1. /\ TypeOK /\ WellFormed(diagram)
      /\ calls \in Seq(CallRecords) /\ jobs \subseteq Jobs
      /\ stack \in Seq(Step) /\ edgesVisited \subseteq Edges
      /\ phase = "statement" => calls = <<>>
      /\ phase \in {"job", "path"} => calls # <<>>
      /\ phase = "path" => jobs # {}
  BY DEF StateInv
<1>2. /\ phase \in {"transport", "statement", "call", "job", "path", "done", "rejected", "panic"}
      /\ at \in 1..(Len(diagram.statements) + 1)
      /\ stack # <<>> => phase = "path" /\ jobs # {} /\ calls # <<>>
      /\ visited \subseteq Nodes
      /\ phase = "path" => \A e \in edgesVisited : Current.element \in carried[e]
      /\ protected \in [Statements -> SUBSET Protectable]
      /\ paths \in [Statements -> SUBSET SUBSET Edges]
  BY <1>1 DEF TypeOK, Protectable
<1>3. UNCHANGED diagram /\ WellFormed(diagram)'
  BY TransportStep
<1>4. /\ Nodes' = Nodes /\ Edges' = Edges /\ Statements' = Statements /\ Step' = Step
      /\ CallRecords' = CallRecords /\ Jobs' = Jobs /\ Protectable' = Protectable
  BY <1>3 DEF Nodes, Edges, Statements, Step, CallRecords, Jobs, Protectable
<1>5. Len(diagram.statements) \in Nat /\ Statements = 1..Len(diagram.statements)
  BY <1>1, Shape
<1> DEFINE Goal ==
    /\ phase' \in {"transport", "statement", "call", "job", "path", "done", "rejected", "panic"}
    /\ at' \in 1..(Len(diagram.statements) + 1)
    /\ stack' # <<>> => phase' = "path" /\ jobs' # {} /\ calls' # <<>>
    /\ visited' \subseteq Nodes
    /\ phase' = "path" => \A e \in edgesVisited' : Current'.element \in carried'[e]
    /\ protected' \in [Statements -> SUBSET Protectable]
    /\ paths' \in [Statements -> SUBSET SUBSET Edges]
    /\ calls' \in Seq(CallRecords) /\ jobs' \subseteq Jobs
    /\ stack' \in Seq(Step) /\ edgesVisited' \subseteq Edges
    /\ phase' = "statement" => calls' = <<>>
    /\ phase' \in {"job", "path"} => calls' # <<>>
    /\ phase' = "path" => jobs' # {}
<1>6. SUFFICES Goal
  BY <1>3, <1>4 DEF StateInv, TypeOK, Protectable
<1>7. CASE Transport
  BY <1>1, <1>2, <1>7 DEF Transport, TransportInv
<1>8. CASE ProtectEverywhere
  <2>1. protected' \in [Statements -> SUBSET Protectable]
    BY <1>2, <1>8, OpenProtects, ProtectAdds DEF ProtectEverywhere
  <2> QED
    BY <1>1, <1>2, <1>5, <1>8, <2>1 DEF ProtectEverywhere
<1>9. CASE CheckStatement
  <2>1. calls' \in Seq(CallRecords)
    BY <1>1, <1>9, CallsAreOfNodes DEF CheckStatement, Statement
  <2>2. phase' \in {"panic", "rejected", "call"} /\ UNCHANGED <<at, jobs, stack, visited, edgesVisited, protected, paths>>
        /\ phase = "statement"
    BY <1>9 DEF CheckStatement
  <2> QED
    BY <1>1, <1>2, <2>1, <2>2
<1>10. CASE StartCall
  <2>1. Head(calls) \in CallRecords /\ phase = "call" /\ phase' \in {"panic", "job"} /\ calls # <<>>
        /\ UNCHANGED <<diagram, carried, passed, at, calls, stack, visited, edgesVisited, paths>>
    BY <1>1, <1>10, TailMembers DEF StartCall
  <2>2. protected' \in [Statements -> SUBSET Protectable]
    <3>1. CASE UNCHANGED protected
      BY <1>2, <3>1
    <3>2. CASE Protect({<<"node", n>> : n \in {Head(calls).start} \union Head(calls).ends})
      <4>1. {<<"node", n>> : n \in {Head(calls).start} \union Head(calls).ends} \in SUBSET Protectable
        BY <2>1 DEF CallRecords, Protectable
      <4> QED
        BY <1>2, <3>2, <4>1, ProtectAdds
    <3> QED
      BY <1>10, <3>1, <3>2 DEF StartCall
  <2>3. jobs' \subseteq Jobs
    <3>1. JobsOf(Statement, Head(calls)) \subseteq Jobs
      BY <1>1, <2>1, JobsAreJobs
    <3> QED
      BY <1>1, <1>10, <3>1 DEF StartCall
  <2> QED
    BY <1>1, <1>2, <2>1, <2>2, <2>3
<1>11. CASE StartPath
  <2>1. Head(calls) \in CallRecords /\ Current \in jobs /\ phase = "job" /\ phase' = "path" /\ calls # <<>>
        /\ jobs # {} /\ UNCHANGED <<diagram, carried, passed, at, calls, jobs, paths>>
        /\ visited' = {Head(calls).start} /\ edgesVisited' = {}
        /\ stack' = <<[edge |-> Current.edge, reverse |-> Head(calls).reverse]>>
    BY <1>1, <1>11, TailMembers, CurrentIsDue DEF StartPath
  <2>2. Current.edge \in Edges /\ Head(calls).start \in Nodes /\ Head(calls).reverse \in BOOLEAN
    BY <1>1, <2>1 DEF Jobs, CallRecords
  <2>3. protected' \in [Statements -> SUBSET Protectable]
    <3>1. {<<"flow", Current.edge>>} \in SUBSET Protectable
      BY <2>2 DEF Protectable
    <3> QED
      BY <1>2, <1>11, <3>1, ProtectAdds DEF StartPath
  <2>4. stack' \in Seq(Step)
    <3>1. [edge |-> Current.edge, reverse |-> Head(calls).reverse] \in Step
      BY <2>2 DEF Step
    <3> QED
      BY <2>1, <3>1
  <2> QED
    BY <1>1, <1>2, <2>1, <2>2, <2>3, <2>4
<1>12. CASE Traverse
  <2>1. PICK t \in Step : t = Head(stack)
    BY <1>1, <1>12, TailMembers DEF Traverse
  <2>2. PICK n \in Nodes : n = Target(t)
    BY <1>1, StepEnds
  <2>3. /\ phase = "path" /\ stack # <<>> /\ jobs # {} /\ calls # <<>> /\ t.edge \in Edges
        /\ UNCHANGED <<phase, diagram, carried, passed, at, calls, jobs, paths>> /\ Tail(stack) \in Seq(Step)
    BY <1>1, <1>2, <1>12, StepEnds, TailMembers DEF Traverse
  <2>4. Current' = Current
    BY <2>3, CurrentStays
  <2>5. CASE ~Carries(t.edge)
    <3>1. stack' = Tail(stack) /\ UNCHANGED <<visited, edgesVisited, protected>>
      BY <1>12, <2>1, <2>5 DEF Traverse
    <3> QED
      BY <1>1, <1>2, <2>3, <2>4, <3>1
  <2>6. CASE Carries(t.edge)
    <3> DEFINE others(reverse) ==
                   IF reverse \in Directions(n, t.reverse) THEN Flows(n, reverse) \ {t.edge} ELSE {}
    <3>1. /\ edgesVisited' = edgesVisited \union {t.edge} /\ visited' = visited \union {n}
          /\ \/ Protect({<<"flow", t.edge>>}) /\ stack' = Tail(stack)
             \/ /\ Protect({<<"flow", t.edge>>, <<"node", n>>})
                /\ stack' = Calling(others(TRUE), TRUE) \o Calling(others(FALSE), FALSE) \o Tail(stack)
      BY <1>12, <2>1, <2>2, <2>6 DEF Traverse, Visited
    <3>2. stack' \in Seq(Step)
      <4>1. others(TRUE) \in SUBSET Edges /\ others(FALSE) \in SUBSET Edges
        BY DEF Flows, Incoming, Outgoing
      <4> HIDE DEF others
      <4>2. PICK R, S \in SUBSET Edges : R = others(TRUE) /\ S = others(FALSE)
        BY <4>1
      <4>3. PICK top : top = Calling(R, TRUE) \o Calling(S, FALSE) \o Tail(stack)
        OBVIOUS
      <4>4. WellFormed(diagram) /\ Tail(stack) \in Seq(Step)
        BY <1>1, <2>3
      <4>5. top \in Seq(Step)
        BY <4>3, <4>4, StackGrows
      <4> QED
        BY <2>3, <3>1, <4>2, <4>3, <4>5
    <3>3. protected' \in [Statements -> SUBSET Protectable]
      <4>1. /\ {<<"flow", t.edge>>} \in SUBSET Protectable
            /\ {<<"flow", t.edge>>, <<"node", n>>} \in SUBSET Protectable
        BY <2>3 DEF Protectable
      <4> HIDE DEF others
      <4> QED
        BY <1>2, <3>1, <4>1, ProtectAdds
    <3>4. \A e \in edgesVisited' : Current'.element \in carried'[e]
      BY <1>2, <2>3, <2>4, <2>6, <3>1 DEF Carries
    <3> HIDE DEF others
    <3> QED
      BY <1>1, <1>2, <2>3, <3>1, <3>2, <3>3, <3>4
  <2> QED
    BY <2>5, <2>6
<1>13. CASE EndPath
  <2>1. /\ phase = "path" /\ phase' \in {"panic", "rejected", "job"}
        /\ stack = <<>> /\ jobs' \subseteq jobs
        /\ UNCHANGED <<diagram, carried, passed, at, calls, stack, visited, edgesVisited, protected>>
        /\ paths' \in {paths, [paths EXCEPT ![at] = @ \union {edgesVisited}]}
    BY <1>13 DEF EndPath
  <2>2. paths' \in [Statements -> SUBSET SUBSET Edges]
    BY <1>1, <1>2, <2>1
  <2> QED
    BY <1>1, <1>2, <2>1, <2>2
<1>14. CASE EndCall
  <2>1. Tail(calls) \in Seq(CallRecords)
    BY <1>1, <1>14, TailMembers DEF EndCall
  <2> QED
    BY <1>1, <1>2, <1>14, <2>1 DEF EndCall
<1>15. CASE NextStatement
  <2>1. at \in Statements
    BY <1>15 DEF NextStatement, AnsweredInv
  <2> QED
    BY <1>1, <1>2, <1>5, <1>15, <2>1 DEF NextStatement
<1>16. CASE EndAnalysis
  BY <1>1, <1>2, <1>16 DEF EndAnalysis
<1>17. CASE Terminated
  <2>1. UNCHANGED vars /\ phase \in {"done", "rejected", "panic"}
    BY <1>17 DEF Terminated
  <2> QED
    BY <1>1, <1>2, <2>1 DEF vars
<1> QED
  BY <1>7, <1>8, <1>9, <1>10, <1>11, <1>12, <1>13, <1>14, <1>15, <1>16, <1>17 DEF Next

-----------------------------------------------------------------------------
(* Following a path *)

(* The steps by which a path leaves the node n that it enters by t.         *)
Leaving(t, n) ==
    {u \in Step : u.reverse \in Directions(n, t.reverse) /\ u.edge \in Flows(n, u.reverse) \ {t.edge}}

(* The flows of n in one direction among them. *)
Others(t, n, reverse) ==
    IF reverse \in Directions(n, t.reverse) THEN Flows(n, reverse) \ {t.edge} ELSE {}

(* What protection_channel() makes of the step t to the node n: it returns  *)
(* if the data do not move along it, or if it arrives at an end or at a     *)
(* node on the path, and goes on otherwise.                                 *)
Skips(t) ==
    /\ ~Carries(t.edge)
    /\ UNCHANGED <<visited, edgesVisited, protected>> /\ ToSet(stack') = ToSet(Tail(stack))

Takes(t, n, more) ==
    /\ Carries(t.edge)
    /\ visited' = visited \union {n} /\ edgesVisited' = edgesVisited \union {t.edge}
    /\ {<<"flow", t.edge>>} \union protected[at] \subseteq protected'[at]
    /\ n \in visited \/ n \in Head(calls).ends \/ <<"node", n>> \in protected'[at]
    /\ ToSet(stack') = ToSet(Tail(stack)) \union more

(* The steps that are pushed are those by which the path leaves a node.     *)
LEMMA PushedSteps ==
    ASSUME WellFormed(diagram), NEW t \in Step, NEW n \in Nodes
    PROVE  /\ Others(t, n, TRUE) \in SUBSET Edges /\ Others(t, n, FALSE) \in SUBSET Edges
           /\ {[edge |-> e, reverse |-> TRUE] : e \in Others(t, n, TRUE)}
              \union {[edge |-> e, reverse |-> FALSE] : e \in Others(t, n, FALSE)} = Leaving(t, n)
<1>0. PICK R, S :
         /\ R = Others(t, n, TRUE) /\ S = Others(t, n, FALSE)
         /\ R = IF TRUE \in Directions(n, t.reverse) THEN Flows(n, TRUE) \ {t.edge} ELSE {}
         /\ S = IF FALSE \in Directions(n, t.reverse) THEN Flows(n, FALSE) \ {t.edge} ELSE {}
  BY DEF Others
<1>1. R \in SUBSET Edges /\ S \in SUBSET Edges
  BY <1>0 DEF Flows, Incoming, Outgoing
<1>2. ASSUME NEW u \in Leaving(t, n)
      PROVE  \/ u \in {[edge |-> e, reverse |-> TRUE] : e \in R}
             \/ u \in {[edge |-> e, reverse |-> FALSE] : e \in S}
  <2>1. /\ u \in Step /\ u.reverse \in Directions(n, t.reverse)
        /\ u.edge \in Flows(n, u.reverse) \ {t.edge}
    BY DEF Leaving
  <2>2. u.reverse \in BOOLEAN /\ u = [edge |-> u.edge, reverse |-> u.reverse]
    BY <2>1, StepEnds
  <2>3. CASE u.reverse = TRUE
    <3>1. u.edge \in R
      BY <1>0, <2>1, <2>3
    <3> QED
      BY <2>2, <2>3, <3>1
  <2>4. CASE u.reverse = FALSE
    <3>1. u.edge \in S
      BY <1>0, <2>1, <2>4
    <3> QED
      BY <2>2, <2>4, <3>1
  <2> QED
    BY <2>2, <2>3, <2>4
<1>3. ASSUME NEW e \in R
      PROVE  [edge |-> e, reverse |-> TRUE] \in Leaving(t, n)
  <2>1. [edge |-> e, reverse |-> TRUE] \in Step
    <3>1. e \in Edges /\ TRUE \in BOOLEAN
      BY <1>1
    <3> QED
      BY <3>1, BothWays
  <2>2. TRUE \in Directions(n, t.reverse) /\ e \in Flows(n, TRUE) \ {t.edge}
    BY <1>0
  <2> QED
    BY <2>1, <2>2 DEF Leaving
<1>4. ASSUME NEW e \in S
      PROVE  [edge |-> e, reverse |-> FALSE] \in Leaving(t, n)
  <2>1. [edge |-> e, reverse |-> FALSE] \in Step
    <3>1. e \in Edges /\ FALSE \in BOOLEAN
      BY <1>1
    <3> QED
      BY <3>1, BothWays
  <2>2. FALSE \in Directions(n, t.reverse) /\ e \in Flows(n, FALSE) \ {t.edge}
    BY <1>0
  <2> QED
    BY <2>1, <2>2 DEF Leaving
<1>5. {[edge |-> e, reverse |-> TRUE] : e \in R}
      \union {[edge |-> e, reverse |-> FALSE] : e \in S} = Leaving(t, n)
  BY <1>2, <1>3, <1>4
<1> QED
  BY <1>0, <1>1, <1>5

(* What one turn of the traversal does. *)
LEMMA TraverseStep ==
    ASSUME AnalysisInv, Traverse
    PROVE  /\ Head(stack) \in Step /\ Target(Head(stack)) \in Nodes
           /\ ToSet(stack) = {Head(stack)} \union ToSet(Tail(stack)) /\ ToSet(stack) \subseteq Step
           /\ UNCHANGED <<phase, diagram, carried, passed, at, calls, jobs, paths>>
           /\ phase = "path" /\ at \in Statements /\ Current' = Current /\ Head(calls) \in CallRecords
           /\ \/ Skips(Head(stack))
              \/ /\ Target(Head(stack)) \in visited \union Head(calls).ends
                 /\ Takes(Head(stack), Target(Head(stack)), {})
              \/ /\ Target(Head(stack)) \notin visited \union Head(calls).ends
                 /\ Takes(Head(stack), Target(Head(stack)), Leaving(Head(stack), Target(Head(stack))))
<1>1. /\ WellFormed(diagram) /\ calls \in Seq(CallRecords) /\ stack \in Seq(Step)
      /\ protected \in [Statements -> SUBSET Protectable] /\ (phase = "path" => calls # <<>>)
  BY DEF AnalysisInv, StateInv, TypeOK, Protectable
<1>2. phase = "path" /\ stack # <<>> /\ UNCHANGED <<phase, diagram, carried, passed, at, calls, jobs, paths>>
  BY DEF Traverse
<1>3. PICK t \in Step : t = Head(stack)
  BY <1>1, <1>2, TailMembers
<1>4. PICK n \in Nodes : n = Target(t)
  BY <1>1, StepEnds
<1>5. /\ Tail(stack) \in Seq(Step) /\ ToSet(stack) = {t} \union ToSet(Tail(stack))
      /\ ToSet(stack) \subseteq Step /\ t.edge \in Edges
  <2>1. ToSet(stack) \subseteq Step
    BY <1>1 DEF ToSet
  <2> QED
    BY <1>1, <1>2, <1>3, <2>1, TailMembers, StepEnds
<1>6. Head(calls) \in CallRecords /\ Current' = Current /\ at \in Statements
  <2>1. at \in Statements
    BY <1>2 DEF AnalysisInv, AnsweredInv
  <2> QED
    BY <1>1, <1>2, <2>1, TailMembers, CurrentStays
<1>7. PICK R, S : R = Others(t, n, TRUE) /\ S = Others(t, n, FALSE)
  OBVIOUS
<1>8. \/ /\ ~Carries(t.edge)
         /\ stack' = Tail(stack) /\ UNCHANGED <<visited, edgesVisited, protected>>
      \/ /\ Carries(t.edge) /\ n \in visited \union Head(calls).ends
         /\ edgesVisited' = edgesVisited \union {t.edge} /\ visited' = visited \union {n}
         /\ Protect({<<"flow", t.edge>>}) /\ stack' = Tail(stack)
      \/ /\ Carries(t.edge) /\ n \notin visited \union Head(calls).ends
         /\ edgesVisited' = edgesVisited \union {t.edge} /\ visited' = visited \union {n}
         /\ Protect({<<"flow", t.edge>>, <<"node", n>>})
         /\ stack' = Calling(R, TRUE) \o Calling(S, FALSE) \o Tail(stack)
  BY <1>3, <1>4, <1>7 DEF Traverse, Visited, Others
<1>9. {<<"flow", t.edge>>} \in SUBSET Protectable /\ {<<"flow", t.edge>>, <<"node", n>>} \in SUBSET Protectable
  BY <1>5 DEF Protectable
<1>10. CASE ~Carries(t.edge)
  BY <1>2, <1>3, <1>4, <1>5, <1>6, <1>8, <1>10 DEF Skips
<1>11. CASE Carries(t.edge) /\ n \in visited \union Head(calls).ends
  <2>1. protected'[at] = protected[at] \union {<<"flow", t.edge>>}
    BY <1>1, <1>6, <1>8, <1>9, <1>11, ProtectAdds
  <2>2. Takes(t, n, {})
    BY <1>8, <1>11, <2>1 DEF Takes
  <2> QED
    BY <1>2, <1>3, <1>4, <1>5, <1>6, <1>11, <2>2
<1>12. CASE Carries(t.edge) /\ n \notin visited \union Head(calls).ends
  <2>1. protected'[at] = protected[at] \union {<<"flow", t.edge>>, <<"node", n>>}
    BY <1>1, <1>6, <1>8, <1>9, <1>12, ProtectAdds
  <2>2. ToSet(stack') = Leaving(t, n) \union ToSet(Tail(stack))
    <3>1. R \in SUBSET Edges /\ S \in SUBSET Edges
          /\ {[edge |-> e, reverse |-> TRUE] : e \in R}
             \union {[edge |-> e, reverse |-> FALSE] : e \in S} = Leaving(t, n)
      BY <1>1, <1>7, PushedSteps
    <3>2. PICK top : top = Calling(R, TRUE) \o Calling(S, FALSE) \o Tail(stack)
      OBVIOUS
    <3>3. WellFormed(diagram) /\ Tail(stack) \in Seq(Step) /\ R \in SUBSET Edges /\ S \in SUBSET Edges
      BY <1>1, <1>5, <3>1
    <3>4. IsStackOf(top, R, S, Tail(stack))
      BY <3>2, <3>3, StackGrows
    <3> QED
      BY <1>8, <1>12, <3>1, <3>2, <3>4 DEF IsStackOf
  <2>3. Takes(t, n, Leaving(t, n))
    BY <1>8, <1>12, <2>1, <2>2 DEF Takes
  <2> QED
    BY <1>2, <1>3, <1>4, <1>5, <1>6, <1>12, <2>3
<1> QED
  BY <1>10, <1>11, <1>12

(* How a path goes on from a node depends on the diagram and on the data.   *)
LEMMA DirectionsStay ==
    ASSUME UNCHANGED <<diagram, passed, jobs>>
    PROVE  \A n, r : Directions(n, r)' = Directions(n, r)
<1>1. Current' = Current /\ \A n : IsData(n)' = IsData(n)
  BY CurrentStays DEF IsData
<1> QED
  BY <1>1 DEF Directions

(* A path is begun with one step, from the node that the call starts at.    *)
LEMMA PathStarts ==
    ASSUME AnalysisInv, StartPath
    PROVE  /\ WellFormed(diagram) /\ Current \in jobs /\ Current' = Current /\ at \in Statements
           /\ UNCHANGED <<diagram, carried, passed, at, calls, jobs, paths>>
           /\ phase = "job" /\ phase' = "path" /\ Head(calls) \in CallRecords
           /\ Current.edge \in Edges /\ Current.element \in Nat
           /\ [edge |-> Current.edge, reverse |-> Head(calls).reverse] \in Step
           /\ Source([edge |-> Current.edge, reverse |-> Head(calls).reverse]) = Head(calls).start
           /\ ToSet(stack') = {[edge |-> Current.edge, reverse |-> Head(calls).reverse]}
           /\ visited' = {Head(calls).start} /\ edgesVisited' = {}
           /\ protected[at] \subseteq protected'[at]
<1>1. /\ WellFormed(diagram) /\ calls \in Seq(CallRecords) /\ jobs \subseteq Jobs
      /\ protected \in [Statements -> SUBSET Protectable] /\ (phase = "job" => calls # <<>>)
  BY DEF AnalysisInv, StateInv, TypeOK, Protectable
<1>2. /\ phase = "job" /\ phase' = "path" /\ jobs # {} /\ Protect({<<"flow", Current.edge>>})
      /\ visited' = {Head(calls).start} /\ edgesVisited' = {}
      /\ stack' = <<[edge |-> Current.edge, reverse |-> Head(calls).reverse]>>
      /\ UNCHANGED <<diagram, carried, passed, at, calls, jobs, paths>>
  BY DEF StartPath
<1>3. at \in Statements /\ jobs \subseteq JobsOf(Statement, Head(calls)) /\ TransportInv
  BY <1>2 DEF AnalysisInv, AnsweredInv
<1>4. /\ Current \in jobs /\ Current' = Current /\ Current.edge \in Edges /\ Current.element \in Nat
      /\ Head(calls) \in CallRecords /\ Head(calls).reverse \in BOOLEAN
  <2>1. Current \in jobs /\ Current' = Current
    BY <1>1, <1>2, CurrentIsDue, CurrentStays
  <2>2. Head(calls) \in CallRecords
    BY <1>1, <1>2, TailMembers
  <2> QED
    BY <1>1, <2>1, <2>2 DEF Jobs, CallRecords
<1>5. Current.edge \in Flows(Head(calls).start, Head(calls).reverse)
  BY <1>1, <1>2, <1>3, <1>4, JobsAreJobs
<1>6. PICK t \in Step : /\ t = [edge |-> Current.edge, reverse |-> Head(calls).reverse]
                        /\ Source(t) = Head(calls).start
  BY <1>4, <1>5, FlowsAreSteps
<1>7. ToSet(stack') = {t}
  BY <1>2, <1>6, Single
<1>8. protected[at] \subseteq protected'[at]
  <2>1. {<<"flow", Current.edge>>} \in SUBSET Protectable
    BY <1>4 DEF Protectable
  <2> QED
    BY <1>1, <1>2, <1>3, <2>1, ProtectAdds
<1> QED
  BY <1>1, <1>2, <1>3, <1>4, <1>6, <1>7, <1>8

(* A path is followed only by its first step and by turns of the traversal. *)
LEMMA PathSteps ==
    ASSUME Next, phase' = "path"
    PROVE  StartPath \/ Traverse
BY DEF Next, Transport, ProtectEverywhere, CheckStatement, StartCall, EndPath, EndCall, NextStatement,
       EndAnalysis, Terminated, vars

(* Nothing is forgotten: every step keeps FollowedInv.                      *)
LEMMA FollowedStep ==
    ASSUME AnalysisInv, Next
    PROVE  FollowedInv'
<1>1. CASE phase' # "path"
  BY <1>1 DEF FollowedInv
<1>2. CASE StartPath
  <2>1. PICK t \in Step, call \in CallRecords :
          /\ t = [edge |-> Current.edge, reverse |-> Head(calls).reverse] /\ call = Head(calls)
          /\ Source(t) = call.start /\ ToSet(stack') = {t} /\ visited' = {call.start} /\ edgesVisited' = {}
          /\ Head(calls') = call /\ Current' = Current
    BY <1>2, PathStarts
  <2>2. Source(t)' = Source(t)
    BY <1>2, PathStarts, DiagramStays
  <2>3. /\ call.start \in visited'
        /\ [edge |-> Current'.edge, reverse |-> call.reverse] \in ToSet(stack')
        /\ \A u \in ToSet(stack') : Source(u)' \in visited'
        /\ \A n \in visited' \ (call.ends \union {call.start}) : LeftFrom(n)'
    BY <2>1, <2>2
  <2> QED
    BY <2>1, <2>3 DEF FollowedInv
<1>3. CASE Traverse
  <2> DEFINE t == Head(stack)
             n == Target(t)
             call == Head(calls)
             rest == ToSet(Tail(stack))
  <2>1. /\ t \in Step /\ n \in Nodes /\ ToSet(stack) = {t} \union rest /\ ToSet(stack) \subseteq Step
        /\ UNCHANGED <<phase, diagram, carried, passed, at, calls, jobs, paths>>
        /\ phase = "path" /\ at \in Statements /\ Current' = Current /\ call \in CallRecords
        /\ \/ Skips(t)
           \/ n \in visited \union call.ends /\ Takes(t, n, {})
           \/ n \notin visited \union call.ends /\ Takes(t, n, Leaving(t, n))
    BY <1>3, TraverseStep
  <2>2. /\ call.start \in visited
        /\ \/ Current.edge \in edgesVisited
           \/ [edge |-> Current.edge, reverse |-> call.reverse] \in ToSet(stack)
        /\ \A u \in ToSet(stack) : Source(u) \in visited
        /\ \A e \in edgesVisited : {diagram.edges[e].from, diagram.edges[e].to} \subseteq visited
        /\ \A m \in visited \ (call.ends \union {call.start}) : LeftFrom(m)
    BY <2>1 DEF AnalysisInv, FollowedInv
  <2>3. /\ WellFormed(diagram) /\ TransportInv /\ phase # "transport" /\ jobs # {} /\ jobs \subseteq Jobs
        /\ edgesVisited \subseteq Edges
    BY <2>1 DEF AnalysisInv, StateInv
  <2>4. /\ Current.element \in Nat /\ Current.element \in carried[Current.edge] /\ Current.edge \in Edges
    <3>1. Current \in jobs
      BY <2>3, CurrentIsDue
    <3>2. Current \in JobsOf(Statement, call)
      BY <2>1, <3>1 DEF AnalysisInv, AnsweredInv
    <3> QED
      BY <2>3, <3>1, <3>2, JobsAreJobs DEF Jobs
  <2>5. /\ \A u : Source(u)' = Source(u) /\ \A m, r : Flows(m, r)' = Flows(m, r)
        /\ \A m, r : Directions(m, r)' = Directions(m, r)
    BY <2>1, DiagramStays, DirectionsStay
  <2>6. /\ t.edge \in Edges /\ t = [edge |-> t.edge, reverse |-> t.reverse] /\ t.reverse \in BOOLEAN
        /\ {Source(t), n} = {diagram.edges[t.edge].from, diagram.edges[t.edge].to}
    BY <2>1, <2>3, StepEnds
  <2>7. \A e \in Edges : Current.element \in carried[e] => diagram.edges[e].flow \in {"data", "message"}
    BY <2>3, <2>4, WhatFlowsCarry
  <2>8. visited \subseteq visited' /\ edgesVisited \subseteq edgesVisited' /\ rest \subseteq ToSet(stack')
    BY <2>1 DEF Skips, Takes
  <2>9. ASSUME NEW e \in Edges, NEW r, Current.element \in carried[e],
               e \in edgesVisited \/ [edge |-> e, reverse |-> r] \in ToSet(stack)
        PROVE  e \in edgesVisited' \/ [edge |-> e, reverse |-> r] \in ToSet(stack')
    <3>1. CASE e \in edgesVisited \/ [edge |-> e, reverse |-> r] \in rest
      BY <2>8, <3>1
    <3>2. CASE [edge |-> e, reverse |-> r] = t
      <4>1. t.edge = e
        BY <3>2
      <4>2. Carries(t.edge)
        BY <2>7, <2>9, <4>1 DEF Carries
      <4> QED
        BY <2>1, <4>1, <4>2 DEF Skips, Takes
    <3> QED
      BY <2>1, <2>9, <3>1, <3>2
  <2>10. call.start \in visited'
    BY <2>2, <2>8
  <2>11. \/ Current.edge \in edgesVisited'
         \/ [edge |-> Current.edge, reverse |-> call.reverse] \in ToSet(stack')
    BY <2>2, <2>4, <2>9
  <2>12. \A u \in ToSet(stack') : Source(u) \in visited'
    <3>1. \A u \in rest : Source(u) \in visited'
      BY <2>1, <2>2, <2>8
    <3>2. ASSUME Takes(t, n, Leaving(t, n)), NEW u \in Leaving(t, n)
          PROVE  Source(u) \in visited'
      <4>1. u \in Step /\ u.edge \in Flows(n, u.reverse)
        BY <3>2 DEF Leaving
      <4>2. Source(u) = n
        BY <4>1 DEF Flows, Incoming, Outgoing, Source
      <4> QED
        BY <3>2, <4>2 DEF Takes
    <3> QED
      BY <2>1, <3>1, <3>2 DEF Skips, Takes
  <2>13. \A e \in edgesVisited' : {diagram.edges[e].from, diagram.edges[e].to} \subseteq visited'
    <3>1. Source(t) \in visited
      BY <2>1, <2>2
    <3>2. ASSUME NEW e \in edgesVisited', e \notin edgesVisited
          PROVE  {diagram.edges[e].from, diagram.edges[e].to} \subseteq visited'
      <4>1. e = t.edge /\ n \in visited'
        BY <2>1, <3>2 DEF Skips, Takes
      <4> QED
        BY <2>6, <2>8, <3>1, <4>1
    <3> QED
      BY <2>2, <2>8, <3>2
  <2>14. ASSUME NEW m \in visited' \ (call.ends \union {call.start})
         PROVE  LeftFrom(m)'
    <3>1. CASE m \in visited
      <4>1. PICK reverse \in BOOLEAN : \A r \in Directions(m, reverse) : \A e \in Flows(m, r) :
               Current.element \in carried[e] =>
                  e \in edgesVisited \/ [edge |-> e, reverse |-> r] \in ToSet(stack)
        BY <2>2, <2>14, <3>1 DEF LeftFrom
      <4>2. \A r \in Directions(m, reverse) : \A e \in Flows(m, r) : e \in Edges
        BY DEF Flows, Incoming, Outgoing
      <4>3. \A r \in Directions(m, reverse) : \A e \in Flows(m, r) :
               Current.element \in carried[e] =>
                  e \in edgesVisited' \/ [edge |-> e, reverse |-> r] \in ToSet(stack')
        BY <2>9, <4>1, <4>2
      <4> QED
        BY <2>1, <2>5, <4>3 DEF LeftFrom
    <3>2. CASE m \notin visited
      <4>1. m = n /\ Takes(t, n, Leaving(t, n))
        BY <2>1, <2>14, <3>2 DEF Skips, Takes
      <4>2. ASSUME NEW r \in Directions(m, t.reverse), NEW e \in Flows(m, r), e # t.edge
            PROVE  [edge |-> e, reverse |-> r] \in ToSet(stack')
        <5>1. r \in BOOLEAN
          BY DEF Directions
        <5>2. PICK u \in Step : u = [edge |-> e, reverse |-> r]
          BY <5>1, FlowsAreSteps
        <5>3. u \in Leaving(t, n)
          BY <4>1, <4>2, <5>2 DEF Leaving
        <5> QED
          BY <4>1, <5>2, <5>3 DEF Takes
      <4>3. \A r \in Directions(m, t.reverse) : \A e \in Flows(m, r) :
               e \in edgesVisited' \/ [edge |-> e, reverse |-> r] \in ToSet(stack')
        BY <4>1, <4>2 DEF Takes
      <4> QED
        BY <2>1, <2>5, <2>6, <4>3 DEF LeftFrom
    <3> QED
      BY <3>1, <3>2
  <2>15. call' = call
    BY <2>1
  <2> HIDE DEF t, n, call, rest
  <2> QED
    BY <2>1, <2>5, <2>10, <2>11, <2>12, <2>13, <2>14, <2>15 DEF FollowedInv, call
<1> QED
  BY <1>1, <1>2, <1>3, PathSteps

(* The steps along which data may move are closed under the turns that a    *)
(* path takes.                                                              *)
LEMMA MayStepsGrow ==
    ASSUME WellFormed(diagram), NEW call \in CallRecords, NEW first \in Edges, NEW c,
           c = Current.element,
           NEW t \in MaySteps(call, first, c), Target(t) \notin call.ends \union {call.start},
           NEW u \in Leaving(t, Target(t)), c \in carried[u.edge]
    PROVE  u \in MaySteps(call, first, c)
<1>1. PICK S : S = MaySteps(call, first, c)
  OBVIOUS
<1>2. call.reverse \in BOOLEAN
  BY DEF CallRecords
<1>3. S = Grow(call, c, MayTurn(c), S) /\ S \subseteq Step
  <2>1. PICK turns : turns = MayTurn(c)
    OBVIOUS
  <2>2. S = Steps(call, first, c, turns)
    BY <1>1, <2>1 DEF MaySteps
  <2>3. S = Grow(call, c, turns, S)
    BY <1>2, <2>2, StepsClosed
  <2>4. Steps(call, first, c, turns) \in SUBSET Step
    BY <1>2, StepsAreSteps
  <2> QED
    BY <2>1, <2>2, <2>3, <2>4
<1>4. PICK n \in Nodes : n = Target(t)
  BY <1>1, <1>3, StepEnds
<1>5. /\ u \in Step /\ u.reverse \in Directions(n, t.reverse) /\ u.edge \in Flows(n, u.reverse) \ {t.edge}
      /\ t.reverse \in BOOLEAN
  BY <1>1, <1>3, <1>4, StepEnds DEF Leaving
<1>6. u.reverse \in MayTurn(c)[n][t.reverse]
  <2>1. MayTurn(c)[n][t.reverse] = IF IsData(n) \/ (t.reverse /\ c \in passed[n]) THEN BOOLEAN
                                   ELSE IF t.reverse THEN {} ELSE {FALSE}
    BY <1>5 DEF MayTurn
  <2> QED
    BY <1>5, <2>1 DEF Directions
<1>7. u \in Grow(call, c, MayTurn(c), S)
  BY <1>1, <1>4, <1>5, <1>6 DEF Grow
<1> QED
  BY <1>1, <1>3, <1>7

(* Nothing is invented: every step keeps ReachableInv.                      *)
LEMMA ReachableStep ==
    ASSUME AnalysisInv, Next
    PROVE  ReachableInv'
<1>1. CASE phase' # "path"
  BY <1>1 DEF ReachableInv
<1>2. CASE StartPath
  <2>1. PICK t \in Step, call \in CallRecords :
          /\ t = [edge |-> Current.edge, reverse |-> Head(calls).reverse] /\ call = Head(calls)
          /\ ToSet(stack') = {t} /\ visited' = {call.start} /\ edgesVisited' = {}
          /\ Head(calls') = call /\ Current' = Current
    BY <1>2, PathStarts
  <2>2. PICK may : may = MaySteps(call, Current.edge, Current.element)
    OBVIOUS
  <2>3. t \in may
    <3>1. call.reverse \in BOOLEAN
      BY DEF CallRecords
    <3> QED
      BY <1>2, <2>1, <2>2, <3>1, PathStarts, StepsStart DEF MaySteps
  <2>4. MaySteps(call, Current.edge, Current.element)' = may
    BY <1>2, <2>1, <2>2, PathStarts, DiagramStays
  <2> QED
    BY <2>1, <2>3, <2>4 DEF ReachableInv
<1>3. CASE Traverse
  <2>1. PICK t \in Step, n \in Nodes, call \in CallRecords : t = Head(stack) /\ n = Target(t) /\ call = Head(calls)
    BY <1>3, TraverseStep
  <2>2. PICK rest : rest = ToSet(Tail(stack))
    OBVIOUS
  <2>3. /\ ToSet(stack) = {t} \union rest
        /\ UNCHANGED <<phase, diagram, carried, passed, at, calls, jobs, paths>>
        /\ phase = "path" /\ Current' = Current
        /\ \/ Skips(t)
           \/ n \in visited \union call.ends /\ Takes(t, n, {})
           \/ n \notin visited \union call.ends /\ Takes(t, n, Leaving(t, n))
    BY <1>3, <2>1, <2>2, TraverseStep
  <2>4. PICK may, c, first : may = MaySteps(call, first, c) /\ c = Current.element /\ first = Current.edge
    OBVIOUS
  <2>5. /\ \A u \in ToSet(stack) : c \in carried[u.edge] => u \in may
        /\ edgesVisited \subseteq EdgesOf(may)
        /\ \A m \in visited \ {call.start} : \E u \in may : Target(u) = m
    BY <2>1, <2>3, <2>4 DEF AnalysisInv, ReachableInv
  <2>6. call.start \in visited
    BY <2>1, <2>3 DEF AnalysisInv, FollowedInv
  <2>7. WellFormed(diagram) /\ first \in Edges
    <3>1. WellFormed(diagram) /\ Current \in jobs /\ jobs \subseteq Jobs
      BY <2>3, CurrentIsDue DEF AnalysisInv, StateInv
    <3> QED
      BY <2>4, <3>1 DEF Jobs
  <2>8. Carries(t.edge) => t \in may
    BY <2>3, <2>4, <2>5 DEF Carries
  <2>9. ASSUME NEW u \in ToSet(stack'), c \in carried[u.edge]
        PROVE  u \in may
    <3>1. CASE u \in rest
      BY <2>3, <2>5, <2>9, <3>1
    <3>2. CASE u \notin rest
      <4>1. n \notin visited \union call.ends /\ u \in Leaving(t, n) /\ t \in may
        BY <2>2, <2>3, <2>8, <2>9, <3>2 DEF Skips, Takes
      <4>2. Target(t) \notin call.ends \union {call.start}
        BY <2>1, <2>6, <4>1
      <4> QED
        BY <2>1, <2>4, <2>7, <2>9, <4>1, <4>2, MayStepsGrow
    <3> QED
      BY <3>1, <3>2
  <2>10. edgesVisited' \subseteq EdgesOf(may)
    BY <2>3, <2>5, <2>8 DEF Skips, Takes, EdgesOf
  <2>11. ASSUME NEW m \in visited' \ {call.start}
         PROVE  \E u \in may : Target(u) = m
    BY <2>1, <2>3, <2>5, <2>8, <2>11 DEF Skips, Takes
  <2>12. MaySteps(call, first, c)' = may /\ \A u : Target(u)' = Target(u)
    BY <2>3, <2>4, DiagramStays
  <2>13. Head(calls') = call /\ carried' = carried
    BY <2>1, <2>3
  <2> QED
    BY <2>3, <2>4, <2>9, <2>10, <2>11, <2>12, <2>13 DEF ReachableInv, EdgesOf
<1> QED
  BY <1>1, <1>2, <1>3, PathSteps

(* What is visited is protected: every step keeps ProtectedInv.             *)
LEMMA ProtectedStep ==
    ASSUME AnalysisInv, Next
    PROVE  ProtectedInv'
<1>1. CASE StartPath
  <2>1. /\ visited' = {Head(calls).start} /\ edgesVisited' = {} /\ protected[at] \subseteq protected'[at]
        /\ UNCHANGED <<at, calls>> /\ phase = "job"
    BY <1>1, PathStarts
  <2>2. \A n \in {Head(calls).start} \union Head(calls).ends : <<"node", n>> \in protected[at]
    BY <2>1 DEF AnalysisInv, ProtectedInv
  <2> QED
    BY <2>1, <2>2 DEF ProtectedInv
<1>2. CASE Traverse
  <2>1. PICK t \in Step, n \in Nodes, call \in CallRecords : t = Head(stack) /\ n = Target(t) /\ call = Head(calls)
    BY <1>2, TraverseStep
  <2>2. /\ UNCHANGED <<phase, at, calls>> /\ phase = "path"
        /\ Skips(t) \/ \E more : Takes(t, n, more)
    BY <1>2, <2>1, TraverseStep
  <2>3. /\ \A m \in {call.start} \union call.ends \union visited : <<"node", m>> \in protected[at]
        /\ \A e \in edgesVisited : <<"flow", e>> \in protected[at]
    BY <2>1, <2>2 DEF AnalysisInv, ProtectedInv
  <2>4. CASE Skips(t)
    BY <2>1, <2>2, <2>3, <2>4 DEF Skips, ProtectedInv
  <2>5. CASE \E more : Takes(t, n, more)
    <3>1. /\ visited' = visited \union {n} /\ edgesVisited' = edgesVisited \union {t.edge}
          /\ {<<"flow", t.edge>>} \union protected[at] \subseteq protected'[at]
          /\ n \in visited \/ n \in call.ends \/ <<"node", n>> \in protected'[at]
      BY <2>1, <2>5 DEF Takes
    <3>2. Head(calls') = call /\ at' = at
      BY <2>1, <2>2
    <3> QED
      BY <2>3, <3>1, <3>2 DEF ProtectedInv
  <2> QED
    BY <2>2, <2>4, <2>5
<1>3. CASE StartCall /\ phase' = "job"
  <2>1. PICK N : N = {Head(calls).start} \union Head(calls).ends
    OBVIOUS
  <2>2. Protect({<<"node", n>> : n \in N}) /\ UNCHANGED <<at, calls>> /\ phase = "call"
    BY <1>3, <2>1 DEF StartCall
  <2>3. at \in Statements /\ protected \in [Statements -> SUBSET Protectable]
    BY <2>2 DEF AnalysisInv, AnsweredInv, StateInv, TypeOK, Protectable
  <2>4. protected'[at] = protected[at] \union {<<"node", n>> : n \in N}
    BY <2>2, <2>3 DEF Protect
  <2> QED
    BY <1>3, <2>1, <2>2, <2>4 DEF ProtectedInv
<1>4. CASE EndPath /\ phase' = "job"
  <2>1. phase = "path" /\ UNCHANGED <<at, calls, protected>>
    BY <1>4 DEF EndPath
  <2> QED
    BY <1>4, <2>1 DEF AnalysisInv, ProtectedInv
<1>5. CASE phase' \notin {"job", "path"}
  BY <1>5 DEF ProtectedInv
<1> QED
  <2>1. phase' = "job" => StartCall \/ EndPath
    BY DEF Next, Transport, ProtectEverywhere, CheckStatement, StartPath, Traverse, EndCall, NextStatement,
           EndAnalysis, Terminated, vars
  <2> QED
    BY <1>1, <1>2, <1>3, <1>4, <1>5, <2>1, PathSteps

-----------------------------------------------------------------------------
(* The answer *)

(* All first flows of a call reach an end, and so do those of a statement.  *)
CallAnswered(s, call) == \A job \in JobsOf(s, call) : Reached(call, job)

Answered(i) ==
    ~IsOpen(diagram.statements[i]) =>
        \A call \in ToSet(CallsOf(diagram.statements[i])) : CallAnswered(diagram.statements[i], call)

(* What a step has to answer, if it leaves the diagram as it is.            *)
AnsweredNext ==
    /\ \A i \in 1..(at' - 1) : Answered(i)
    /\ phase' \in {"call", "job", "path"} =>
          /\ at' \in Statements /\ ~IsOpen(diagram.statements[at'])
          /\ \A call \in ToSet(CallsOf(diagram.statements[at'])) \ ToSet(calls') :
                CallAnswered(diagram.statements[at'], call)
    /\ phase' \in {"job", "path"} =>
          /\ jobs' \subseteq JobsOf(diagram.statements[at'], Head(calls'))
          /\ \A job \in JobsOf(diagram.statements[at'], Head(calls')) \ jobs' : Reached(Head(calls'), job)
    /\ phase' = "done" => at' = Len(diagram.statements) + 1

(* Then the answered calls are still answered.                              *)
LEMMA AnsweredPrimed ==
    ASSUME UNCHANGED <<diagram, carried, passed>>, AnsweredNext
    PROVE  AnsweredInv'
<1>1. /\ \A s, call : JobsOf(s, call)' = JobsOf(s, call)
      /\ \A call, job : Reached(call, job)' = Reached(call, job)
      /\ Statements' = Statements
  BY DiagramStays
<1>2. \A i \in 1..(at' - 1) : ~IsOpen(diagram'.statements[i]) =>
          \A call \in ToSet(CallsOf(diagram'.statements[i])) :
              \A job \in JobsOf(diagram.statements[i], call)' : Reached(call, job)'
  BY <1>1 DEF AnsweredNext, Answered, CallAnswered
<1>3. phase' \in {"call", "job", "path"} =>
         /\ at' \in Statements' /\ ~IsOpen(diagram'.statements[at'])
         /\ \A call \in ToSet(CallsOf(diagram'.statements[at'])) \ ToSet(calls') :
               \A job \in JobsOf(diagram.statements[at], call)' : Reached(call, job)'
  BY <1>1 DEF AnsweredNext, CallAnswered, JobsOf, Considering, Flows, Incoming, Outgoing, Edges
<1>4. phase' \in {"job", "path"} =>
         /\ jobs' \subseteq JobsOf(diagram.statements[at], Head(calls))'
         /\ \A job \in JobsOf(diagram.statements[at], Head(calls))' \ jobs' : Reached(Head(calls), job)'
  BY <1>1 DEF AnsweredNext, JobsOf, Considering, Flows, Incoming, Outgoing, Edges, Reached
<1>5. phase' = "done" => at' = Len(diagram'.statements) + 1
  BY DEF AnsweredNext
<1> QED
  BY <1>2, <1>3, <1>4, <1>5 DEF AnsweredInv, Statement

(* A path that the analysis accepts reaches an end, if its call has to.     *)
LEMMA PathAnswers ==
    ASSUME AnalysisInv, EndPath, phase' = "job"
    PROVE  Reached(Head(calls), Current)
<1>1. PICK call, may : call = Head(calls) /\ may = MaySteps(call, Current.edge, Current.element)
  OBVIOUS
<1>2. phase = "path" /\ (call.enforce => visited \intersect call.ends # {})
  BY <1>1 DEF EndPath
<1>3. \A n \in visited \ {call.start} : \E t \in may : Target(t) = n
  BY <1>1, <1>2 DEF AnalysisInv, ReachableInv
<1>4. ASSUME call.enforce
      PROVE  ReachesEnd(call, may)
  <2>1. PICK n \in visited : n \in call.ends
    BY <1>2, <1>4
  <2> QED
    BY <1>3, <2>1 DEF ReachesEnd
<1> QED
  BY <1>1, <1>4 DEF Reached

(* Every step keeps AnsweredInv: no statement is left before all of its     *)
(* first flows have reached an end.                                         *)
LEMMA AnsweredStep ==
    ASSUME AnalysisInv, Next
    PROVE  AnsweredInv'
<1>1. /\ WellFormed(diagram) /\ calls \in Seq(CallRecords) /\ at \in 1..(Len(diagram.statements) + 1)
      /\ Len(diagram.statements) \in Nat /\ Statements = 1..Len(diagram.statements)
      /\ jobs \subseteq Jobs /\ (phase \in {"job", "path"} => calls # <<>>)
  BY Shape DEF AnalysisInv, StateInv, TypeOK
<1>2. CASE phase = "transport"
  <2>1. at' = at /\ phase' = "statement" /\ at = 1
    BY <1>2 DEF Next, Transport, ProtectEverywhere, CheckStatement, StartCall, StartPath, Traverse, EndPath,
            EndCall, NextStatement, EndAnalysis, Terminated, AnalysisInv, TransportInv
  <2>2. 1..(at' - 1) = {}
    BY <2>1
  <2> QED
    BY <2>1, <2>2 DEF AnsweredInv
<1>3. CASE phase # "transport"
  <2>1. UNCHANGED <<diagram, carried, passed>> /\ phase' # "transport"
    BY <1>3, TransportStep
  <2>2. /\ \A s, call : JobsOf(s, call)' = JobsOf(s, call)
        /\ \A call, job : Reached(call, job)' = Reached(call, job)
        /\ Statements' = Statements
    BY <2>1, DiagramStays
  <2>3. \A s, call : CallAnswered(s, call)' = CallAnswered(s, call)
    BY <2>2 DEF CallAnswered
  <2>4. /\ \A i \in 1..(at - 1) : Answered(i)
        /\ phase \in {"call", "job", "path"} =>
              /\ at \in Statements /\ ~IsOpen(Statement)
              /\ \A call \in ToSet(CallsOf(Statement)) \ ToSet(calls) : CallAnswered(Statement, call)
        /\ phase \in {"job", "path"} =>
              /\ jobs \subseteq JobsOf(Statement, Head(calls))
              /\ \A job \in JobsOf(Statement, Head(calls)) \ jobs : Reached(Head(calls), job)
        /\ phase = "done" => at = Len(diagram.statements) + 1
    BY <1>3 DEF AnalysisInv, AnsweredInv, Answered, CallAnswered
  <2>5. SUFFICES AnsweredNext
    BY <2>1, AnsweredPrimed
  <2> USE DEF AnsweredNext
  <2>6. CASE Transport
    BY <1>3, <2>6 DEF Transport
  <2>7. CASE ProtectEverywhere
    <3>1. at' = at + 1 /\ IsOpen(diagram.statements[at]) /\ phase' = "statement" /\ at \in Nat
      BY <1>1, <2>7 DEF ProtectEverywhere, Statement
    <3>2. \A i \in 1..(at' - 1) : i \in 1..(at - 1) \/ i = at
      BY <3>1
    <3>3. Answered(at)
      BY <3>1 DEF Answered
    <3> QED
      BY <2>4, <3>1, <3>2, <3>3
  <2>8. CASE CheckStatement
    <3>1. /\ at' = at /\ at \in Statements /\ ~IsOpen(Statement)
          /\ phase' \in {"panic", "rejected", "call"}
          /\ phase' = "call" => calls' = CallsOf(Statement)
      BY <2>8 DEF CheckStatement
    <3> QED
      BY <2>4, <3>1 DEF Statement
  <2>9. CASE StartCall
    <3>1. /\ at' = at /\ calls' = calls /\ phase = "call"
          /\ phase' \in {"panic", "job"}
          /\ phase' = "job" => jobs' = JobsOf(Statement, Head(calls))
      BY <2>9 DEF StartCall
    <3> QED
      BY <2>4, <3>1 DEF Statement
  <2>10. CASE StartPath
    <3>1. at' = at /\ calls' = calls /\ jobs' = jobs /\ phase = "job" /\ phase' = "path"
      BY <2>10 DEF StartPath
    <3> QED
      BY <2>4, <3>1 DEF Statement
  <2>11. CASE Traverse
    <3>1. at' = at /\ calls' = calls /\ jobs' = jobs /\ phase = "path" /\ phase' = "path"
      BY <2>11 DEF Traverse
    <3> QED
      BY <2>4, <3>1 DEF Statement
  <2>12. CASE EndPath
    <3>1. /\ at' = at /\ calls' = calls /\ phase = "path"
          /\ phase' \in {"panic", "rejected", "job"}
          /\ phase' = "job" => jobs' = jobs \ {Current}
      BY <2>12 DEF EndPath
    <3>2. phase' = "job" => Reached(Head(calls), Current)
      BY <2>12, PathAnswers
    <3> QED
      BY <2>4, <3>1, <3>2 DEF Statement
  <2>13. CASE EndCall
    <3>1. at' = at /\ calls' = Tail(calls) /\ phase = "job" /\ phase' = "call" /\ jobs = {}
      BY <2>13 DEF EndCall
    <3>2. CallAnswered(Statement, Head(calls))
      BY <2>4, <3>1 DEF CallAnswered
    <3>3. ToSet(calls) = {Head(calls)} \union ToSet(Tail(calls))
      BY <1>1, <3>1, TailMembers
    <3> QED
      BY <2>4, <3>1, <3>2, <3>3 DEF Statement
  <2>14. CASE NextStatement
    <3>1. at' = at + 1 /\ calls = <<>> /\ phase = "call" /\ phase' = "statement" /\ at \in Nat
      BY <1>1, <2>14 DEF NextStatement
    <3>2. Answered(at)
      BY <2>4, <3>1, NoMembers DEF Answered, Statement
    <3>3. \A i \in 1..(at' - 1) : i \in 1..(at - 1) \/ i = at
      BY <3>1
    <3> QED
      BY <2>4, <3>1, <3>2, <3>3
  <2>15. CASE EndAnalysis
    <3>1. at' = at /\ phase' = "done" /\ at \notin Statements
      BY <2>15 DEF EndAnalysis
    <3>2. at = Len(diagram.statements) + 1
      BY <1>1, <3>1
    <3> QED
      BY <2>4, <3>1, <3>2
  <2>16. CASE Terminated
    <3>1. at' = at /\ phase' = phase /\ phase \in {"done", "rejected", "panic"}
      BY <2>16 DEF Terminated, vars
    <3> QED
      BY <2>4, <3>1
  <2> QED
    BY <2>6, <2>7, <2>8, <2>9, <2>10, <2>11, <2>12, <2>13, <2>14, <2>15, <2>16 DEF Next
<1> QED
  BY <1>2, <1>3

(* A step that changes nothing keeps the invariant. *)
LEMMA StutterInv ==
    ASSUME AnalysisInv, UNCHANGED vars
    PROVE  AnalysisInv'
<1> USE DEF vars
<1>1. TransportInv'
  <2>1. Carried' = Carried /\ \A data : Passed(data)' = Passed(data)
    BY CarriedStays
  <2> QED
    BY <2>1 DEF AnalysisInv, TransportInv
<1>2. /\ Current' = Current /\ \A n, r : Directions(n, r)' = Directions(n, r)
      /\ Nodes' = Nodes /\ Edges' = Edges /\ Statements' = Statements /\ Step' = Step
      /\ CallRecords' = CallRecords /\ Jobs' = Jobs
      /\ \A t : Target(t)' = Target(t) /\ Source(t)' = Source(t)
      /\ \A n, r : Flows(n, r)' = Flows(n, r)
      /\ \A call, first, c : MaySteps(call, first, c)' = MaySteps(call, first, c)
  BY CurrentStays, DirectionsStay, DiagramStays
<1>3. StateInv'
  BY <1>2 DEF AnalysisInv, StateInv, TypeOK
<1>4. AnsweredInv'
  <2>1. CASE phase = "transport"
    BY <2>1 DEF AnsweredInv
  <2>2. CASE phase # "transport"
    <3>1. AnsweredNext
      BY <2>2 DEF AnalysisInv, AnsweredInv, AnsweredNext, Answered, CallAnswered, Statement
    <3> QED
      BY <3>1, AnsweredPrimed
  <2> QED
    BY <2>1, <2>2
<1>5. FollowedInv'
  <2>1. \A n : LeftFrom(n)' <=> LeftFrom(n)
    BY <1>2 DEF LeftFrom
  <2> QED
    BY <1>2, <2>1 DEF AnalysisInv, FollowedInv
<1>6. ReachableInv'
  <2>1. PICK may, call, first, c : /\ may = MaySteps(call, first, c) /\ call = Head(calls)
                                   /\ first = Current.edge /\ c = Current.element
    OBVIOUS
  <2>2. MaySteps(call, first, c)' = may /\ Head(calls') = call
    BY <1>2, <2>1
  <2> QED
    BY <1>2, <2>1, <2>2 DEF AnalysisInv, ReachableInv, EdgesOf
<1>7. ProtectedInv'
  BY DEF AnalysisInv, ProtectedInv
<1> QED
  BY <1>1, <1>3, <1>4, <1>5, <1>6, <1>7 DEF AnalysisInv

(* The invariant is inductive. *)
LEMMA NextInv ==
    ASSUME AnalysisInv, [Next]_vars
    PROVE  AnalysisInv'
<1>1. CASE Next
  BY <1>1, StateStep, TransportStep, AnsweredStep, FollowedStep, ReachableStep, ProtectedStep DEF AnalysisInv
<1>2. CASE UNCHANGED vars
  BY <1>2, StutterInv
<1> QED
  BY <1>1, <1>2

(* The analysis is always in a state that it may be in: nothing of a path   *)
(* is forgotten or invented, what is visited is protected, and no statement *)
(* is left before all of its first flows have reached an end.               *)
THEOREM AnalysisInvariant == Spec => []AnalysisInv
<1>1. Init => AnalysisInv
  BY InitInv
<1>2. AnalysisInv /\ [Next]_vars => AnalysisInv'
  BY NextInv
<1> QED
  BY <1>1, <1>2, PTL DEF Spec

-----------------------------------------------------------------------------
(* What a path protects *)

(* A path that has come to its end took every step that it had to.          *)
LEMMA SureStepsTaken ==
    ASSUME AnalysisInv, phase = "path", stack = <<>>
    PROVE  \A t \in SureSteps(Head(calls), Current.edge, Current.element) :
              t \in Step /\ t.edge \in edgesVisited
<1>1. /\ WellFormed(diagram) /\ TransportInv /\ calls \in Seq(CallRecords) /\ calls # <<>>
      /\ jobs \subseteq Jobs /\ jobs # {} /\ edgesVisited \subseteq Edges
      /\ \A e \in edgesVisited : Current.element \in carried[e]
  BY DEF AnalysisInv, StateInv, TypeOK
<1>2. PICK call \in CallRecords : call = Head(calls)
  BY <1>1, TailMembers
<1>3. Current \in jobs
  BY <1>1, CurrentIsDue
<1>4. PICK first \in Edges, c \in Nat : first = Current.edge /\ c = Current.element
  BY <1>1, <1>3 DEF Jobs
<1>5. call.reverse \in BOOLEAN
  BY DEF CallRecords
<1>6. /\ first \in edgesVisited
      /\ \A e \in edgesVisited : {diagram.edges[e].from, diagram.edges[e].to} \subseteq visited
      /\ \A n \in visited \ (call.ends \union {call.start}) : LeftFrom(n)
  BY <1>2, <1>4, NoMembers DEF AnalysisInv, FollowedInv
<1>7. PICK turns : turns = SureTurn(c)
  OBVIOUS
<1>8. PICK D : D = {t \in Step : t.edge \in edgesVisited}
  OBVIOUS
<1>9. [edge |-> first, reverse |-> call.reverse] \in D
  BY <1>5, <1>6, <1>8, BothWays
<1>10. ASSUME NEW u \in D, NEW t \in Step, c \in carried[t.edge],
              Target(u) \notin call.ends \union {call.start},
              t.reverse \in turns[Target(u)][u.reverse],
              t.edge \in Flows(Target(u), t.reverse) \ {u.edge}
       PROVE  t \in D
  <2>1. PICK n \in Nodes : n = Target(u)
    BY <1>1, <1>8, StepEnds
  <2>2. /\ u \in Step /\ u.edge \in edgesVisited /\ u.edge \in Edges /\ u.reverse \in BOOLEAN
        /\ {Source(u), n} = {diagram.edges[u.edge].from, diagram.edges[u.edge].to}
    BY <1>1, <1>8, <2>1, StepEnds
  <2>3. t.edge \in Edges /\ t.reverse \in BOOLEAN
    BY <1>1, StepEnds
  <2>4. PICK first_in \in BOOLEAN : \A r \in Directions(n, first_in) : \A e \in Flows(n, r) :
           c \in carried[e] => e \in edgesVisited
    <3>1. n \in visited \ (call.ends \union {call.start})
      BY <1>6, <1>10, <2>1, <2>2
    <3>2. ToSet(stack) = {}
      BY NoMembers
    <3> QED
      BY <1>4, <1>6, <3>1, <3>2 DEF LeftFrom
  <2>5. turns[n][u.reverse] = IF IsData(n) THEN BOOLEAN
                              ELSE IF u.reverse /\ c \notin passed[n] THEN {} ELSE {FALSE}
    BY <1>7, <2>2 DEF SureTurn
  <2>6. t.reverse \in Directions(n, first_in)
    <3>1. CASE IsData(n)
      BY <2>3, <3>1 DEF Directions
    <3>2. CASE ~IsData(n) /\ first_in = FALSE
      BY <1>10, <2>1, <2>5, <3>2 DEF Directions
    <3>3. CASE ~IsData(n) /\ first_in = TRUE
      <4>1. t.reverse = FALSE /\ (u.reverse => c \in passed[n])
        BY <1>10, <2>1, <2>5, <3>3
      <4>2. c \in passed[n]
        <5>1. CASE u.reverse = FALSE
          <6>1. u.edge \in Incoming(n) /\ t.edge \in Outgoing(n)
            BY <1>10, <2>1, <2>2, <4>1, <5>1 DEF Target, Flows, Incoming
          <6>2. c \in carried[u.edge]
            BY <1>1, <1>4, <2>2
          <6> QED
            BY <1>1, <1>10, <6>1, <6>2, WhatFlowsCarry
        <5> QED
          BY <2>2, <4>1, <5>1
      <4> QED
        BY <1>4, <3>3, <4>1, <4>2 DEF Directions
    <3> QED
      BY <2>4, <3>1, <3>2, <3>3
  <2> QED
    BY <1>8, <1>10, <2>1, <2>4, <2>6
<1>11. Grow(call, c, turns, D) \subseteq D
  BY <1>10 DEF Grow
<1>12. D \in SUBSET Step
  BY <1>8
<1>13. Steps(call, first, c, turns) \subseteq D
  BY <1>1, <1>5, <1>9, <1>11, <1>12, StepsLeast
<1>14. SureSteps(call, first, c) \subseteq D
  BY <1>7, <1>13 DEF SureSteps
<1> QED
  BY <1>2, <1>4, <1>8, <1>14

(* Every path that has been followed has the flows that it must have and    *)
(* none that it cannot reach, and all of it is protected.                   *)
LEMMA InvProtectsPaths == AnalysisInv => PathsAreProtected
<1> SUFFICES ASSUME AnalysisInv, phase = "path", stack = <<>>
             PROVE  LET call == Head(calls)
                        first == Current.edge
                        c == Current.element
                    IN /\ EdgesOf(SureSteps(call, first, c)) \subseteq edgesVisited
                       /\ edgesVisited \subseteq EdgesOf(MaySteps(call, first, c))
                       /\ \A e \in edgesVisited :
                            {<<"flow", e>>, <<"node", diagram.edges[e].from>>,
                             <<"node", diagram.edges[e].to>>} \subseteq protected[at]
  BY DEF PathsAreProtected
<1>1. EdgesOf(SureSteps(Head(calls), Current.edge, Current.element)) \subseteq edgesVisited
  BY SureStepsTaken DEF EdgesOf
<1>2. edgesVisited \subseteq EdgesOf(MaySteps(Head(calls), Current.edge, Current.element))
  BY DEF AnalysisInv, ReachableInv
<1>3. /\ \A e \in edgesVisited : {diagram.edges[e].from, diagram.edges[e].to} \subseteq visited
      /\ \A n \in visited : <<"node", n>> \in protected[at]
      /\ \A e \in edgesVisited : <<"flow", e>> \in protected[at]
  BY DEF AnalysisInv, FollowedInv, ProtectedInv
<1> QED
  BY <1>1, <1>2, <1>3

(* For every diagram, statement and data element: what a path of protected  *)
(* data visits is what it must visit and may, and it is protected.          *)
THEOREM PathsProtected == Spec => []PathsAreProtected
BY AnalysisInvariant, InvProtectsPaths, PTL

-----------------------------------------------------------------------------
(* What the analysis answers *)

(* A path that missed the ends has no way to them that is sure.             *)
LEMMA MissesAreReal ==
    ASSUME AnalysisInv, EndPath, phase' = "rejected"
    PROVE  ~ReachesEnd(Head(calls), SureSteps(Head(calls), Current.edge, Current.element))
<1>1. /\ phase = "path" /\ stack = <<>> /\ visited \intersect Head(calls).ends = {}
  BY DEF EndPath
<1>2. /\ WellFormed(diagram)
      /\ Head(calls).start \in visited
      /\ \A e \in edgesVisited : {diagram.edges[e].from, diagram.edges[e].to} \subseteq visited
  BY <1>1 DEF AnalysisInv, StateInv, FollowedInv
<1>3. ASSUME NEW t \in SureSteps(Head(calls), Current.edge, Current.element)
      PROVE  Target(t) \in visited
  <2>1. t \in Step /\ t.edge \in edgesVisited
    BY <1>1, SureStepsTaken
  <2>2. Target(t) \in {diagram.edges[t.edge].from, diagram.edges[t.edge].to}
    BY DEF Target
  <2> QED
    BY <1>2, <2>1, <2>2
<1> QED
  BY <1>1, <1>2, <1>3 DEF ReachesEnd

(* A statement that makes the analysis panic names a node whose work is     *)
(* hidden.                                                                  *)
LEMMA PanicsAreHidden ==
    ASSUME AnalysisInv, CheckStatement, phase' = "panic"
    PROVE  \E check \in ToSet(ChecksOf(Statement)) : Hidden(check.node)
<1>1. PICK s, checks : s = Statement /\ checks = ChecksOf(s)
  OBVIOUS
<1> DEFINE fails(check) == Misses(s, check) \/ Hidden(check.node) \/ Detached(s, check)
<1>2. PICK failing : failing = {i \in DOMAIN checks : fails(checks[i])}
  OBVIOUS
<1>3. failing # {} /\ Hidden(checks[Min(failing)].node)
  BY <1>1, <1>2 DEF CheckStatement
<1>4. failing \in SUBSET Nat
  <2>1. at \in Statements /\ WellFormed(diagram)
    BY DEF CheckStatement, AnalysisInv, StateInv
  <2>2. DOMAIN checks \in SUBSET Nat
    BY <1>1, <2>1, ChecksAreListed DEF Statement
  <2> QED
    BY <1>2, <2>2
<1>5. Min(failing) \in failing
  <2>1. \E x \in failing : \A y \in failing : x <= y
    BY <1>3, <1>4, LeastElement
  <2> QED
    BY <2>1 DEF Min
<1>6. checks[Min(failing)] \in ToSet(checks)
  BY <1>2, <1>5 DEF ToSet
<1> QED
  BY <1>1, <1>3, <1>6

(* The answer is right in the step that gives it, and stays so.             *)
LEMMA AnswersStep ==
    ASSUME AnalysisInv, AnswersAreRight, [Next]_vars
    PROVE  AnswersAreRight'
<1>1. AnalysisInv'
  BY NextInv
<1>2. ASSUME phase' = "done"
      PROVE  \A i \in Statements' : ~IsOpen(diagram'.statements[i]) =>
                \A call \in ToSet(CallsOf(diagram'.statements[i])) :
                   \A job \in JobsOf(diagram.statements[i], call)' : Reached(call, job)'
  <2>1. /\ WellFormed(diagram') /\ at' = Len(diagram'.statements) + 1
        /\ \A i \in 1..(at' - 1) : ~IsOpen(diagram'.statements[i]) =>
              \A call \in ToSet(CallsOf(diagram'.statements[i])) :
                 \A job \in JobsOf(diagram.statements[i], call)' : Reached(call, job)'
    BY <1>1, <1>2 DEF AnalysisInv, StateInv, AnsweredInv
  <2>2. Len(diagram'.statements) \in Nat /\ Statements' = 1..Len(diagram'.statements)
    <3>1. PICK T : T = ChannelsOf(diagram') \union ComputationsOf(diagram')
      OBVIOUS
    <3>2. diagram'.statements \in Seq(T)
      BY <2>1, <3>1 DEF WellFormed
    <3> QED
      BY <3>2 DEF Statements
  <2>3. \A i \in Statements' : i \in 1..(at' - 1)
    BY <2>1, <2>2
  <2> QED
    BY <2>1, <2>3
<1>3. ASSUME phase' = "rejected", calls' # <<>>
      PROVE  ~ReachesEnd(Head(calls), SureSteps(Head(calls), Current.edge, Current.element))'
  <2>1. PICK call, first, c : call = Head(calls) /\ first = Current.edge /\ c = Current.element
    OBVIOUS
  <2>2. /\ UNCHANGED <<diagram, carried, passed, calls, jobs>>
        /\ ~ReachesEnd(call, SureSteps(call, first, c))
    <3>1. CASE EndPath
      BY <1>3, <2>1, <3>1, MissesAreReal DEF EndPath
    <3>2. CASE UNCHANGED vars
      BY <1>3, <2>1, <3>2 DEF AnswersAreRight, vars
    <3>3. CASE CheckStatement
      <4>1. calls' = <<>>
        BY <1>3, <3>3 DEF CheckStatement, AnalysisInv, StateInv
      <4> QED
        BY <1>3, <4>1
    <3> QED
      BY <1>3, <3>1, <3>2, <3>3 DEF Next, Transport, ProtectEverywhere, StartCall, StartPath, Traverse,
             EndCall, NextStatement, EndAnalysis, Terminated
  <2>3. SureSteps(call, first, c)' = SureSteps(call, first, c)
        /\ \A steps : ReachesEnd(call, steps)' = ReachesEnd(call, steps)
    BY <2>2, DiagramStays
  <2>4. Head(calls') = call /\ Current'.edge = first /\ Current'.element = c
    BY <2>1, <2>2, CurrentStays
  <2> QED
    BY <2>2, <2>3, <2>4
<1>4. ASSUME phase' = "panic"
      PROVE  \/ calls' = <<>> /\ \E check \in ToSet(ChecksOf(diagram'.statements[at'])) : Hidden(check.node)'
             \/ calls' # <<>> /\ \E n \in {Head(calls').start} \union Head(calls').ends : IsData(n)'
             \/ calls' # <<>> /\ Head(calls').enforce /\ Head(calls').ends = {}
  <2>1. UNCHANGED <<diagram, at>> /\ (phase = "statement" => calls = <<>>)
        /\ (phase \in {"job", "path"} => calls # <<>>)
    BY <1>4 DEF Next, Transport, ProtectEverywhere, CheckStatement, StartCall, StartPath, Traverse, EndPath,
           EndCall, NextStatement, EndAnalysis, Terminated, vars, AnalysisInv, StateInv
  <2>2. \A n : Hidden(n)' = Hidden(n) /\ IsData(n)' = IsData(n)
    BY <2>1 DEF Hidden, IsData, Statements
  <2>3. CASE CheckStatement
    <3>1. calls' = <<>>
      BY <1>4, <2>1, <2>3 DEF CheckStatement
    <3> QED
      BY <1>4, <2>1, <2>2, <2>3, <3>1, PanicsAreHidden DEF Statement
  <2>4. CASE StartCall
    BY <1>4, <2>2, <2>4 DEF StartCall
  <2>5. CASE EndPath
    BY <1>4, <2>1, <2>5 DEF EndPath
  <2>6. CASE UNCHANGED vars
    BY <1>4, <2>2, <2>6 DEF AnswersAreRight, vars, Statement
  <2> QED
    BY <1>4, <2>3, <2>4, <2>5, <2>6 DEF Next, Transport, ProtectEverywhere, StartPath, Traverse, EndCall,
           NextStatement, EndAnalysis, Terminated
<1>5. phase' = "done" =>
        \A s \in {diagram'.statements[i] : i \in Statements'} : ~IsOpen(s) =>
            \A call \in {call \in ToSet(CallsOf(s)) : call.enforce} :
                \A job \in JobsOf(s, call)' : ReachesEnd(call, MaySteps(call, job.edge, job.element))'
  BY <1>2 DEF Reached
<1> QED
  BY <1>3, <1>4, <1>5 DEF AnswersAreRight, Statement

(* The answer of the analysis is right for every diagram: success means     *)
(* that protected data may reach an end from every first flow, a missed end *)
(* that no flow leads to one for sure, and a panic has one of three causes. *)
THEOREM AnswersRight == Spec => []AnswersAreRight
<1>1. Init => AnswersAreRight
  BY DEF Init, AnswersAreRight
<1>2. AnalysisInv /\ AnswersAreRight /\ [Next]_vars => AnswersAreRight'
  BY AnswersStep
<1> QED
  BY <1>1, <1>2, AnalysisInvariant, PTL DEF Spec
=============================================================================
