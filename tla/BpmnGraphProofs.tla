--------------------------- MODULE BpmnGraphProofs ---------------------------
(***************************************************************************)
(* Lemmas about the operations of the graph, for every graph: what they    *)
(* change, and that the lists of edges and of nodes stay complete.         *)
(***************************************************************************)
EXTENDS BpmnGraph, InductionLemmas, SequenceTheorems

-----------------------------------------------------------------------------
(* Lists *)

(* A function on the first k numbers is a list.                             *)
LEMMA FunctionIsSeq ==
    ASSUME NEW S, NEW k \in Nat, NEW f \in [1..k -> S]
    PROVE  f \in Seq(S) /\ Len(f) = k /\ DOMAIN f = 1..k
OBVIOUS

(* A count is a natural number; it is 0 for what is not in the list.        *)
LEMMA CountType ==
    ASSUME NEW S, NEW s \in Seq(S), NEW x
    PROVE  /\ IsFiniteSet({i \in DOMAIN s : s[i] = x})
           /\ Count(s, x) \in Nat
           /\ Count(s, x) = 0 <=> x \notin ToSet(s)
<1>1. IsFiniteSet(1..Len(s)) /\ DOMAIN s = 1..Len(s)
  BY FS_Interval
<1>2. {i \in DOMAIN s : s[i] = x} \in SUBSET (1..Len(s))
  BY <1>1
<1>3. IsFiniteSet({i \in DOMAIN s : s[i] = x})
  BY <1>1, <1>2, FS_Subset
<1>4. Count(s, x) = 0 <=> {i \in DOMAIN s : s[i] = x} = {}
  BY <1>3, FS_EmptySet DEF Count
<1>5. Count(s, x) \in Nat
  BY <1>3, FS_CardinalityType DEF Count
<1> QED
  BY <1>3, <1>4, <1>5 DEF ToSet

(* Nothing is in an empty list.                                             *)
LEMMA CountEmpty == ASSUME NEW x PROVE Count(<<>>, x) = 0
<1>1. {i \in DOMAIN <<>> : <<>>[i] = x} = {}
  OBVIOUS
<1> QED
  BY <1>1, FS_EmptySet DEF Count

(* Append() adds one occurrence of what is appended.                        *)
LEMMA CountAppend ==
    ASSUME NEW S, NEW s \in Seq(S), NEW y \in S, NEW x
    PROVE  Count(Append(s, y), x) = Count(s, x) + (IF x = y THEN 1 ELSE 0)
<1> DEFINE at(t) == {i \in DOMAIN t : t[i] = x}
           r == Append(s, y)
<1>1. /\ DOMAIN s = 1..Len(s) /\ Len(s) \in Nat /\ DOMAIN r = 1..(Len(s) + 1)
      /\ r[Len(s) + 1] = y /\ \A i \in 1..Len(s) : r[i] = s[i]
  OBVIOUS
<1>2. IsFiniteSet(at(s)) /\ Cardinality(at(s)) \in Nat
  BY CountType DEF Count
<1>3. Count(r, x) = Cardinality(at(r)) /\ Count(s, x) = Cardinality(at(s))
  BY DEF Count
<1>4. CASE x = y
  <2>1. at(r) = at(s) \union {Len(s) + 1} /\ Len(s) + 1 \notin at(s)
    BY <1>1, <1>4
  <2> HIDE DEF at, r
  <2>2. Cardinality(at(r)) = Cardinality(at(s)) + 1
    BY <1>2, <2>1, FS_AddElement
  <2> QED
    BY <1>3, <1>4, <2>2 DEF r
<1>5. CASE x # y
  <2>1. at(r) = at(s)
    BY <1>1, <1>5
  <2> HIDE DEF at, r
  <2> QED
    BY <1>2, <1>3, <1>5, <2>1 DEF r
<1> QED
  BY <1>4, <1>5

(* InsertAt() keeps the elements on either side of the new one.             *)
LEMMA InsertAtElements ==
    ASSUME NEW S, NEW s \in Seq(S), NEW y \in S, NEW i \in 1..(Len(s) + 1)
    PROVE  /\ InsertAt(s, i, y) \in Seq(S)
           /\ Len(InsertAt(s, i, y)) = Len(s) + 1
           /\ \A j \in 1..(Len(s) + 1) :
                 InsertAt(s, i, y)[j] = IF j < i THEN s[j] ELSE IF j = i THEN y ELSE s[j - 1]
<1> DEFINE l == SubSeq(s, 1, i - 1)
           r == SubSeq(s, i, Len(s))
<1>0. Len(s) \in Nat /\ i \in Nat /\ \A j \in 1..Len(s) : s[j] \in S
  OBVIOUS
<1>1. /\ l \in Seq(S) /\ Len(l) = i - 1
      /\ \A j \in 1..(i - 1) : l[j] = s[j]
  <2>1. \A j \in 1..(i - 1) : s[j] \in S
    BY <1>0
  <2>2. /\ l \in Seq(S) /\ Len(l) = IF 1 <= i - 1 THEN (i - 1) - 1 + 1 ELSE 0
        /\ \A j \in 1..((i - 1) - 1 + 1) : l[j] = s[1 + j - 1]
    BY <1>0, <2>1, SubSeqProperties
  <2> QED
    BY <1>0, <2>2
<1>2. /\ r \in Seq(S) /\ Len(r) = Len(s) - i + 1
      /\ \A j \in 1..(Len(s) - i + 1) : r[j] = s[i + j - 1]
  <2>1. \A j \in i..Len(s) : s[j] \in S
    BY <1>0
  <2>2. /\ r \in Seq(S) /\ Len(r) = IF i <= Len(s) THEN Len(s) - i + 1 ELSE 0
        /\ \A j \in 1..(Len(s) - i + 1) : r[j] = s[i + j - 1]
    BY <1>0, <2>1, SubSeqProperties
  <2> QED
    BY <1>0, <2>2
<1> HIDE DEF l, r
<1> DEFINE m == l \o <<y>>
<1>3. /\ m \in Seq(S) /\ Len(m) = i
      /\ \A j \in 1..i : m[j] = IF j = i THEN y ELSE s[j]
  <2>1. <<y>> \in Seq(S) /\ Len(<<y>>) = 1 /\ <<y>>[1] = y
    OBVIOUS
  <2>2. /\ m \in Seq(S) /\ Len(m) = (i - 1) + 1
        /\ \A j \in 1..((i - 1) + 1) : m[j] = IF j <= i - 1 THEN l[j] ELSE <<y>>[j - (i - 1)]
    BY <1>1, <2>1, ConcatProperties
  <2> QED
    BY <1>0, <1>1, <2>1, <2>2
<1> HIDE DEF m
<1>4. /\ m \o r \in Seq(S) /\ Len(m \o r) = i + (Len(s) - i + 1)
      /\ \A j \in 1..(i + (Len(s) - i + 1)) : (m \o r)[j] = IF j <= i THEN m[j] ELSE r[j - i]
  BY <1>2, <1>3, ConcatProperties
<1>5. InsertAt(s, i, y) = m \o r
  BY DEF InsertAt, l, r, m
<1>6. ASSUME NEW j \in 1..(Len(s) + 1)
      PROVE  (m \o r)[j] = IF j < i THEN s[j] ELSE IF j = i THEN y ELSE s[j - 1]
  <2>1. CASE j <= i
    <3>1. j \in 1..(i + (Len(s) - i + 1)) /\ j \in 1..i
      BY <1>0, <2>1
    <3>2. (m \o r)[j] = IF j = i THEN y ELSE s[j]
      BY <1>3, <1>4, <2>1, <3>1
    <3> QED
      BY <1>0, <2>1, <3>2
  <2>2. CASE i < j
    <3>1. j - i \in 1..(Len(s) - i + 1) /\ i + (j - i) - 1 = j - 1
      BY <1>0, <2>2
    <3>2. r[j - i] = s[j - 1]
      BY <1>2, <3>1
    <3> QED
      BY <1>0, <1>4, <2>2, <3>2
  <2>3. j <= i \/ i < j
    BY <1>0
  <2> QED
    BY <2>1, <2>2, <2>3, Zenon
<1> QED
  BY <1>0, <1>4, <1>5, <1>6

(* InsertAt() adds one occurrence of what is inserted.                      *)
LEMMA CountInsertAt ==
    ASSUME NEW S, NEW s \in Seq(S), NEW y \in S, NEW i \in 1..(Len(s) + 1), NEW x
    PROVE  Count(InsertAt(s, i, y), x) = Count(s, x) + (IF x = y THEN 1 ELSE 0)
<1> DEFINE at(t) == {j \in DOMAIN t : t[j] = x}
<1>1. PICK r \in Seq(S) : r = InsertAt(s, i, y)
  BY InsertAtElements
<1>2. /\ Len(r) = Len(s) + 1 /\ DOMAIN r = 1..(Len(s) + 1) /\ DOMAIN s = 1..Len(s)
      /\ Len(s) \in Nat /\ i \in Nat
      /\ \A j \in 1..(Len(s) + 1) : r[j] = IF j < i THEN s[j] ELSE IF j = i THEN y ELSE s[j - 1]
  <2>1. /\ Len(InsertAt(s, i, y)) = Len(s) + 1
        /\ \A j \in 1..(Len(s) + 1) :
              InsertAt(s, i, y)[j] = IF j < i THEN s[j] ELSE IF j = i THEN y ELSE s[j - 1]
    BY InsertAtElements
  <2> QED
    BY <1>1, <2>1
<1>3. IsFiniteSet(at(s)) /\ Cardinality(at(s)) \in Nat /\ IsFiniteSet(at(r)) /\ Cardinality(at(r)) \in Nat
  BY CountType DEF Count
<1> DEFINE rest == at(r) \ {i}
<1>4. ExistsBijection(at(s), rest)
  <2> DEFINE f == [j \in at(s) |-> IF j < i THEN j ELSE j + 1]
  <2>1. f \in [at(s) -> rest]
    BY <1>2
  <2>2. \A j, k \in at(s) : f[j] = f[k] => j = k
    BY <1>2
  <2>3. ASSUME NEW k \in rest
        PROVE  \E j \in at(s) : f[j] = k
    <3>1. CASE k < i
      <4>1. k \in at(s)
        BY <1>2, <3>1
      <4> QED
        BY <3>1, <4>1
    <3>2. CASE i < k
      <4>1. k - 1 \in at(s) /\ ~(k - 1 < i) /\ (k - 1) + 1 = k
        BY <1>2, <3>2
      <4> QED
        BY <4>1
    <3> QED
      BY SMTT(30), <1>2, <3>1, <3>2
  <2> HIDE DEF f
  <2>4. f \in Bijection(at(s), rest)
    BY <2>1, <2>2, <2>3 DEF Bijection, Injection, Surjection, IsInjective
  <2> QED
    BY <2>4 DEF ExistsBijection
<1>5. IsFiniteSet(rest) /\ Cardinality(rest) = Cardinality(at(s))
  BY <1>3, <1>4, FS_Bijection
<1>6. CASE x = y
  <2>1. at(r) = rest \union {i} /\ i \notin rest
    BY <1>2, <1>6
  <2> HIDE DEF rest, at
  <2>2. Cardinality(at(r)) = Cardinality(rest) + 1
    BY <1>5, <2>1, FS_AddElement
  <2> QED
    BY <1>1, <1>3, <1>5, <1>6, <2>2 DEF Count, at
<1>7. CASE x # y
  <2>1. at(r) = rest
    BY <1>2, <1>7
  <2>2. Count(r, x) = Cardinality(at(r)) /\ Count(s, x) = Cardinality(at(s))
    BY DEF Count
  <2> HIDE DEF rest, at
  <2> QED
    BY <1>1, <1>3, <1>5, <1>7, <2>1, <2>2
<1> QED
  BY <1>6, <1>7

(* retain() keeps every occurrence of what is in T, and nothing else.       *)
LEMMA CountRetained ==
    ASSUME NEW S, NEW s \in Seq(S), NEW T
    PROVE  /\ Retained(s, T) \in Seq(S)
           /\ \A x : Count(Retained(s, T), x) = IF x \in T THEN Count(s, x) ELSE 0
<1>1. PICK m \in Nat : m = Len(s)
  OBVIOUS
<1>2. DOMAIN s = 1..m /\ \A i \in 1..m : s[i] \in S
  BY <1>1
<1>3. PICK V : V = Seq(S)
  OBVIOUS
<1> DEFINE grown(i, kept) == IF s[i] \in T THEN Append(kept, s[i]) ELSE kept
           Is(g) == g = [i \in 0..m |-> IF i = 0 THEN <<>>
                                        ELSE IF s[i] \in T THEN Append(g[i - 1], s[i]) ELSE g[i - 1]]
           next == [i \in 1..m |-> [kept \in V |-> grown(i, kept)]]
<1>4. <<>> \in V /\ \A i \in 1..m : \A kept \in V : grown(i, kept) \in V
  BY <1>2, <1>3
<1>5. \E g : Is(g)
  <2>1. /\ next \in [1..m -> [V -> V]]
        /\ \A i \in 1..m : \A kept \in V : next[i][kept] = grown(i, kept)
    BY <1>4
  <2> HIDE DEF next, grown
  <2>2. PICK g \in [0..m -> V] : \A i \in 0..m : g[i] = IF i = 0 THEN <<>> ELSE next[i][g[i - 1]]
    <3>1. \E g : g \in Unfoldings(m, V, <<>>, next)
      BY <1>4, <2>1, RecursionUnfolds
    <3> QED
      BY <3>1 DEF Unfoldings
  <2>3. \A i \in 0..m : i # 0 => i \in 1..m /\ i - 1 \in 0..m
    OBVIOUS
  <2>4. \A i \in 0..m : g[i] = IF i = 0 THEN <<>> ELSE grown(i, g[i - 1])
    BY <2>1, <2>2, <2>3
  <2>5. Is(g)
    BY <2>2, <2>4 DEF grown
  <2> HIDE DEF Is
  <2> QED
    BY <2>5
<1>6. PICK g : Is(g) /\ Retained(s, T) = g[m]
  <2>1. Retained(s, T) = (CHOOSE g : Is(g))[m]
    BY <1>1 DEF Retained
  <2> HIDE DEF Is
  <2> QED
    BY <1>5, <2>1
<1>7. g[0] = <<>> /\ \A i \in 1..m : g[i] = grown(i, g[i - 1])
  <2>1. \A i \in 0..m : g[i] = IF i = 0 THEN <<>> ELSE grown(i, g[i - 1])
    BY <1>6
  <2>2. \A i \in 1..m : i \in 0..m /\ i # 0
    OBVIOUS
  <2> HIDE DEF grown
  <2> QED
    BY <2>1, <2>2
<1> DEFINE prefix(n) == SubSeq(s, 1, n)
           Good(n) == /\ g[n] \in Seq(S)
                      /\ \A x : Count(g[n], x) = IF x \in T THEN Count(prefix(n), x) ELSE 0
           Turns == {n \in Nat : n <= m => Good(n)}
<1>8. \A n \in 0..m : prefix(n) \in Seq(S)
  BY <1>2, SubSeqProperties
<1>9. \A n \in 0..(m - 1) : prefix(n + 1) = Append(prefix(n), s[n + 1])
  BY <1>1
<1>10. prefix(0) = <<>> /\ prefix(m) = s
  BY <1>1
<1> HIDE DEF prefix
<1>11. 0 \in Turns
  <2>1. g[0] \in Seq(S)
    BY <1>3, <1>4, <1>7
  <2>2. \A x : Count(g[0], x) = 0 /\ Count(prefix(0), x) = 0
    BY <1>7, <1>10, CountEmpty
  <2>3. Good(0)
    BY <2>1, <2>2
  <2> HIDE DEF Good
  <2> QED
    BY <2>3
<1>12. ASSUME NEW n \in Turns
       PROVE  n + 1 \in Turns
  <2> SUFFICES ASSUME n + 1 <= m
               PROVE  Good(n + 1)
    OBVIOUS
  <2>1. n \in 0..(m - 1) /\ n \in 0..m /\ n + 1 \in 1..m /\ (n + 1) - 1 = n /\ Good(n)
    OBVIOUS
  <2>2. g[n + 1] = grown(n + 1, g[n]) /\ s[n + 1] \in S
    BY <1>2, <1>7, <2>1
  <2>3. g[n] \in Seq(S) /\ prefix(n) \in Seq(S)
    BY <1>8, <2>1
  <2>4. \A x : Count(prefix(n + 1), x) = Count(prefix(n), x) + (IF x = s[n + 1] THEN 1 ELSE 0)
    <3>1. PICK p \in Seq(S) : p = prefix(n)
      BY <2>3
    <3>2. PICK y \in S : y = s[n + 1]
      BY <2>2
    <3>3. \A x : Count(Append(p, y), x) = Count(p, x) + (IF x = y THEN 1 ELSE 0)
      BY CountAppend
    <3> QED
      BY <1>9, <2>1, <3>1, <3>2, <3>3
  <2>5. \A x : Count(prefix(n), x) \in Nat
    BY <2>3, CountType
  <2>6. CASE s[n + 1] \in T
    <3>1. g[n + 1] = Append(g[n], s[n + 1]) /\ g[n + 1] \in Seq(S)
      BY <2>2, <2>3, <2>6
    <3>2. \A x : Count(g[n + 1], x) = Count(g[n], x) + (IF x = s[n + 1] THEN 1 ELSE 0)
      BY <2>2, <2>3, <3>1, CountAppend
    <3>3. \A x : Count(g[n + 1], x) = IF x \in T THEN Count(prefix(n + 1), x) ELSE 0
      BY <2>1, <2>4, <2>6, <3>2
    <3> QED
      BY <3>1, <3>3
  <2>7. CASE s[n + 1] \notin T
    <3>1. g[n + 1] = g[n]
      BY <2>2, <2>7
    <3>2. \A x : Count(g[n + 1], x) = IF x \in T THEN Count(prefix(n + 1), x) ELSE 0
      BY <2>1, <2>4, <2>5, <2>7, <3>1
    <3> QED
      BY <2>3, <3>1, <3>2
  <2> QED
    BY <2>6, <2>7
<1> HIDE DEF Turns
<1>13. Turns = Nat
  <2>1. Turns \in SUBSET Nat
    BY DEF Turns
  <2> QED
    BY <1>11, <1>12, <2>1, Induction
<1>14. Good(m)
  BY <1>13 DEF Turns
<1> QED
  BY <1>6, <1>10, <1>14

(* The members of a list after retain(). *)
LEMMA RetainedMembers ==
    ASSUME NEW S, NEW s \in Seq(S), NEW T
    PROVE  ToSet(Retained(s, T)) = ToSet(s) \cap T
<1>1. Retained(s, T) \in Seq(S) /\ \A x : Count(Retained(s, T), x) = IF x \in T THEN Count(s, x) ELSE 0
  BY CountRetained
<1>2. \A x : Count(Retained(s, T), x) = 0 <=> x \notin ToSet(Retained(s, T))
  BY <1>1, CountType
<1>3. \A x : Count(s, x) = 0 <=> x \notin ToSet(s)
  BY CountType
<1> QED
  BY <1>1, <1>2, <1>3

(* What is dropped is not listed any more, and nothing else changes.        *)
LEMMA CountDropped ==
    ASSUME NEW S, NEW s \in Seq(S), NEW y
    PROVE  /\ Dropped(s, y) \in Seq(S)
           /\ \A x : Count(Dropped(s, y), x) = IF x = y THEN 0 ELSE Count(s, x)
<1>1. /\ Dropped(s, y) \in Seq(S)
      /\ \A x : Count(Dropped(s, y), x) = IF x \in ToSet(s) \ {y} THEN Count(s, x) ELSE 0
  BY CountRetained DEF Dropped
<1>2. \A x : Count(s, x) = 0 <=> x \notin ToSet(s)
  BY CountType
<1> QED
  BY <1>1, <1>2

-----------------------------------------------------------------------------
(* Nodes and their lists of edges *)

(* The parts of a node that adding and turning edges leaves alone.          *)
SameNode(a, b) ==
    /\ a.kind = b.kind /\ a.pool = b.pool /\ a.lane = b.lane /\ a.layer = b.layer
    /\ a.half = b.half /\ a.above = b.above /\ a.below = b.below

(* A node with other lists of edges.                                        *)
Relisted(node, incoming, outgoing) ==
    [node EXCEPT !.incoming = incoming, !.outgoing = outgoing]

(* The same graph with these lists at its nodes, and these edges.           *)
Rewired(g, edges, incoming, outgoing) ==
    [g EXCEPT !.edges = edges,
              !.nodes = [n \in DOMAIN g.nodes |-> Relisted(g.nodes[n], incoming[n], outgoing[n])]]

IsRewired(r, g, edges, incoming, outgoing) ==
    /\ r.edges = edges /\ r.lanes = g.lanes /\ r.numLayers = g.numLayers
    /\ Len(r.nodes) = Len(g.nodes) /\ DOMAIN r.nodes = DOMAIN g.nodes
    /\ \A n \in DOMAIN g.nodes :
          /\ SameNode(r.nodes[n], g.nodes[n])
          /\ r.nodes[n].incoming = incoming[n] /\ r.nodes[n].outgoing = outgoing[n]

(* A graph is made of nodes and edges of the right types.                   *)
LEMMA GraphParts ==
    ASSUME NEW g, IsGraph(g)
    PROVE  /\ g.nodes \in Seq(GraphNodes) /\ g.edges \in Seq(GraphEdges) /\ g.numLayers \in Nat
           /\ DOMAIN g.nodes = 1..Len(g.nodes) /\ Len(g.nodes) \in Nat
           /\ DOMAIN g.edges = 1..Len(g.edges) /\ Len(g.edges) \in Nat
           /\ \A n \in DOMAIN g.nodes : g.nodes[n] \in GraphNodes
           /\ \A e \in DOMAIN g.edges : g.edges[e] \in GraphEdges
           /\ \A place \in DOMAIN g.lanes : g.lanes[place] \in Seq(Nat)
<1>1. /\ g.nodes \in Seq(GraphNodes) /\ g.edges \in Seq(GraphEdges) /\ g.numLayers \in Nat
      /\ g.lanes \in [DOMAIN g.lanes -> Seq(Nat)]
  BY DEF IsGraph
<1>2. PICK N, E : N = GraphNodes /\ E = GraphEdges
  OBVIOUS
<1>3. g.nodes \in Seq(N) /\ g.edges \in Seq(E)
  BY <1>1, <1>2
<1>4. /\ DOMAIN g.nodes = 1..Len(g.nodes) /\ Len(g.nodes) \in Nat
      /\ DOMAIN g.edges = 1..Len(g.edges) /\ Len(g.edges) \in Nat
      /\ \A n \in DOMAIN g.nodes : g.nodes[n] \in N
      /\ \A e \in DOMAIN g.edges : g.edges[e] \in E
  BY <1>3
<1> QED
  BY <1>1, <1>2, <1>4

(* Lists of edges can be exchanged.                                         *)
LEMMA RelistedIsNode ==
    ASSUME NEW node \in GraphNodes, NEW incoming \in Seq(Nat), NEW outgoing \in Seq(Nat)
    PROVE  /\ Relisted(node, incoming, outgoing) \in GraphNodes
           /\ Relisted(node, incoming, outgoing).incoming = incoming
           /\ Relisted(node, incoming, outgoing).outgoing = outgoing
           /\ SameNode(Relisted(node, incoming, outgoing), node)
<1>1. PICK L : L = Seq(Nat)
  OBVIOUS
<1> QED
  BY <1>1 DEF Relisted, GraphNodes, SameNode

(* A graph with other edges and lists of them is a graph.                   *)
LEMMA RewiredIsGraph ==
    ASSUME NEW g, IsGraph(g), NEW edges \in Seq(GraphEdges),
           NEW incoming \in [DOMAIN g.nodes -> Seq(Nat)],
           NEW outgoing \in [DOMAIN g.nodes -> Seq(Nat)],
           NEW r, r = Rewired(g, edges, incoming, outgoing)
    PROVE  IsGraph(r) /\ IsRewired(r, g, edges, incoming, outgoing)
<1> DEFINE nodes == [n \in DOMAIN g.nodes |-> Relisted(g.nodes[n], incoming[n], outgoing[n])]
<1>1. PICK N, E, L : N = GraphNodes /\ E = GraphEdges /\ L = Seq(Nat)
  OBVIOUS
<1>2. /\ g.nodes \in Seq(N) /\ DOMAIN g.nodes = 1..Len(g.nodes) /\ Len(g.nodes) \in Nat
      /\ \A n \in DOMAIN g.nodes : g.nodes[n] \in N
  BY <1>1, GraphParts
<1>3. \A n \in DOMAIN g.nodes : /\ nodes[n] \in N
                                /\ nodes[n].incoming = incoming[n] /\ nodes[n].outgoing = outgoing[n]
                                /\ SameNode(nodes[n], g.nodes[n])
  BY <1>1, <1>2, RelistedIsNode
<1> HIDE DEF nodes
<1>4. nodes \in Seq(N) /\ Len(nodes) = Len(g.nodes) /\ DOMAIN nodes = DOMAIN g.nodes
  <2>1. nodes = [n \in 1..Len(g.nodes) |-> nodes[n]] /\ DOMAIN nodes = DOMAIN g.nodes
    BY <1>2 DEF nodes
  <2>2. \A n \in 1..Len(g.nodes) : nodes[n] \in N
    BY <1>2, <1>3
  <2>3. nodes \in [1..Len(g.nodes) -> N] /\ Len(g.nodes) \in Nat
    BY <1>2, <2>1, <2>2
  <2> QED
    BY <1>2, <2>1, <2>3, FunctionIsSeq
<1>5. r.nodes = nodes /\ r.edges = edges /\ r.lanes = g.lanes /\ r.numLayers = g.numLayers
  <2>1. r = [g EXCEPT !.edges = edges, !.nodes = nodes]
    BY DEF Rewired, nodes
  <2>2. PICK S, F, P : g \in [nodes : S, edges : F, lanes : P, numLayers : Nat]
    BY DEF IsGraph
  <2> QED
    BY <2>1, <2>2
<1>6. IsGraph(r)
  <2>1. r = [g EXCEPT !.edges = edges, !.nodes = nodes]
    BY DEF Rewired, nodes
  <2>2. PICK S, F, P : S = Seq(GraphNodes) /\ F = Seq(GraphEdges) /\ P = [DOMAIN g.lanes -> Seq(Nat)]
    OBVIOUS
  <2>3. g \in [nodes : S, edges : F, lanes : P, numLayers : Nat] /\ nodes \in S /\ edges \in F
    BY <1>1, <1>4, <2>2 DEF IsGraph
  <2>4. r \in [nodes : S, edges : F, lanes : P, numLayers : Nat]
    BY <2>1, <2>3
  <2>5. DOMAIN r.lanes = DOMAIN g.lanes
    BY <1>5
  <2> QED
    BY <2>2, <2>4, <2>5 DEF IsGraph
<1> QED
  BY <1>3, <1>4, <1>5, <1>6 DEF IsRewired

(* Changing one list of edges of a node.                                    *)
LEMMA RelistOne ==
    ASSUME NEW node \in GraphNodes, NEW list
    PROVE  /\ [node EXCEPT !.incoming = list] = Relisted(node, list, node.outgoing)
           /\ [node EXCEPT !.outgoing = list] = Relisted(node, node.incoming, list)
           /\ node = Relisted(node, node.incoming, node.outgoing)
           /\ \A other : [Relisted(node, list, other) EXCEPT !.outgoing = other] = Relisted(node, list, other)
<1>1. PICK L : L = Seq(Nat)
  OBVIOUS
<1> QED
  BY <1>1 DEF Relisted, GraphNodes

(* add_edge() lists the new edge at its ends.                               *)
LEMMA AddEdgeRewires ==
    ASSUME NEW g, IsGraph(g), NEW edge \in GraphEdges,
           edge.from \in DOMAIN g.nodes, edge.to \in DOMAIN g.nodes
    PROVE  LET e == Len(g.edges) + 1
           IN AddEdge(g, edge) =
                 Rewired(g, Append(g.edges, edge),
                         [n \in DOMAIN g.nodes |-> IF n = edge.to THEN Append(g.nodes[n].incoming, e)
                                                                  ELSE g.nodes[n].incoming],
                         [n \in DOMAIN g.nodes |-> IF n = edge.from THEN Append(g.nodes[n].outgoing, e)
                                                                    ELSE g.nodes[n].outgoing])
<1> DEFINE e == Len(g.edges) + 1
           incoming == [n \in DOMAIN g.nodes |-> IF n = edge.to THEN Append(g.nodes[n].incoming, e)
                                                                ELSE g.nodes[n].incoming]
           outgoing == [n \in DOMAIN g.nodes |-> IF n = edge.from THEN Append(g.nodes[n].outgoing, e)
                                                                  ELSE g.nodes[n].outgoing]
           left == [g.nodes EXCEPT ![edge.from].outgoing = Append(@, e)]
           both == [left EXCEPT ![edge.to].incoming = Append(@, e)]
           nodes == [n \in DOMAIN g.nodes |-> Relisted(g.nodes[n], incoming[n], outgoing[n])]
<1>1. PICK D : D = DOMAIN g.nodes
  OBVIOUS
<1>2. \A n \in D : g.nodes[n] \in GraphNodes
  BY <1>1, GraphParts
<1>3. g.nodes = [n \in D |-> g.nodes[n]]
  <2>1. g.nodes \in Seq(GraphNodes)
    BY GraphParts
  <2>2. PICK N : N = GraphNodes
    OBVIOUS
  <2> QED
    BY <1>1, <2>1, <2>2
<1>4. /\ left = [n \in D |-> Relisted(g.nodes[n], g.nodes[n].incoming, outgoing[n])]
      /\ \A n \in D : left[n] = Relisted(g.nodes[n], g.nodes[n].incoming, outgoing[n])
  <2>1. left = [n \in D |-> IF n = edge.from
                            THEN [g.nodes[n] EXCEPT !.outgoing = Append(g.nodes[n].outgoing, e)]
                            ELSE g.nodes[n]]
    BY <1>1, <1>3
  <2>2. ASSUME NEW n \in D
        PROVE  (IF n = edge.from THEN [g.nodes[n] EXCEPT !.outgoing = Append(g.nodes[n].outgoing, e)]
                ELSE g.nodes[n]) = Relisted(g.nodes[n], g.nodes[n].incoming, outgoing[n])
    <3>1. PICK node \in GraphNodes : node = g.nodes[n]
      BY <1>2
    <3>2. PICK list : list = Append(g.nodes[n].outgoing, e)
      OBVIOUS
    <3>3. outgoing[n] = IF n = edge.from THEN list ELSE node.outgoing
      BY <1>1, <3>1, <3>2
    <3>4. /\ [node EXCEPT !.outgoing = list] = Relisted(node, node.incoming, list)
          /\ node = Relisted(node, node.incoming, node.outgoing)
      BY RelistOne
    <3> HIDE DEF outgoing
    <3> QED
      BY <3>1, <3>2, <3>3, <3>4
  <2> HIDE DEF left, outgoing
  <2> QED
    BY <2>1, <2>2
<1>5. both = [n \in D |-> Relisted(g.nodes[n], incoming[n], outgoing[n])]
  <2>1. both = [n \in D |-> IF n = edge.to
                            THEN [left[n] EXCEPT !.incoming = Append(left[n].incoming, e)]
                            ELSE left[n]]
    <3> HIDE DEF left
    <3> QED
      BY ZenonT(30), <1>1, <1>4
  <2>2. ASSUME NEW n \in D
        PROVE  (IF n = edge.to THEN [left[n] EXCEPT !.incoming = Append(left[n].incoming, e)]
                ELSE left[n]) = Relisted(g.nodes[n], incoming[n], outgoing[n])
    <3>1. /\ left[n] = Relisted(g.nodes[n], g.nodes[n].incoming, outgoing[n])
          /\ g.nodes[n] \in GraphNodes
          /\ incoming[n] = IF n = edge.to THEN Append(g.nodes[n].incoming, e)
                                          ELSE g.nodes[n].incoming
      <4> HIDE DEF left, outgoing
      <4> QED
        BY <1>1, <1>2, <1>4
    <3> HIDE DEF left, incoming, outgoing, e
    <3>2. left[n].incoming = g.nodes[n].incoming
      <4>1. PICK L : L = Seq(Nat)
        OBVIOUS
      <4> QED
        BY <3>1, <4>1 DEF Relisted, GraphNodes
    <3>3. \A list : [left[n] EXCEPT !.incoming = list] = Relisted(g.nodes[n], list, outgoing[n])
      <4>1. PICK L : L = Seq(Nat)
        OBVIOUS
      <4> QED
        BY <3>1, <4>1 DEF Relisted, GraphNodes
    <3> QED
      BY <3>1, <3>2, <3>3
  <2> HIDE DEF left, incoming, outgoing, e, both
  <2> QED
    BY <2>1, <2>2
<1>6. AddEdge(g, edge) = [g EXCEPT !.edges = Append(@, edge), !.nodes = both]
  BY DEF AddEdge
<1> HIDE DEF both, left, incoming, outgoing, e
<1>7. AddEdge(g, edge) = Rewired(g, Append(g.edges, edge), incoming, outgoing)
  <2>1. AddEdge(g, edge) = [g EXCEPT !.edges = Append(g.edges, edge), !.nodes = both]
    BY <1>6
  <2> QED
    BY <1>1, <1>5, <2>1 DEF Rewired
<1> QED
  BY <1>7 DEF incoming, outgoing, e

(* What adding an edge does, field by field.                                *)
EdgeAdded(r, g, edge) ==
    /\ r.edges = Append(g.edges, edge) /\ r.lanes = g.lanes /\ r.numLayers = g.numLayers
    /\ Len(r.nodes) = Len(g.nodes) /\ DOMAIN r.nodes = DOMAIN g.nodes
    /\ \A n \in DOMAIN g.nodes :
          /\ SameNode(r.nodes[n], g.nodes[n])
          /\ r.nodes[n].incoming = IF n = edge.to THEN Append(g.nodes[n].incoming, Len(g.edges) + 1)
                                                  ELSE g.nodes[n].incoming
          /\ r.nodes[n].outgoing = IF n = edge.from THEN Append(g.nodes[n].outgoing, Len(g.edges) + 1)
                                                    ELSE g.nodes[n].outgoing

(* add_edge() makes a graph of a graph.                                     *)
LEMMA AddEdgeEffect ==
    ASSUME NEW g, IsGraph(g), NEW edge \in GraphEdges,
           edge.from \in DOMAIN g.nodes, edge.to \in DOMAIN g.nodes
    PROVE  IsGraph(AddEdge(g, edge)) /\ EdgeAdded(AddEdge(g, edge), g, edge)
<1> DEFINE e == Len(g.edges) + 1
           incoming == [n \in DOMAIN g.nodes |-> IF n = edge.to THEN Append(g.nodes[n].incoming, e)
                                                                ELSE g.nodes[n].incoming]
           outgoing == [n \in DOMAIN g.nodes |-> IF n = edge.from THEN Append(g.nodes[n].outgoing, e)
                                                                  ELSE g.nodes[n].outgoing]
<1>1. PICK r : r = AddEdge(g, edge)
  OBVIOUS
<1>2. e \in Nat /\ Append(g.edges, edge) \in Seq(GraphEdges)
  <2>1. g.edges \in Seq(GraphEdges)
    BY GraphParts
  <2>2. PICK E : E = GraphEdges
    OBVIOUS
  <2> QED
    BY <2>1, <2>2
<1>3. \A n \in DOMAIN g.nodes : g.nodes[n].incoming \in Seq(Nat) /\ g.nodes[n].outgoing \in Seq(Nat)
  <2>1. PICK L : L = Seq(Nat)
    OBVIOUS
  <2>2. \A n \in DOMAIN g.nodes : g.nodes[n] \in GraphNodes
    BY GraphParts
  <2> QED
    BY <2>1, <2>2 DEF GraphNodes
<1>4. /\ incoming \in [DOMAIN g.nodes -> Seq(Nat)] /\ outgoing \in [DOMAIN g.nodes -> Seq(Nat)]
      /\ \A n \in DOMAIN g.nodes :
            /\ incoming[n] = IF n = edge.to THEN Append(g.nodes[n].incoming, e)
                                            ELSE g.nodes[n].incoming
            /\ outgoing[n] = IF n = edge.from THEN Append(g.nodes[n].outgoing, e)
                                              ELSE g.nodes[n].outgoing
  <2> HIDE DEF e
  <2> QED
    BY <1>2, <1>3
<1>5. r = Rewired(g, Append(g.edges, edge), incoming, outgoing)
  BY <1>1, AddEdgeRewires
<1> HIDE DEF incoming, outgoing
<1>6. IsGraph(r) /\ IsRewired(r, g, Append(g.edges, edge), incoming, outgoing)
  BY <1>2, <1>4, <1>5, RewiredIsGraph
<1>7. EdgeAdded(r, g, edge)
  BY <1>4, <1>6 DEF EdgeAdded, IsRewired
<1> QED
  BY <1>1, <1>6, <1>7

(* What turning an edge around does, field by field.                        *)
EdgeReversed(r, g, e) ==
    LET from == g.edges[e].from
        to == g.edges[e].to
    IN /\ r.edges = [g.edges EXCEPT ![e] = [@ EXCEPT !.from = to, !.to = from, !.reversed = TRUE]]
       /\ r.lanes = g.lanes /\ r.numLayers = g.numLayers
       /\ Len(r.nodes) = Len(g.nodes) /\ DOMAIN r.nodes = DOMAIN g.nodes
       /\ \A n \in DOMAIN g.nodes :
             /\ SameNode(r.nodes[n], g.nodes[n])
             /\ r.nodes[n].incoming = IF n = from THEN Append(g.nodes[n].incoming, e)
                                      ELSE IF n = to THEN Dropped(g.nodes[n].incoming, e)
                                      ELSE g.nodes[n].incoming
             /\ r.nodes[n].outgoing = IF n = from THEN Dropped(g.nodes[n].outgoing, e)
                                      ELSE IF n = to THEN Append(g.nodes[n].outgoing, e)
                                      ELSE g.nodes[n].outgoing

(* The lists of edges of a graph in which edge e is turned around.          *)
ReversedIncoming(g, e, from, to) ==
    [n \in DOMAIN g.nodes |-> IF n = from THEN Append(g.nodes[n].incoming, e)
                               ELSE IF n = to THEN Dropped(g.nodes[n].incoming, e)
                               ELSE g.nodes[n].incoming]

ReversedOutgoing(g, e, from, to) ==
    [n \in DOMAIN g.nodes |-> IF n = from THEN Dropped(g.nodes[n].outgoing, e)
                               ELSE IF n = to THEN Append(g.nodes[n].outgoing, e)
                               ELSE g.nodes[n].outgoing]

(* reverse_edge() exchanges the lists that the edge is in, at both ends.    *)
LEMMA ReverseEdgeRewires ==
    ASSUME NEW g, IsGraph(g), NEW e \in DOMAIN g.edges, NEW from, NEW to,
           from = g.edges[e].from, to = g.edges[e].to,
           from \in DOMAIN g.nodes, to \in DOMAIN g.nodes, from # to
    PROVE  ReverseEdge(g, e) =
              Rewired(g, [g.edges EXCEPT ![e] = [@ EXCEPT !.from = to, !.to = from, !.reversed = TRUE]],
                      ReversedIncoming(g, e, from, to), ReversedOutgoing(g, e, from, to))
<1> DEFINE incoming == [n \in DOMAIN g.nodes |-> IF n = from THEN Append(g.nodes[n].incoming, e)
                                                ELSE IF n = to THEN Dropped(g.nodes[n].incoming, e)
                                                ELSE g.nodes[n].incoming]
           outgoing == [n \in DOMAIN g.nodes |-> IF n = from THEN Dropped(g.nodes[n].outgoing, e)
                                                ELSE IF n = to THEN Append(g.nodes[n].outgoing, e)
                                                ELSE g.nodes[n].outgoing]
           nodes == [g.nodes EXCEPT ![from] = Relisted(@, incoming[from], outgoing[from]),
                                    ![to] = Relisted(@, incoming[to], outgoing[to])]
           edges == [g.edges EXCEPT ![e] = [@ EXCEPT !.from = to, !.to = from, !.reversed = TRUE]]
<1>1. PICK D, N, F : /\ D = DOMAIN g.nodes /\ N = g.nodes /\ F = g.edges
  OBVIOUS
<1>2. \A n \in D : N[n] \in GraphNodes
  BY <1>1, GraphParts
<1>3. N = [n \in D |-> N[n]]
  <2>1. g.nodes \in Seq(GraphNodes)
    BY GraphParts
  <2>2. PICK S : S = GraphNodes
    OBVIOUS
  <2> QED
    BY <1>1, <2>1, <2>2
<1>4. nodes = [n \in D |-> Relisted(N[n], incoming[n], outgoing[n])]
  <2>1. \A n \in D : n # from /\ n # to => N[n] = Relisted(N[n], incoming[n], outgoing[n])
    BY <1>1, <1>2, RelistOne
  <2> HIDE DEF incoming, outgoing
  <2> QED
    BY <1>1, <1>3, <2>1
<1>5. ReverseEdge(g, e) = [g EXCEPT !.nodes = nodes, !.edges = edges]
  <2>1. PICK fromOut, fromIn, toOut, toIn :
           /\ fromOut = Dropped(g.nodes[from].outgoing, e)
           /\ fromIn = Append(g.nodes[from].incoming, e)
           /\ toIn = Dropped(g.nodes[to].incoming, e)
           /\ toOut = Append(g.nodes[to].outgoing, e)
    OBVIOUS
  <2> DEFINE after == [g.nodes EXCEPT ![from].outgoing = fromOut, ![from].incoming = fromIn,
                                      ![to].incoming = toIn, ![to].outgoing = toOut]
             turned == [g.edges EXCEPT ![e].from = to, ![e].to = from, ![e].reversed = TRUE]
  <2>2. ReverseEdge(g, e) =
           [g EXCEPT !.nodes[from].outgoing = fromOut, !.nodes[from].incoming = fromIn,
                     !.nodes[to].incoming = toIn, !.nodes[to].outgoing = toOut,
                     !.edges[e].from = to, !.edges[e].to = from, !.edges[e].reversed = TRUE]
    BY <2>1 DEF ReverseEdge
  <2>3. ReverseEdge(g, e) = [g EXCEPT !.nodes = after, !.edges = turned]
    <3> DEFINE half == [g EXCEPT !.nodes[from].outgoing = fromOut, !.nodes[from].incoming = fromIn,
                                 !.nodes[to].incoming = toIn, !.nodes[to].outgoing = toOut]
    <3> HIDE DEF nodes, edges, incoming, outgoing
    <3>1. half = [g EXCEPT !.nodes = after]
      OBVIOUS
    <3>2. half.edges = g.edges
      OBVIOUS
    <3>3. ReverseEdge(g, e) = [half EXCEPT !.edges[e].from = to, !.edges[e].to = from,
                                           !.edges[e].reversed = TRUE]
      BY <2>2
    <3> HIDE DEF half
    <3>4. [half EXCEPT !.edges[e].from = to, !.edges[e].to = from, !.edges[e].reversed = TRUE]
             = [half EXCEPT !.edges = [half.edges EXCEPT ![e].from = to, ![e].to = from,
                                                         ![e].reversed = TRUE]]
      OBVIOUS
    <3> HIDE DEF after
    <3>5. [half EXCEPT !.edges = [half.edges EXCEPT ![e].from = to, ![e].to = from,
                                                    ![e].reversed = TRUE]]
             = [g EXCEPT !.nodes = after, !.edges = turned]
      BY <3>1, <3>2
    <3> HIDE DEF turned
    <3> QED
      BY <3>3, <3>4, <3>5
  <2>4. turned = edges
    OBVIOUS
  <2>5. after = nodes
    <3>1. /\ incoming[from] = fromIn /\ outgoing[from] = fromOut
          /\ incoming[to] = toIn /\ outgoing[to] = toOut
      BY <2>1
    <3>2. nodes = [g.nodes EXCEPT ![from] = Relisted(@, fromIn, fromOut),
                                  ![to] = Relisted(@, toIn, toOut)]
      BY <3>1
    <3> HIDE DEF nodes
    <3> QED
      BY ZenonT(30), <3>2 DEF Relisted
  <2> HIDE DEF after, turned, nodes, edges
  <2> QED
    BY <2>3, <2>4, <2>5
<1> HIDE DEF nodes
<1>6. [g EXCEPT !.nodes = nodes, !.edges = edges]
         = [g EXCEPT !.edges = edges,
                     !.nodes = [n \in DOMAIN g.nodes |-> Relisted(g.nodes[n], incoming[n], outgoing[n])]]
  <2> HIDE DEF edges, incoming, outgoing
  <2> QED
    BY <1>1, <1>4
<1> QED
  BY <1>5, <1>6 DEF Rewired, ReversedIncoming, ReversedOutgoing

(* reverse_edge() makes a graph of a graph.                                 *)
LEMMA ReverseEdgeEffect ==
    ASSUME NEW g, IsGraph(g), NEW e \in DOMAIN g.edges,
           g.edges[e].from \in DOMAIN g.nodes, g.edges[e].to \in DOMAIN g.nodes,
           g.edges[e].from # g.edges[e].to
    PROVE  IsGraph(ReverseEdge(g, e)) /\ EdgeReversed(ReverseEdge(g, e), g, e)
<1>1. PICK from, to : from = g.edges[e].from /\ to = g.edges[e].to
  OBVIOUS
<1> DEFINE incoming == ReversedIncoming(g, e, from, to)
           outgoing == ReversedOutgoing(g, e, from, to)
           edges == [g.edges EXCEPT ![e] = [@ EXCEPT !.from = to, !.to = from, !.reversed = TRUE]]
<1>2. e \in Nat /\ from \in DOMAIN g.nodes /\ to \in DOMAIN g.nodes /\ from # to
  BY <1>1, GraphParts
<1>3. edges \in Seq(GraphEdges)
  <2>1. g.edges[e] \in GraphEdges /\ from \in Nat /\ to \in Nat
    BY <1>1, <1>2, GraphParts
  <2>2. [g.edges[e] EXCEPT !.from = to, !.to = from, !.reversed = TRUE] \in GraphEdges
    BY <2>1 DEF GraphEdges
  <2>3. g.edges \in Seq(GraphEdges)
    BY GraphParts
  <2>4. PICK E, new : E = GraphEdges /\ new = [g.edges[e] EXCEPT !.from = to, !.to = from, !.reversed = TRUE]
    OBVIOUS
  <2>5. [g.edges EXCEPT ![e] = new] \in Seq(E)
    BY <2>2, <2>3, <2>4
  <2> QED
    BY <2>4, <2>5
<1>4. \A n \in DOMAIN g.nodes : g.nodes[n].incoming \in Seq(Nat) /\ g.nodes[n].outgoing \in Seq(Nat)
  <2>1. PICK L : L = Seq(Nat)
    OBVIOUS
  <2>2. \A n \in DOMAIN g.nodes : g.nodes[n] \in GraphNodes
    BY GraphParts
  <2> QED
    BY <2>1, <2>2 DEF GraphNodes
<1>5. \A n \in DOMAIN g.nodes : /\ Dropped(g.nodes[n].incoming, e) \in Seq(Nat)
                                /\ Dropped(g.nodes[n].outgoing, e) \in Seq(Nat)
                                /\ Append(g.nodes[n].incoming, e) \in Seq(Nat)
                                /\ Append(g.nodes[n].outgoing, e) \in Seq(Nat)
  BY <1>2, <1>4, CountDropped
<1>6. /\ incoming \in [DOMAIN g.nodes -> Seq(Nat)] /\ outgoing \in [DOMAIN g.nodes -> Seq(Nat)]
      /\ \A n \in DOMAIN g.nodes :
            /\ incoming[n] = IF n = from THEN Append(g.nodes[n].incoming, e)
                             ELSE IF n = to THEN Dropped(g.nodes[n].incoming, e)
                             ELSE g.nodes[n].incoming
            /\ outgoing[n] = IF n = from THEN Dropped(g.nodes[n].outgoing, e)
                             ELSE IF n = to THEN Append(g.nodes[n].outgoing, e)
                             ELSE g.nodes[n].outgoing
  BY <1>4, <1>5 DEF ReversedIncoming, ReversedOutgoing
<1>7. PICK r : r = ReverseEdge(g, e)
  OBVIOUS
<1>8. r = Rewired(g, edges, incoming, outgoing)
  BY <1>1, <1>2, <1>7, ReverseEdgeRewires
<1> HIDE DEF incoming, outgoing
<1>9. IsGraph(r) /\ IsRewired(r, g, edges, incoming, outgoing)
  <2> HIDE DEF edges
  <2> QED
    BY <1>3, <1>6, <1>8, RewiredIsGraph
<1>10. EdgeReversed(r, g, e)
  BY <1>1, <1>6, <1>9 DEF EdgeReversed, IsRewired
<1> QED
  BY <1>7, <1>9, <1>10

-----------------------------------------------------------------------------
(* The lists stay complete *)

(* Mirrored, while edge x, which is replaced, is still listed.              *)
MirroredBut(g, x) ==
    /\ \A n \in DOMAIN g.nodes :
          /\ ToSet(g.nodes[n].incoming) \subseteq DOMAIN g.edges
          /\ ToSet(g.nodes[n].outgoing) \subseteq DOMAIN g.edges
    /\ \A e \in DOMAIN g.edges, n \in DOMAIN g.nodes :
          LET listed == IF g.edges[e].type = "Replaced" /\ e # x THEN 0 ELSE 1
          IN /\ Count(g.nodes[n].outgoing, e) = IF g.edges[e].from = n THEN listed ELSE 0
             /\ Count(g.nodes[n].incoming, e) = IF g.edges[e].to = n THEN listed ELSE 0

(* Without such an edge it is Mirrored.                                     *)
LEMMA MirroredButNone ==
    ASSUME NEW g, IsGraph(g)
    PROVE  Mirrored(g) <=> MirroredBut(g, 0)
<1>1. \A e \in DOMAIN g.edges : e # 0
  BY GraphParts
<1> QED
  BY <1>1 DEF Mirrored, MirroredBut

(* The members of a list with one more.                                     *)
LEMMA AppendMembers ==
    ASSUME NEW S, NEW s \in Seq(S), NEW y \in S
    PROVE  ToSet(Append(s, y)) = ToSet(s) \union {y}
<1>1. Append(s, y) \in Seq(S)
  OBVIOUS
<1>2. \A x : Count(Append(s, y), x) = Count(s, x) + (IF x = y THEN 1 ELSE 0)
  BY CountAppend
<1>3. \A x : Count(s, x) \in Nat /\ (Count(s, x) = 0 <=> x \notin ToSet(s))
  BY CountType
<1>4. \A x : Count(Append(s, y), x) = 0 <=> x \notin ToSet(Append(s, y))
  BY <1>1, CountType
<1> QED
  BY <1>2, <1>3, <1>4

(* The lists of a node are lists of numbers.                                *)
LEMMA NodeLists ==
    ASSUME NEW g, IsGraph(g), NEW n \in DOMAIN g.nodes
    PROVE  g.nodes[n].incoming \in Seq(Nat) /\ g.nodes[n].outgoing \in Seq(Nat)
<1>1. PICK L : L = Seq(Nat)
  OBVIOUS
<1>2. g.nodes[n] \in GraphNodes
  BY GraphParts
<1> QED
  BY <1>1, <1>2 DEF GraphNodes

(* A list after an edge was added that it gets, or does not get.            *)
ListsNewEdge(r, s, m, new) ==
    /\ ToSet(r) \subseteq 1..(m + 1)
    /\ \A e \in 1..m : Count(r, e) = Count(s, e)
    /\ Count(r, m + 1) = IF new THEN 1 ELSE 0

(* The new edge is listed where it was appended.                            *)
LEMMA CountNewEdge ==
    ASSUME NEW m \in Nat, NEW s \in Seq(Nat), ToSet(s) \subseteq 1..m, NEW new \in BOOLEAN,
           NEW r, r = IF new THEN Append(s, m + 1) ELSE s
    PROVE  ListsNewEdge(r, s, m, new)
<1>1. m + 1 \in Nat /\ m + 1 \notin ToSet(s) /\ ToSet(s) \subseteq 1..(m + 1)
  OBVIOUS
<1>2. Count(s, m + 1) = 0 /\ \A e : Count(s, e) \in Nat
  BY <1>1, CountType
<1>3. CASE new
  <2>1. ToSet(r) = ToSet(s) \union {m + 1}
    BY <1>1, <1>3, AppendMembers
  <2>2. \A e : Count(r, e) = Count(s, e) + (IF e = m + 1 THEN 1 ELSE 0)
    BY <1>1, <1>3, CountAppend
  <2> QED
    BY <1>1, <1>2, <1>3, <2>1, <2>2 DEF ListsNewEdge
<1>4. CASE ~new
  BY <1>1, <1>2, <1>4 DEF ListsNewEdge
<1> QED
  BY <1>3, <1>4

(* Adding an edge lists it at its ends, and no other edge anywhere else.    *)
LEMMA AddEdgeMirrored ==
    ASSUME NEW g, IsGraph(g), NEW x, MirroredBut(g, x),
           NEW edge \in GraphEdges, edge.type # "Replaced",
           NEW r, IsGraph(r), EdgeAdded(r, g, edge)
    PROVE  MirroredBut(r, x)
<1>1. PICK m \in Nat : m = Len(g.edges) /\ DOMAIN g.edges = 1..m
  BY GraphParts
<1>2. /\ DOMAIN r.edges = 1..(m + 1) /\ r.edges[m + 1] = edge
      /\ \A e \in 1..m : r.edges[e] = g.edges[e]
  <2>1. g.edges \in Seq(GraphEdges) /\ r.edges = Append(g.edges, edge)
    BY GraphParts DEF EdgeAdded
  <2>2. PICK E : E = GraphEdges
    OBVIOUS
  <2> QED
    BY <1>1, <2>1, <2>2
<1>3. ASSUME NEW n \in DOMAIN g.nodes
      PROVE  /\ ToSet(r.nodes[n].incoming) \subseteq 1..(m + 1)
             /\ ToSet(r.nodes[n].outgoing) \subseteq 1..(m + 1)
             /\ \A e \in 1..m : Count(r.nodes[n].incoming, e) = Count(g.nodes[n].incoming, e)
             /\ \A e \in 1..m : Count(r.nodes[n].outgoing, e) = Count(g.nodes[n].outgoing, e)
             /\ Count(r.nodes[n].incoming, m + 1) = IF n = edge.to THEN 1 ELSE 0
             /\ Count(r.nodes[n].outgoing, m + 1) = IF n = edge.from THEN 1 ELSE 0
  <2>1. PICK old : old = g.nodes[n].incoming
    OBVIOUS
  <2>2. PICK out : out = g.nodes[n].outgoing
    OBVIOUS
  <2>3. /\ old \in Seq(Nat) /\ ToSet(old) \subseteq 1..m /\ out \in Seq(Nat) /\ ToSet(out) \subseteq 1..m
    BY <1>1, <2>1, <2>2, NodeLists DEF MirroredBut
  <2>4. /\ r.nodes[n].incoming = IF n = edge.to THEN Append(old, m + 1) ELSE old
        /\ r.nodes[n].outgoing = IF n = edge.from THEN Append(out, m + 1) ELSE out
    BY <1>1, <2>1, <2>2 DEF EdgeAdded
  <2>5. ListsNewEdge(r.nodes[n].incoming, old, m, n = edge.to)
    <3>1. PICK t : t = r.nodes[n].incoming
      OBVIOUS
    <3>2. PICK new \in BOOLEAN : new <=> n = edge.to
      OBVIOUS
    <3>3. t = IF new THEN Append(old, m + 1) ELSE old
      BY <2>4, <3>1, <3>2
    <3>4. ListsNewEdge(t, old, m, new)
      BY <2>3, <3>3, CountNewEdge
    <3> QED
      BY <3>1, <3>2, <3>4 DEF ListsNewEdge
  <2>6. ListsNewEdge(r.nodes[n].outgoing, out, m, n = edge.from)
    <3>1. PICK t : t = r.nodes[n].outgoing
      OBVIOUS
    <3>2. PICK new \in BOOLEAN : new <=> n = edge.from
      OBVIOUS
    <3>3. t = IF new THEN Append(out, m + 1) ELSE out
      BY <2>4, <3>1, <3>2
    <3>4. ListsNewEdge(t, out, m, new)
      BY <2>3, <3>3, CountNewEdge
    <3> QED
      BY <3>1, <3>2, <3>4 DEF ListsNewEdge
  <2> QED
    BY <2>1, <2>2, <2>5, <2>6 DEF ListsNewEdge
<1>4. DOMAIN r.nodes = DOMAIN g.nodes
  BY DEF EdgeAdded
<1>5. ASSUME NEW e \in 1..(m + 1), NEW n \in DOMAIN g.nodes
      PROVE  LET listed == IF r.edges[e].type = "Replaced" /\ e # x THEN 0 ELSE 1
             IN /\ Count(r.nodes[n].outgoing, e) = IF r.edges[e].from = n THEN listed ELSE 0
                /\ Count(r.nodes[n].incoming, e) = IF r.edges[e].to = n THEN listed ELSE 0
  <2>1. CASE e = m + 1
    BY <1>2, <1>3, <2>1
  <2>2. CASE e \in 1..m
    BY SMTT(30), <1>1, <1>2, <1>3, <2>2 DEF MirroredBut
  <2> QED
    BY <2>1, <2>2
<1> QED
  BY <1>2, <1>3, <1>4, <1>5 DEF MirroredBut

(* A list in which e is listed once, or not any more, and the rest as       *)
(* before.                                                                  *)
ListsTurned(r, s, e, listed) ==
    /\ ToSet(r) \subseteq ToSet(s) \union {e}
    /\ \A d : Count(r, d) = IF d = e THEN listed ELSE Count(s, d)

(* The list that the turned edge leaves, and the one that it enters.        *)
LEMMA CountTurnedEdge ==
    ASSUME NEW s \in Seq(Nat), NEW e \in Nat
    PROVE  /\ ListsTurned(Dropped(s, e), s, e, 0)
           /\ Count(s, e) = 0 => ListsTurned(Append(s, e), s, e, 1)
<1>1. ListsTurned(Dropped(s, e), s, e, 0)
  <2>1. \A d : Count(Dropped(s, e), d) = IF d = e THEN 0 ELSE Count(s, d)
    BY CountDropped
  <2>2. ToSet(Dropped(s, e)) \subseteq ToSet(s)
    BY RetainedMembers DEF Dropped
  <2> QED
    BY <2>1, <2>2 DEF ListsTurned
<1>2. ASSUME Count(s, e) = 0
      PROVE  ListsTurned(Append(s, e), s, e, 1)
  <2>1. \A d : Count(Append(s, e), d) = Count(s, d) + (IF d = e THEN 1 ELSE 0)
    BY CountAppend
  <2>2. ToSet(Append(s, e)) = ToSet(s) \union {e}
    BY AppendMembers
  <2>3. \A d : Count(s, d) \in Nat
    BY CountType
  <2> QED
    BY <1>2, <2>1, <2>2, <2>3 DEF ListsTurned
<1> QED
  BY <1>1, <1>2

(* Turning an edge around keeps both lists in step with its ends.           *)
LEMMA ReverseEdgeMirrored ==
    ASSUME NEW g, IsGraph(g), Mirrored(g), NEW e \in DOMAIN g.edges, g.edges[e].type # "Replaced",
           g.edges[e].from \in DOMAIN g.nodes, g.edges[e].to \in DOMAIN g.nodes,
           g.edges[e].from # g.edges[e].to,
           NEW r, IsGraph(r), EdgeReversed(r, g, e)
    PROVE  Mirrored(r)
<1>1. PICK from, to : from = g.edges[e].from /\ to = g.edges[e].to
  OBVIOUS
<1>2. e \in Nat /\ from \in DOMAIN g.nodes /\ to \in DOMAIN g.nodes /\ from # to
  BY <1>1, GraphParts
<1>3. /\ DOMAIN r.edges = DOMAIN g.edges /\ DOMAIN r.nodes = DOMAIN g.nodes
      /\ \A d \in DOMAIN g.edges : d # e => r.edges[d] = g.edges[d]
      /\ r.edges[e] = [g.edges[e] EXCEPT !.from = to, !.to = from, !.reversed = TRUE]
  <2>1. PICK F : F = g.edges
    OBVIOUS
  <2>2. r.edges = [F EXCEPT ![e] = [@ EXCEPT !.from = to, !.to = from, !.reversed = TRUE]]
        /\ DOMAIN r.nodes = DOMAIN g.nodes
    BY <1>1, <2>1 DEF EdgeReversed
  <2>3. DOMAIN r.edges = DOMAIN F /\ \A d \in DOMAIN F : d # e => r.edges[d] = F[d]
    BY <2>2
  <2>4. r.edges[e] = [F[e] EXCEPT !.from = to, !.to = from, !.reversed = TRUE]
    BY <2>1, <2>2
  <2> QED
    BY <2>1, <2>2, <2>3, <2>4
<1>4. r.edges[e].from = to /\ r.edges[e].to = from /\ r.edges[e].type # "Replaced"
  <2>1. g.edges[e] \in GraphEdges
    BY GraphParts
  <2> QED
    BY <1>3, <2>1 DEF GraphEdges
<1>5. ASSUME NEW n \in DOMAIN g.nodes
      PROVE  /\ ListsTurned(r.nodes[n].incoming, g.nodes[n].incoming, e, IF n = from THEN 1 ELSE 0)
             /\ ListsTurned(r.nodes[n].outgoing, g.nodes[n].outgoing, e, IF n = to THEN 1 ELSE 0)
  <2>1. PICK in, out, rin, rout : /\ in = g.nodes[n].incoming /\ out = g.nodes[n].outgoing
                                  /\ rin = r.nodes[n].incoming /\ rout = r.nodes[n].outgoing
    OBVIOUS
  <2>2. in \in Seq(Nat) /\ out \in Seq(Nat)
    BY <2>1, NodeLists
  <2>3. /\ rin = IF n = from THEN Append(in, e) ELSE IF n = to THEN Dropped(in, e) ELSE in
        /\ rout = IF n = from THEN Dropped(out, e) ELSE IF n = to THEN Append(out, e) ELSE out
    BY <1>1, <2>1 DEF EdgeReversed
  <2>4. Count(out, e) = (IF n = from THEN 1 ELSE 0) /\ Count(in, e) = (IF n = to THEN 1 ELSE 0)
    BY <1>1, <2>1 DEF Mirrored
  <2>5. ListsTurned(rin, in, e, IF n = from THEN 1 ELSE 0)
    <3>1. CASE n = from
      BY <1>2, <2>2, <2>3, <2>4, <3>1, CountTurnedEdge
    <3>2. CASE n # from /\ n = to
      BY <1>2, <2>2, <2>3, <3>2, CountTurnedEdge
    <3>3. CASE n # from /\ n # to
      BY <2>3, <2>4, <3>3 DEF ListsTurned
    <3> QED
      BY <3>1, <3>2, <3>3
  <2>6. ListsTurned(rout, out, e, IF n = to THEN 1 ELSE 0)
    <3>1. CASE n = to
      BY <1>2, <2>2, <2>3, <2>4, <3>1, CountTurnedEdge
    <3>2. CASE n # to /\ n = from
      BY <1>2, <2>2, <2>3, <3>2, CountTurnedEdge
    <3>3. CASE n # from /\ n # to
      BY <2>3, <2>4, <3>3 DEF ListsTurned
    <3> QED
      BY <3>1, <3>2, <3>3
  <2> QED
    BY <2>1, <2>5, <2>6
<1>6. ASSUME NEW n \in DOMAIN g.nodes
      PROVE  /\ ToSet(r.nodes[n].incoming) \subseteq DOMAIN g.edges
             /\ ToSet(r.nodes[n].outgoing) \subseteq DOMAIN g.edges
  <2>1. /\ ToSet(g.nodes[n].incoming) \subseteq DOMAIN g.edges
        /\ ToSet(g.nodes[n].outgoing) \subseteq DOMAIN g.edges
    BY DEF Mirrored
  <2>2. ToSet(r.nodes[n].incoming) \subseteq DOMAIN g.edges
    BY <1>5, <2>1 DEF ListsTurned
  <2>3. ToSet(r.nodes[n].outgoing) \subseteq DOMAIN g.edges
    BY <1>5, <2>1 DEF ListsTurned
  <2> QED
    BY <2>2, <2>3
<1>7. ASSUME NEW d \in DOMAIN g.edges, NEW n \in DOMAIN g.nodes
      PROVE  LET listed == IF r.edges[d].type = "Replaced" THEN 0 ELSE 1
             IN /\ Count(r.nodes[n].outgoing, d) = IF r.edges[d].from = n THEN listed ELSE 0
                /\ Count(r.nodes[n].incoming, d) = IF r.edges[d].to = n THEN listed ELSE 0
  <2>1. CASE d = e
    BY <1>4, <1>5, <2>1 DEF ListsTurned
  <2>2. CASE d # e
    <3>1. /\ Count(r.nodes[n].outgoing, d) = Count(g.nodes[n].outgoing, d)
          /\ Count(r.nodes[n].incoming, d) = Count(g.nodes[n].incoming, d)
      BY <1>5, <2>2 DEF ListsTurned
    <3> QED
      BY <1>3, <2>2, <3>1 DEF Mirrored
  <2> QED
    BY <2>1, <2>2
<1> QED
  BY <1>3, <1>6, <1>7 DEF Mirrored

-----------------------------------------------------------------------------
(* The nodes and the lanes *)

(* Two graphs with the same nodes, apart from their edges, in the same      *)
(* lanes.                                                                   *)
SamePlaces(r, g) ==
    /\ r.lanes = g.lanes /\ r.numLayers = g.numLayers /\ DOMAIN r.nodes = DOMAIN g.nodes
    /\ \A n \in DOMAIN g.nodes : SameNode(r.nodes[n], g.nodes[n])

(* Edges do not move nodes.                                                 *)
LEMMA SamePlacesKeepLanes ==
    ASSUME NEW g, NEW r, SamePlaces(r, g)
    PROVE  /\ \A n \in DOMAIN g.nodes : Place(r.nodes[n]) = Place(g.nodes[n])
           /\ LanesComplete(g) => LanesComplete(r)
<1>1. \A n \in DOMAIN g.nodes : Place(r.nodes[n]) = Place(g.nodes[n])
  BY DEF SamePlaces, SameNode, Place
<1> QED
  BY <1>1 DEF SamePlaces, LanesComplete

(* Adding an edge between nodes that exist.                                 *)
LEMMA AddEdgeEnds ==
    ASSUME NEW g, IsGraph(g), EndsExist(g), NEW edge \in GraphEdges,
           edge.from \in DOMAIN g.nodes, edge.to \in DOMAIN g.nodes,
           NEW r, EdgeAdded(r, g, edge)
    PROVE  EndsExist(r) /\ SamePlaces(r, g)
<1>1. SamePlaces(r, g)
  BY DEF EdgeAdded, SamePlaces
<1>2. \A e \in DOMAIN r.edges : r.edges[e] = edge \/ \E d \in DOMAIN g.edges : r.edges[e] = g.edges[d]
  <2>1. g.edges \in Seq(GraphEdges) /\ r.edges = Append(g.edges, edge)
    BY GraphParts DEF EdgeAdded
  <2>2. PICK E : E = GraphEdges
    OBVIOUS
  <2> QED
    BY <2>1, <2>2
<1>3. \A e \in DOMAIN r.edges : {r.edges[e].from, r.edges[e].to} \subseteq DOMAIN g.nodes
  BY <1>2 DEF EndsExist
<1>4. DOMAIN r.nodes = DOMAIN g.nodes /\ r.lanes = g.lanes
  BY DEF EdgeAdded
<1>5. \A n \in DOMAIN g.nodes : Place(r.nodes[n]) \in DOMAIN g.lanes
  BY <1>1, SamePlacesKeepLanes DEF EndsExist
<1> QED
  BY <1>1, <1>3, <1>4, <1>5 DEF EndsExist

(* Turning an edge around moves none of its ends anywhere else.            *)
LEMMA ReverseEdgeEnds ==
    ASSUME NEW g, IsGraph(g), EndsExist(g), NEW e \in DOMAIN g.edges,
           NEW r, EdgeReversed(r, g, e)
    PROVE  EndsExist(r) /\ SamePlaces(r, g)
<1>1. SamePlaces(r, g)
  BY DEF EdgeReversed, SamePlaces
<1>2. /\ DOMAIN r.edges = DOMAIN g.edges
      /\ \A d \in DOMAIN g.edges :
            {r.edges[d].from, r.edges[d].to} \subseteq {g.edges[d].from, g.edges[d].to}
  <2>1. PICK F, from, to : F = g.edges /\ from = g.edges[e].from /\ to = g.edges[e].to
    OBVIOUS
  <2>2. r.edges = [F EXCEPT ![e] = [@ EXCEPT !.from = to, !.to = from, !.reversed = TRUE]]
    BY <2>1 DEF EdgeReversed
  <2>3. F[e] \in GraphEdges
    BY <2>1, GraphParts
  <2>4. r.edges[e] = [F[e] EXCEPT !.from = to, !.to = from, !.reversed = TRUE]
    BY <2>1, <2>2
  <2>5. r.edges[e].from = to /\ r.edges[e].to = from
    BY <2>3, <2>4 DEF GraphEdges
  <2>6. DOMAIN r.edges = DOMAIN F /\ \A d \in DOMAIN F : d # e => r.edges[d] = F[d]
    BY <2>2
  <2> QED
    BY <2>1, <2>5, <2>6
<1>3. \A d \in DOMAIN r.edges : {r.edges[d].from, r.edges[d].to} \subseteq DOMAIN g.nodes
  BY <1>2 DEF EndsExist
<1>4. DOMAIN r.nodes = DOMAIN g.nodes /\ r.lanes = g.lanes
  BY DEF EdgeReversed
<1>5. \A n \in DOMAIN g.nodes : Place(r.nodes[n]) \in DOMAIN g.lanes
  BY <1>1, SamePlacesKeepLanes DEF EndsExist
<1> QED
  BY <1>1, <1>3, <1>4, <1>5 DEF EndsExist

(* The smallest of some numbers is one of them.                             *)
LEMMA MinIsLeast ==
    ASSUME NEW T \in SUBSET Nat, T # {}
    PROVE  Min(T) \in T /\ \A y \in T : Min(T) <= y
BY LeastElement DEF Min

(* A list with one more occurrence of n.                                    *)
ListsOneMore(r, s, n) ==
    /\ ToSet(r) \subseteq ToSet(s) \union {n}
    /\ \A m : Count(r, m) = Count(s, m) + (IF m = n THEN 1 ELSE 0)

(* A node is put into a lane once, wherever it is put.                      *)
LEMMA InsertedByLayerCounts ==
    ASSUME NEW g, NEW ns \in Seq(Nat), NEW n \in Nat, NEW layer,
           NEW r, r = InsertedByLayer(g, ns, n, layer)
    PROVE  r \in Seq(Nat) /\ ListsOneMore(r, ns, n)
<1> DEFINE notLeft == {i \in DOMAIN ns : g.nodes[ns[i]].layer >= layer}
<1>2. r = IF notLeft = {} THEN Append(ns, n) ELSE InsertAt(ns, Min(notLeft), n)
  BY DEF InsertedByLayer
<1>3. notLeft \subseteq DOMAIN ns /\ DOMAIN ns \subseteq Nat /\ DOMAIN ns = 1..Len(ns) /\ Len(ns) \in Nat
  OBVIOUS
<1> HIDE DEF notLeft
<1>4. r \in Seq(Nat) /\ \A m : Count(r, m) = Count(ns, m) + (IF m = n THEN 1 ELSE 0)
  <2>1. CASE notLeft = {}
    <3>1. r = Append(ns, n)
      BY <1>2, <2>1
    <3> QED
      BY <3>1, CountAppend
  <2>2. CASE notLeft # {}
    <3>1. PICK i \in 1..(Len(ns) + 1) : r = InsertAt(ns, i, n)
      <4>1. Min(notLeft) \in 1..Len(ns)
        BY <1>3, <2>2, MinIsLeast
      <4>2. Min(notLeft) \in 1..(Len(ns) + 1)
        BY <1>3, <4>1
      <4> QED
        BY <1>2, <2>2, <4>2
    <3>2. InsertAt(ns, i, n) \in Seq(Nat)
      BY InsertAtElements
    <3>3. \A m : Count(InsertAt(ns, i, n), m) = Count(ns, m) + (IF m = n THEN 1 ELSE 0)
      BY CountInsertAt
    <3> QED
      BY <3>1, <3>2, <3>3
  <2> QED
    BY <2>1, <2>2
<1>5. ToSet(r) \subseteq ToSet(ns) \union {n}
  <2>1. \A m : Count(r, m) = 0 <=> m \notin ToSet(r)
    BY <1>4, CountType
  <2>2. \A m : Count(ns, m) = 0 <=> m \notin ToSet(ns)
    BY CountType
  <2> QED
    BY <1>4, <2>1, <2>2
<1> QED
  BY <1>4, <1>5 DEF ListsOneMore

(* A node that has just been added.                                         *)
IsNewNode(node, kind, place, layer) ==
    /\ node \in GraphNodes /\ Place(node) = place /\ node.kind = kind /\ node.layer = layer
    /\ node.half = FALSE /\ node.above = 0 /\ node.below = 0
    /\ node.incoming = <<>> /\ node.outgoing = <<>>
    /\ node.pool = place[1] /\ node.lane = place[2]

(* The fields of a new node.                                                *)
LEMMA NewNodeIsNode ==
    ASSUME NEW kind \in {"Event", "Gateway", "Task", "Data", "Dummy"},
           NEW place \in Nat \X Nat, NEW layer \in Nat,
           NEW node, node = NewNode(kind, place, layer)
    PROVE  IsNewNode(node, kind, place, layer)
<1>1. <<>> \in Seq(Nat)
  OBVIOUS
<1>2. PICK L : L = Seq(Nat)
  OBVIOUS
<1> QED
  BY <1>1, <1>2 DEF IsNewNode, NewNode, Place, GraphNodes

(* What adding a node does, field by field.                                 *)
NodeAdded(r, g, kind, place, layer) ==
    /\ r.nodes = Append(g.nodes, NewNode(kind, place, layer))
    /\ r.edges = g.edges /\ r.numLayers = g.numLayers /\ DOMAIN r.lanes = DOMAIN g.lanes
    /\ \A p \in DOMAIN g.lanes :
          r.lanes[p] = IF p = place THEN InsertedByLayer(g, g.lanes[p], Len(g.nodes) + 1, layer)
                                    ELSE g.lanes[p]

(* add_node() makes a graph of a graph.                                     *)
LEMMA AddNodeEffect ==
    ASSUME NEW g, IsGraph(g), NEW kind \in {"Event", "Gateway", "Task", "Data", "Dummy"},
           NEW place \in Nat \X Nat, NEW layer \in Nat
    PROVE  /\ IsGraph(AddNode(g, kind, place, layer))
           /\ NodeAdded(AddNode(g, kind, place, layer), g, kind, place, layer)
<1>1. PICK node, list, r : /\ node = NewNode(kind, place, layer)
                           /\ list = InsertedByLayer(g, g.lanes[place], Len(g.nodes) + 1, layer)
                           /\ r = AddNode(g, kind, place, layer)
  OBVIOUS
<1>2. PICK N, E, P, L : /\ N = Seq(GraphNodes) /\ E = Seq(GraphEdges) /\ P = DOMAIN g.lanes
                        /\ L = Seq(Nat)
  OBVIOUS
<1>3. g \in [nodes : N, edges : E, lanes : [P -> L], numLayers : Nat]
  BY <1>2 DEF IsGraph
<1>4. r = [g EXCEPT !.nodes = Append(@, node), !.lanes[place] = list]
  BY <1>1 DEF AddNode
<1>5. Append(g.nodes, node) \in N
  <2>1. node \in GraphNodes
    <3>1. IsNewNode(node, kind, place, layer)
      BY <1>1, NewNodeIsNode
    <3> QED
      BY <3>1 DEF IsNewNode
  <2>2. PICK S : S = GraphNodes
    OBVIOUS
  <2>3. g.nodes \in Seq(S) /\ node \in S /\ N = Seq(S)
    BY <1>2, <1>3, <2>1, <2>2
  <2> QED
    BY <2>3
<1>6. place \in P => list \in L
  <2>1. Len(g.nodes) + 1 \in Nat
    BY GraphParts
  <2>2. place \in P => g.lanes[place] \in Seq(Nat)
    BY <1>2, <1>3
  <2>3. ASSUME place \in P
        PROVE  list \in L
    <3>1. PICK ns \in Seq(Nat), n \in Nat : ns = g.lanes[place] /\ n = Len(g.nodes) + 1
      BY <2>1, <2>2, <2>3
    <3>2. list = InsertedByLayer(g, ns, n, layer)
      BY <1>1, <3>1
    <3>3. list \in Seq(Nat)
      BY <3>2, InsertedByLayerCounts
    <3> QED
      BY <1>2, <3>3
  <2> QED
    BY <2>3
<1>7. /\ r.nodes = Append(g.nodes, node) /\ r.edges = g.edges /\ r.numLayers = g.numLayers
      /\ r.lanes = [g.lanes EXCEPT ![place] = list]
  BY <1>3, <1>4
<1>8. r.lanes \in [P -> L] /\ \A p \in P : r.lanes[p] = IF p = place THEN list ELSE g.lanes[p]
  BY <1>3, <1>6, <1>7
<1>9. r \in [nodes : N, edges : E, lanes : [P -> L], numLayers : Nat]
  BY <1>3, <1>4, <1>5, <1>8
<1>10. DOMAIN r.lanes = P
  BY <1>8
<1>11. IsGraph(r)
  BY <1>2, <1>9, <1>10 DEF IsGraph
<1>12. NodeAdded(r, g, kind, place, layer)
  BY <1>1, <1>2, <1>7, <1>8, <1>10 DEF NodeAdded
<1> QED
  BY <1>1, <1>11, <1>12

(* A node without edges changes nothing for the edges, and the lane it is   *)
(* put into lists it.                                                       *)
LEMMA AddNodeKeeps ==
    ASSUME NEW g, IsGraph(g), NEW kind \in {"Event", "Gateway", "Task", "Data", "Dummy"},
           NEW place \in Nat \X Nat, NEW layer \in Nat, place \in DOMAIN g.lanes,
           EndsExist(g), LanesComplete(g), NEW x, MirroredBut(g, x),
           NEW r, IsGraph(r), NodeAdded(r, g, kind, place, layer)
    PROVE  EndsExist(r) /\ LanesComplete(r) /\ MirroredBut(r, x)
<1>1. PICK m \in Nat : m = Len(g.nodes) /\ DOMAIN g.nodes = 1..m
  BY GraphParts
<1>2. PICK node : node = NewNode(kind, place, layer)
  OBVIOUS
<1>3. Place(node) = place /\ node.incoming = <<>> /\ node.outgoing = <<>>
  <2>1. IsNewNode(node, kind, place, layer)
    BY <1>2, NewNodeIsNode
  <2> QED
    BY <2>1 DEF IsNewNode
<1>4. /\ DOMAIN r.nodes = 1..(m + 1) /\ r.nodes[m + 1] = node
      /\ \A n \in 1..m : r.nodes[n] = g.nodes[n]
  <2>1. PICK S : S = GraphNodes
    OBVIOUS
  <2>2. g.nodes \in Seq(S) /\ r.nodes = Append(g.nodes, node)
    BY <1>2, <2>1, GraphParts DEF NodeAdded
  <2> QED
    BY <1>1, <2>2
<1>5. r.edges = g.edges /\ DOMAIN r.lanes = DOMAIN g.lanes
  BY DEF NodeAdded
<1>6. DOMAIN g.nodes \subseteq DOMAIN r.nodes /\ m + 1 \notin DOMAIN g.nodes
  BY <1>1, <1>4
<1>7. \A n \in DOMAIN r.nodes : (n \in DOMAIN g.nodes /\ r.nodes[n] = g.nodes[n]) \/ n = m + 1
  BY <1>1, <1>4
<1>8. EndsExist(r)
  <2>1. \A e \in DOMAIN r.edges : {r.edges[e].from, r.edges[e].to} \subseteq DOMAIN r.nodes
    BY <1>5, <1>6 DEF EndsExist
  <2>2. \A n \in DOMAIN r.nodes : Place(r.nodes[n]) \in DOMAIN r.lanes
    BY <1>3, <1>4, <1>5, <1>7 DEF EndsExist
  <2> QED
    BY <2>1, <2>2 DEF EndsExist
<1>9. MirroredBut(r, x)
  <2>1. ToSet(<<>>) = {} /\ \A e : Count(<<>>, e) = 0
    BY CountEmpty DEF ToSet
  <2>2. \A e \in DOMAIN g.edges : g.edges[e].from # m + 1 /\ g.edges[e].to # m + 1
    BY <1>6 DEF EndsExist
  <2>3. \A n \in DOMAIN r.nodes :
          /\ ToSet(r.nodes[n].incoming) \subseteq DOMAIN r.edges
          /\ ToSet(r.nodes[n].outgoing) \subseteq DOMAIN r.edges
    BY <1>3, <1>4, <1>5, <1>7, <2>1 DEF MirroredBut
  <2>4. ASSUME NEW e \in DOMAIN r.edges, NEW n \in DOMAIN r.nodes
        PROVE  LET listed == IF r.edges[e].type = "Replaced" /\ e # x THEN 0 ELSE 1
               IN /\ Count(r.nodes[n].outgoing, e) = IF r.edges[e].from = n THEN listed ELSE 0
                  /\ Count(r.nodes[n].incoming, e) = IF r.edges[e].to = n THEN listed ELSE 0
    <3>1. CASE n = m + 1
      BY <1>3, <1>4, <1>5, <2>1, <2>2, <3>1
    <3>2. CASE n \in DOMAIN g.nodes /\ r.nodes[n] = g.nodes[n]
      BY <1>5, <3>2 DEF MirroredBut
    <3> QED
      BY <1>7, <3>1, <3>2
  <2> QED
    BY <2>3, <2>4 DEF MirroredBut
<1>10. ASSUME NEW p \in DOMAIN r.lanes
       PROVE  /\ ToSet(r.lanes[p]) \subseteq DOMAIN r.nodes
              /\ \A n \in DOMAIN r.nodes :
                    Count(r.lanes[p], n) = IF Place(r.nodes[n]) = p THEN 1 ELSE 0
  <2>1. PICK list \in Seq(Nat) : list = g.lanes[p]
    BY <1>5, GraphParts
  <2>2. /\ ToSet(list) \subseteq DOMAIN g.nodes
        /\ \A n \in DOMAIN g.nodes : Count(list, n) = IF Place(g.nodes[n]) = p THEN 1 ELSE 0
    BY <1>5, <2>1 DEF LanesComplete
  <2>3. Count(list, m + 1) = 0
    <3>1. m + 1 \notin ToSet(list)
      BY <1>6, <2>2
    <3> QED
      BY <3>1, CountType
  <2>4. PICK new : new = r.lanes[p]
    OBVIOUS
  <2>5. CASE p = place
    <3>1. PICK k \in Nat : k = m + 1
      OBVIOUS
    <3>2. new = InsertedByLayer(g, list, k, layer)
      BY <1>1, <1>5, <2>1, <2>4, <2>5, <3>1 DEF NodeAdded
    <3>3. /\ ToSet(new) \subseteq ToSet(list) \union {k}
          /\ \A n : Count(new, n) = Count(list, n) + (IF n = k THEN 1 ELSE 0)
      <4>1. ListsOneMore(new, list, k)
        BY <3>2, InsertedByLayerCounts
      <4> QED
        BY <4>1 DEF ListsOneMore
    <3>4. ToSet(new) \subseteq DOMAIN r.nodes
      BY <1>4, <1>6, <2>2, <3>1, <3>3
    <3>5. ASSUME NEW n \in DOMAIN r.nodes
          PROVE  Count(new, n) = IF Place(r.nodes[n]) = p THEN 1 ELSE 0
      <4>1. CASE n = m + 1
        BY <1>3, <1>4, <2>3, <2>5, <3>1, <3>3, <4>1
      <4>2. CASE n # m + 1
        BY <1>7, <2>2, <3>1, <3>3, <4>2
      <4> QED
        BY <4>1, <4>2
    <3> QED
      BY <2>4, <3>4, <3>5
  <2>6. CASE p # place
    <3>1. new = list
      BY <1>5, <2>1, <2>4, <2>6 DEF NodeAdded
    <3>2. ASSUME NEW n \in DOMAIN r.nodes
          PROVE  Count(new, n) = IF Place(r.nodes[n]) = p THEN 1 ELSE 0
      BY <1>3, <1>4, <1>7, <2>2, <2>3, <2>6, <3>1
    <3> QED
      BY <1>6, <2>2, <2>4, <3>1, <3>2
  <2> QED
    BY <2>5, <2>6
<1>11. LanesComplete(r)
  BY <1>10 DEF LanesComplete
<1> QED
  BY <1>8, <1>9, <1>11

-----------------------------------------------------------------------------
(* Replaced edges *)

(* The graph without edge e in the lists of its ends.                       *)
Unlisted(g, e, from, to) ==
    [g EXCEPT !.nodes[from].outgoing = Dropped(@, e), !.nodes[to].incoming = Dropped(@, e)]

(* What taking an edge out of the lists does, field by field.               *)
EdgeUnlisted(r, g, e, from, to) ==
    /\ r.edges = g.edges /\ r.lanes = g.lanes /\ r.numLayers = g.numLayers
    /\ DOMAIN r.nodes = DOMAIN g.nodes
    /\ \A n \in DOMAIN g.nodes :
          /\ SameNode(r.nodes[n], g.nodes[n])
          /\ r.nodes[n].incoming = IF n = to THEN Dropped(g.nodes[n].incoming, e) ELSE g.nodes[n].incoming
          /\ r.nodes[n].outgoing = IF n = from THEN Dropped(g.nodes[n].outgoing, e)
                                   ELSE g.nodes[n].outgoing

(* The lists of the other edges are left alone.                             *)
LEMMA UnlistedEffect ==
    ASSUME NEW g, IsGraph(g), NEW e, NEW from \in DOMAIN g.nodes, NEW to \in DOMAIN g.nodes
    PROVE  IsGraph(Unlisted(g, e, from, to)) /\ EdgeUnlisted(Unlisted(g, e, from, to), g, e, from, to)
<1> DEFINE incoming == [n \in DOMAIN g.nodes |-> IF n = to THEN Dropped(g.nodes[n].incoming, e)
                                                           ELSE g.nodes[n].incoming]
           outgoing == [n \in DOMAIN g.nodes |-> IF n = from THEN Dropped(g.nodes[n].outgoing, e)
                                                             ELSE g.nodes[n].outgoing]
           left == [g.nodes EXCEPT ![from].outgoing = Dropped(@, e)]
           both == [left EXCEPT ![to].incoming = Dropped(@, e)]
           nodes == [n \in DOMAIN g.nodes |-> Relisted(g.nodes[n], incoming[n], outgoing[n])]
<1>1. PICK D : D = DOMAIN g.nodes
  OBVIOUS
<1>2. \A n \in D : g.nodes[n] \in GraphNodes
  BY <1>1, GraphParts
<1>3. g.nodes = [n \in D |-> g.nodes[n]]
  <2>1. g.nodes \in Seq(GraphNodes)
    BY GraphParts
  <2>2. PICK N : N = GraphNodes
    OBVIOUS
  <2> QED
    BY <1>1, <2>1, <2>2
<1>4. /\ left = [n \in D |-> Relisted(g.nodes[n], g.nodes[n].incoming, outgoing[n])]
      /\ \A n \in D : left[n] = Relisted(g.nodes[n], g.nodes[n].incoming, outgoing[n])
  <2>1. left = [n \in D |-> IF n = from
                            THEN [g.nodes[n] EXCEPT !.outgoing = Dropped(g.nodes[n].outgoing, e)]
                            ELSE g.nodes[n]]
    BY <1>1, <1>3
  <2>2. ASSUME NEW n \in D
        PROVE  (IF n = from THEN [g.nodes[n] EXCEPT !.outgoing = Dropped(g.nodes[n].outgoing, e)]
                ELSE g.nodes[n]) = Relisted(g.nodes[n], g.nodes[n].incoming, outgoing[n])
    <3>1. PICK node \in GraphNodes : node = g.nodes[n]
      BY <1>2
    <3>2. PICK list : list = Dropped(g.nodes[n].outgoing, e)
      OBVIOUS
    <3>3. outgoing[n] = IF n = from THEN list ELSE node.outgoing
      BY <1>1, <3>1, <3>2
    <3>4. /\ [node EXCEPT !.outgoing = list] = Relisted(node, node.incoming, list)
          /\ node = Relisted(node, node.incoming, node.outgoing)
      BY RelistOne
    <3> HIDE DEF outgoing
    <3> QED
      BY <3>1, <3>2, <3>3, <3>4
  <2> HIDE DEF left, outgoing
  <2> QED
    BY <2>1, <2>2
<1>5. both = [n \in D |-> Relisted(g.nodes[n], incoming[n], outgoing[n])]
  <2>1. both = [n \in D |-> IF n = to
                            THEN [left[n] EXCEPT !.incoming = Dropped(left[n].incoming, e)]
                            ELSE left[n]]
    <3> HIDE DEF left
    <3> QED
      BY <1>1, <1>4
  <2>2. ASSUME NEW n \in D
        PROVE  (IF n = to THEN [left[n] EXCEPT !.incoming = Dropped(left[n].incoming, e)]
                ELSE left[n]) = Relisted(g.nodes[n], incoming[n], outgoing[n])
    <3>1. /\ left[n] = Relisted(g.nodes[n], g.nodes[n].incoming, outgoing[n])
          /\ g.nodes[n] \in GraphNodes
          /\ incoming[n] = IF n = to THEN Dropped(g.nodes[n].incoming, e) ELSE g.nodes[n].incoming
      <4> HIDE DEF left, outgoing
      <4> QED
        BY <1>1, <1>2, <1>4
    <3> HIDE DEF left, incoming, outgoing
    <3>2. left[n].incoming = g.nodes[n].incoming
      <4>1. PICK L : L = Seq(Nat)
        OBVIOUS
      <4> QED
        BY <3>1, <4>1 DEF Relisted, GraphNodes
    <3>3. \A list : [left[n] EXCEPT !.incoming = list] = Relisted(g.nodes[n], list, outgoing[n])
      <4>1. PICK L : L = Seq(Nat)
        OBVIOUS
      <4> QED
        BY <3>1, <4>1 DEF Relisted, GraphNodes
    <3> QED
      BY <3>1, <3>2, <3>3
  <2> HIDE DEF left, incoming, outgoing, both
  <2> QED
    BY <2>1, <2>2
<1>6. PICK r : r = Unlisted(g, e, from, to)
  OBVIOUS
<1>7. r = [g EXCEPT !.nodes = both]
  BY <1>6 DEF Unlisted
<1>8. incoming \in [DOMAIN g.nodes -> Seq(Nat)] /\ outgoing \in [DOMAIN g.nodes -> Seq(Nat)]
  <2>1. \A n \in DOMAIN g.nodes : g.nodes[n].incoming \in Seq(Nat) /\ g.nodes[n].outgoing \in Seq(Nat)
    BY NodeLists
  <2>2. \A n \in DOMAIN g.nodes : /\ Dropped(g.nodes[n].incoming, e) \in Seq(Nat)
                                  /\ Dropped(g.nodes[n].outgoing, e) \in Seq(Nat)
    BY <2>1, CountDropped
  <2> QED
    BY <2>1, <2>2
<1>9. \A n \in DOMAIN g.nodes :
         /\ incoming[n] = IF n = to THEN Dropped(g.nodes[n].incoming, e) ELSE g.nodes[n].incoming
         /\ outgoing[n] = IF n = from THEN Dropped(g.nodes[n].outgoing, e) ELSE g.nodes[n].outgoing
  OBVIOUS
<1> HIDE DEF both, left, incoming, outgoing
<1>10. r = Rewired(g, g.edges, incoming, outgoing)
  <2>1. r = [g EXCEPT !.edges = g.edges, !.nodes = both]
    <3>1. PICK S, F, P : g \in [nodes : S, edges : F, lanes : P, numLayers : Nat]
      BY DEF IsGraph
    <3> QED
      BY <1>7, <3>1
  <2> QED
    BY <1>1, <1>5, <2>1 DEF Rewired
<1>11. g.edges \in Seq(GraphEdges)
  BY GraphParts
<1>12. IsGraph(r) /\ IsRewired(r, g, g.edges, incoming, outgoing)
  BY <1>8, <1>10, <1>11, RewiredIsGraph
<1>13. EdgeUnlisted(r, g, e, from, to)
  BY <1>9, <1>12 DEF EdgeUnlisted, IsRewired
<1> QED
  BY <1>6, <1>12, <1>13

(* When a replaced edge has left the lists, they show what the edges say.   *)
LEMMA UnlistedMirrored ==
    ASSUME NEW g, IsGraph(g), NEW e \in DOMAIN g.edges, g.edges[e].type = "Replaced",
           MirroredBut(g, e), NEW r, EdgeUnlisted(r, g, e, g.edges[e].from, g.edges[e].to)
    PROVE  Mirrored(r) /\ SamePlaces(r, g) /\ r.edges = g.edges
<1>1. PICK from, to : from = g.edges[e].from /\ to = g.edges[e].to
  OBVIOUS
<1>2. r.edges = g.edges /\ DOMAIN r.nodes = DOMAIN g.nodes /\ SamePlaces(r, g)
  BY DEF EdgeUnlisted, SamePlaces
<1>3. ASSUME NEW n \in DOMAIN g.nodes
      PROVE  /\ ListsTurned(r.nodes[n].incoming, g.nodes[n].incoming, e, 0)
             /\ ListsTurned(r.nodes[n].outgoing, g.nodes[n].outgoing, e, 0)
  <2>1. PICK in, out, rin, rout : /\ in = g.nodes[n].incoming /\ out = g.nodes[n].outgoing
                                  /\ rin = r.nodes[n].incoming /\ rout = r.nodes[n].outgoing
    OBVIOUS
  <2>2. in \in Seq(Nat) /\ out \in Seq(Nat) /\ e \in Nat
    BY <2>1, NodeLists, GraphParts
  <2>3. /\ rin = IF n = to THEN Dropped(in, e) ELSE in
        /\ rout = IF n = from THEN Dropped(out, e) ELSE out
    BY <1>1, <2>1 DEF EdgeUnlisted
  <2>4. /\ n # from => Count(out, e) = 0
        /\ n # to => Count(in, e) = 0
    BY <1>1, <2>1 DEF MirroredBut
  <2>5. ListsTurned(rin, in, e, 0)
    <3>1. CASE n = to
      BY <2>2, <2>3, <3>1, CountTurnedEdge
    <3>2. CASE n # to
      BY <2>3, <2>4, <3>2 DEF ListsTurned
    <3> QED
      BY <3>1, <3>2
  <2>6. ListsTurned(rout, out, e, 0)
    <3>1. CASE n = from
      BY <2>2, <2>3, <3>1, CountTurnedEdge
    <3>2. CASE n # from
      BY <2>3, <2>4, <3>2 DEF ListsTurned
    <3> QED
      BY <3>1, <3>2
  <2> QED
    BY <2>1, <2>5, <2>6
<1>4. ASSUME NEW n \in DOMAIN g.nodes
      PROVE  /\ ToSet(r.nodes[n].incoming) \subseteq DOMAIN g.edges
             /\ ToSet(r.nodes[n].outgoing) \subseteq DOMAIN g.edges
  BY <1>3 DEF MirroredBut, ListsTurned
<1>5. ASSUME NEW d \in DOMAIN g.edges, NEW n \in DOMAIN g.nodes
      PROVE  LET listed == IF r.edges[d].type = "Replaced" THEN 0 ELSE 1
             IN /\ Count(r.nodes[n].outgoing, d) = IF r.edges[d].from = n THEN listed ELSE 0
                /\ Count(r.nodes[n].incoming, d) = IF r.edges[d].to = n THEN listed ELSE 0
  <2>1. CASE d = e
    BY <1>2, <1>3, <2>1 DEF ListsTurned
  <2>2. CASE d # e
    <3>1. /\ Count(r.nodes[n].outgoing, d) = Count(g.nodes[n].outgoing, d)
          /\ Count(r.nodes[n].incoming, d) = Count(g.nodes[n].incoming, d)
      BY <1>3, <2>2 DEF ListsTurned
    <3> QED
      BY <1>2, <2>2, <3>1 DEF MirroredBut
  <2> QED
    BY <2>1, <2>2
<1> QED
  BY <1>2, <1>4, <1>5 DEF Mirrored

(* An edge is marked as replaced by the edges from `first` on.              *)
Marked(g, e, first) == [g EXCEPT !.edges[e].type = "Replaced", !.edges[e].first = first]

(* What marking an edge does, field by field.                               *)
IsMarked(r, g, e, first) ==
    /\ r.nodes = g.nodes /\ r.lanes = g.lanes /\ r.numLayers = g.numLayers
    /\ r.edges = [g.edges EXCEPT ![e] = [@ EXCEPT !.type = "Replaced", !.first = first]]

(* Until it leaves the lists it is the only one that is replaced and        *)
(* listed.                                                                  *)
LEMMA MarkedKeeps ==
    ASSUME NEW g, IsGraph(g), EndsExist(g), LanesComplete(g), Mirrored(g),
           NEW e \in DOMAIN g.edges, g.edges[e].type # "Replaced",
           NEW first \in Nat, NEW r, r = Marked(g, e, first)
    PROVE  /\ IsGraph(r) /\ EndsExist(r) /\ LanesComplete(r) /\ MirroredBut(r, e)
           /\ IsMarked(r, g, e, first)
<1>1. PICK N, E, P, L : /\ N = Seq(GraphNodes) /\ E = GraphEdges /\ P = DOMAIN g.lanes
                        /\ L = Seq(Nat)
  OBVIOUS
<1>2. g \in [nodes : N, edges : Seq(E), lanes : [P -> L], numLayers : Nat]
  BY <1>1 DEF IsGraph
<1>3. PICK edges : edges = [g.edges EXCEPT ![e] = [@ EXCEPT !.type = "Replaced", !.first = first]]
  OBVIOUS
<1>4. r = [g EXCEPT !.edges = edges]
  <2>1. edges = [g.edges EXCEPT ![e].type = "Replaced", ![e].first = first]
    BY <1>3
  <2>2. r = [g EXCEPT !.edges = [@ EXCEPT ![e].type = "Replaced", ![e].first = first]]
    BY DEF Marked
  <2> QED
    BY <2>1, <2>2
<1>5. g.edges[e] \in GraphEdges
  BY GraphParts
<1>6. PICK new : new = [g.edges[e] EXCEPT !.type = "Replaced", !.first = first]
  OBVIOUS
<1>7. new \in GraphEdges /\ new.from = g.edges[e].from /\ new.to = g.edges[e].to /\ new.type = "Replaced"
  BY <1>5, <1>6 DEF GraphEdges
<1>8. /\ edges \in Seq(E) /\ DOMAIN edges = DOMAIN g.edges /\ edges[e] = new
      /\ \A d \in DOMAIN g.edges : d # e => edges[d] = g.edges[d]
  BY <1>1, <1>2, <1>3, <1>6, <1>7
<1>9. r \in [nodes : N, edges : Seq(E), lanes : [P -> L], numLayers : Nat]
  BY <1>2, <1>4, <1>8
<1>10. r.nodes = g.nodes /\ r.lanes = g.lanes /\ r.numLayers = g.numLayers /\ r.edges = edges
  BY <1>2, <1>4
<1>11. IsGraph(r)
  BY <1>1, <1>9, <1>10 DEF IsGraph
<1>12. EndsExist(r)
  <2>1. \A d \in DOMAIN edges : edges[d].from = g.edges[d].from /\ edges[d].to = g.edges[d].to
    BY <1>7, <1>8
  <2> QED
    BY <1>8, <1>10, <2>1 DEF EndsExist
<1>13. MirroredBut(r, e)
  BY <1>7, <1>8, <1>10 DEF Mirrored, MirroredBut
<1>14. LanesComplete(r)
  BY <1>10 DEF LanesComplete
<1>15. IsMarked(r, g, e, first)
  BY <1>3, <1>10 DEF IsMarked
<1> QED
  BY <1>11, <1>12, <1>13, <1>14, <1>15
=============================================================================
