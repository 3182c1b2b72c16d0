------------------------ MODULE CrossingOutcomeProofs ------------------------
(***************************************************************************)
(* What becomes of the edges and of lone data nodes, whatever order the    *)
(* integer program chooses: the rerouting is undone completely unless two  *)
(* edges within a layer are entangled, lone data ends beside its           *)
(* neighbour, and nothing panics but on known kinds of files.              *)
(***************************************************************************)
EXTENDS CrossingMinimizationProofs

-----------------------------------------------------------------------------
(* Which rerouted edges leave and reach a node by edges of the rerouting    *)

LEMMA OneMore ==
    ASSUME NEW S, IsFiniteSet(S), NEW x, x \notin S
    PROVE  Cardinality(S) \in Nat /\ Cardinality(S \union {x}) = Cardinality(S) + 1
BY FS_CardinalityType, FS_AddElement

LEMMA FinitePart ==
    ASSUME NEW R, NEW s \in Seq(R), NEW S, S \subseteq DOMAIN s
    PROVE  IsFiniteSet(S)
<1>1. PICK l \in Nat : DOMAIN s = 1..l
  BY LenProperties
<1> QED
  BY <1>1, FS_Interval, FS_Subset

(* One more edge is rerouted.                                               *)
OneMoreSaved(t, s, b, l, id, from, to, left, n) ==
    /\ DOMAIN s = 1..l /\ DOMAIN t = 1..(l + 1) /\ Len(t) = l + 1 /\ Len(s) = l
    /\ \A i \in 1..l : t[i] = s[i]
    /\ Cardinality(LeavesIn(s, {}, n)) \in Nat
    /\ Cardinality(LeavesIn(t, {}, n)) = Cardinality(LeavesIn(s, {}, n)) + IF n = to THEN 1 ELSE 0
    /\ \A x : x \in {t[i].id : i \in LeavesIn(t, {}, n)} <=>
                 x \in {s[i].id : i \in LeavesIn(s, {}, n)} \/ (n = to /\ x = id)
    /\ Cardinality(FromLeftIn(b, s, {}, n)) \in Nat
    /\ Cardinality(FromLeftIn(b, t, {}, n)) =
          Cardinality(FromLeftIn(b, s, {}, n)) + IF left /\ n \in {from, to} THEN 1 ELSE 0
    /\ Cardinality(WithLeftIn(b, s)) \in Nat
    /\ Cardinality(WithLeftIn(b, t)) = Cardinality(WithLeftIn(b, s)) + IF left THEN 1 ELSE 0

LEMMA SavedAppended ==
    ASSUME NEW R, NEW s \in Seq(R), NEW l \in Nat, l = Len(s), NEW rec \in R, NEW b,
           NEW t, t = Append(s, rec), NEW n, NEW left, left = (b.nodes[rec.edge.to].layer > 0)
    PROVE  OneMoreSaved(t, s, b, l, rec.id, rec.edge.from, rec.edge.to, left, n)
<1>1. PICK id, from, to : id = rec.id /\ from = rec.edge.from /\ to = rec.edge.to
  OBVIOUS
<1>2. /\ DOMAIN s = 1..l /\ DOMAIN t = 1..(l + 1) /\ Len(t) = l + 1 /\ t[l + 1] = rec
      /\ \A i \in 1..l : t[i] = s[i]
  OBVIOUS
<1>3. \A i : i \in 1..(l + 1) <=> i \in 1..l \/ i = l + 1
  OBVIOUS
<1>4. l + 1 \notin 1..l
  OBVIOUS
<1>5. /\ IsFiniteSet(LeavesIn(s, {}, n)) /\ IsFiniteSet(FromLeftIn(b, s, {}, n))
      /\ IsFiniteSet(WithLeftIn(b, s))
  <2>1. /\ LeavesIn(s, {}, n) \subseteq DOMAIN s /\ FromLeftIn(b, s, {}, n) \subseteq DOMAIN s
        /\ WithLeftIn(b, s) \subseteq DOMAIN s
    BY DEF LeavesIn, FromLeftIn, WithLeftIn
  <2> QED
    BY <2>1, FinitePart
<1>6. LeavesIn(t, {}, n) = IF n = to THEN LeavesIn(s, {}, n) \union {l + 1} ELSE LeavesIn(s, {}, n)
  BY <1>1, <1>2, <1>3, <1>4 DEF LeavesIn
<1>7. \A i \in 1..l : HasLeftIn(b, t, i) = HasLeftIn(b, s, i)
  BY <1>2 DEF HasLeftIn
<1>8. HasLeftIn(b, t, l + 1) = left
  BY <1>2 DEF HasLeftIn
<1>9. FromLeftIn(b, t, {}, n) = IF left /\ n \in {from, to} THEN FromLeftIn(b, s, {}, n) \union {l + 1}
                                ELSE FromLeftIn(b, s, {}, n)
  BY <1>1, <1>2, <1>3, <1>4, <1>7, <1>8 DEF FromLeftIn
<1>10. WithLeftIn(b, t) = IF left THEN WithLeftIn(b, s) \union {l + 1} ELSE WithLeftIn(b, s)
  BY <1>2, <1>3, <1>4, <1>7, <1>8 DEF WithLeftIn
<1>11. /\ l + 1 \notin LeavesIn(s, {}, n) /\ l + 1 \notin FromLeftIn(b, s, {}, n)
       /\ l + 1 \notin WithLeftIn(b, s)
  BY <1>2, <1>4 DEF LeavesIn, FromLeftIn, WithLeftIn
<1>12. /\ Cardinality(LeavesIn(s, {}, n)) \in Nat
       /\ Cardinality(LeavesIn(t, {}, n)) = Cardinality(LeavesIn(s, {}, n)) + IF n = to THEN 1 ELSE 0
  <2>1. Cardinality(LeavesIn(s, {}, n) \union {l + 1}) = Cardinality(LeavesIn(s, {}, n)) + 1
    BY <1>5, <1>11, OneMore
  <2>2. Cardinality(LeavesIn(s, {}, n)) \in Nat
    BY <1>5, <1>11, OneMore
  <2>3. PICK k \in Nat : k = Cardinality(LeavesIn(s, {}, n))
    BY <2>2
  <2>4. CASE n = to
    <3>1. Cardinality(LeavesIn(t, {}, n)) = k + 1
      BY <1>6, <2>1, <2>3, <2>4
    <3> QED
      BY <2>3, <2>4, <3>1
  <2>5. CASE n # to
    <3>1. Cardinality(LeavesIn(t, {}, n)) = k
      BY <1>6, <2>3, <2>5
    <3> QED
      BY <2>3, <2>5, <3>1
  <2> QED
    BY <2>4, <2>5
<1>13. /\ Cardinality(FromLeftIn(b, s, {}, n)) \in Nat
       /\ Cardinality(FromLeftIn(b, t, {}, n)) =
             Cardinality(FromLeftIn(b, s, {}, n)) + IF left /\ n \in {from, to} THEN 1 ELSE 0
  <2>1. Cardinality(FromLeftIn(b, s, {}, n) \union {l + 1}) = Cardinality(FromLeftIn(b, s, {}, n)) + 1
    BY <1>5, <1>11, OneMore
  <2>2. Cardinality(FromLeftIn(b, s, {}, n)) \in Nat
    BY <1>5, <1>11, OneMore
  <2>3. PICK k \in Nat : k = Cardinality(FromLeftIn(b, s, {}, n))
    BY <2>2
  <2>4. CASE left /\ n \in {from, to}
    <3>1. Cardinality(FromLeftIn(b, t, {}, n)) = k + 1
      BY <1>9, <2>1, <2>3, <2>4
    <3> QED
      BY <2>3, <2>4, <3>1
  <2>5. CASE ~(left /\ n \in {from, to})
    <3>1. Cardinality(FromLeftIn(b, t, {}, n)) = k
      BY <1>9, <2>3, <2>5
    <3> QED
      BY <2>3, <2>5, <3>1
  <2> QED
    BY <2>4, <2>5
<1>14. /\ Cardinality(WithLeftIn(b, s)) \in Nat
       /\ Cardinality(WithLeftIn(b, t)) = Cardinality(WithLeftIn(b, s)) + IF left THEN 1 ELSE 0
  <2>1. Cardinality(WithLeftIn(b, s) \union {l + 1}) = Cardinality(WithLeftIn(b, s)) + 1
    BY <1>5, <1>11, OneMore
  <2>2. Cardinality(WithLeftIn(b, s)) \in Nat
    BY <1>5, <1>11, OneMore
  <2> QED
    BY <1>10, <2>1, <2>2
<1>15. \A x : x \in {t[i].id : i \in LeavesIn(t, {}, n)} <=>
                 x \in {s[i].id : i \in LeavesIn(s, {}, n)} \/ (n = to /\ x = id)
  <2>1. \A i \in LeavesIn(s, {}, n) : t[i].id = s[i].id
    BY <1>2 DEF LeavesIn
  <2> QED
    BY <1>1, <1>2, <1>6, <2>1
<1> QED
  BY <1>1, <1>2, <1>12, <1>13, <1>14, <1>15 DEF OneMoreSaved

(* The i-th of them is undone.                                              *)
OneMoreUndone(s, b, i, id, from, to, left, n) ==
    LET U == 1..(i - 1)
        V == 1..i
    IN /\ Cardinality(LeavesIn(s, V, n)) \in Nat
       /\ Cardinality(LeavesIn(s, U, n)) = Cardinality(LeavesIn(s, V, n)) + IF n = to THEN 1 ELSE 0
       /\ \A x : x \in {s[j].id : j \in LeavesIn(s, V, n)} <=>
                    x \in {s[j].id : j \in LeavesIn(s, U, n)} /\ ~(n = to /\ x = id)
       /\ n = to => id \in {s[j].id : j \in LeavesIn(s, U, n)}
       /\ Cardinality(FromLeftIn(b, s, V, n)) \in Nat
       /\ Cardinality(FromLeftIn(b, s, U, n)) =
             Cardinality(FromLeftIn(b, s, V, n)) + IF left /\ n \in {from, to} THEN 1 ELSE 0

LEMMA SavedUndone ==
    ASSUME NEW R, NEW s \in Seq(R), NEW i \in DOMAIN s, NEW b,
           \A j, k \in DOMAIN s : s[j].id = s[k].id => j = k,
           NEW n, NEW left, left = HasLeftIn(b, s, i)
    PROVE  OneMoreUndone(s, b, i, s[i].id, s[i].edge.from, s[i].edge.to, left, n)
<1>1. PICK U, V : U = 1..(i - 1) /\ V = 1..i
  OBVIOUS
<1>2. i \in DOMAIN s \ U /\ DOMAIN s \ V = (DOMAIN s \ U) \ {i}
  <2>1. PICK l \in Nat : DOMAIN s = 1..l
    BY LenProperties
  <2>2. i \in Nat
    BY <2>1
  <2>3. i \notin U /\ \A j : j \in V <=> j \in U \/ j = i
    BY <1>1, <2>1, <2>2
  <2> QED
    BY <2>3
<1>3. PICK id, from, to : id = s[i].id /\ from = s[i].edge.from /\ to = s[i].edge.to
  OBVIOUS
<1>4. /\ LeavesIn(s, U, n) = IF n = to THEN LeavesIn(s, V, n) \union {i} ELSE LeavesIn(s, V, n)
      /\ i \notin LeavesIn(s, V, n)
  BY <1>2, <1>3 DEF LeavesIn
<1>5. /\ FromLeftIn(b, s, U, n) = IF left /\ n \in {from, to} THEN FromLeftIn(b, s, V, n) \union {i}
                                  ELSE FromLeftIn(b, s, V, n)
      /\ i \notin FromLeftIn(b, s, V, n)
  BY <1>2, <1>3 DEF FromLeftIn
<1>6. IsFiniteSet(LeavesIn(s, V, n)) /\ IsFiniteSet(FromLeftIn(b, s, V, n))
  <2>1. LeavesIn(s, V, n) \subseteq DOMAIN s /\ FromLeftIn(b, s, V, n) \subseteq DOMAIN s
    BY DEF LeavesIn, FromLeftIn
  <2> QED
    BY <2>1, FinitePart
<1>7. /\ Cardinality(LeavesIn(s, V, n)) \in Nat
      /\ Cardinality(LeavesIn(s, U, n)) = Cardinality(LeavesIn(s, V, n)) + IF n = to THEN 1 ELSE 0
  <2>1. Cardinality(LeavesIn(s, V, n) \union {i}) = Cardinality(LeavesIn(s, V, n)) + 1
    BY <1>4, <1>6, OneMore
  <2>2. Cardinality(LeavesIn(s, V, n)) \in Nat
    BY <1>4, <1>6, OneMore
  <2> QED
    BY <1>4, <2>1, <2>2
<1>8. /\ Cardinality(FromLeftIn(b, s, V, n)) \in Nat
      /\ Cardinality(FromLeftIn(b, s, U, n)) =
            Cardinality(FromLeftIn(b, s, V, n)) + IF left /\ n \in {from, to} THEN 1 ELSE 0
  <2>1. Cardinality(FromLeftIn(b, s, V, n) \union {i}) = Cardinality(FromLeftIn(b, s, V, n)) + 1
    BY <1>5, <1>6, OneMore
  <2>2. Cardinality(FromLeftIn(b, s, V, n)) \in Nat
    BY <1>5, <1>6, OneMore
  <2> QED
    BY <1>5, <2>1, <2>2
<1>9. \A x : x \in {s[j].id : j \in LeavesIn(s, V, n)} <=>
                    x \in {s[j].id : j \in LeavesIn(s, U, n)} /\ ~(n = to /\ x = id)
  <2>1. \A j \in LeavesIn(s, V, n) : s[j].id # id
    BY <1>3, <1>4 DEF LeavesIn
  <2> QED
    BY <1>3, <1>4, <2>1
<1>10. n = to => id \in {s[j].id : j \in LeavesIn(s, U, n)}
  BY <1>3, <1>4
<1> QED
  BY <1>1, <1>3, <1>7, <1>8, <1>9, <1>10 DEF OneMoreUndone

LEMMA OutgoingAppended ==
    ASSUME NEW out, NEW old, NEW c, OutgoingFits(out, old, c), NEW x \in Nat,
           NEW r, r = Append(out, x), NEW d, d = c + 1
    PROVE  OutgoingFits(r, old, d)
<1>1. out \in Seq(Nat) /\ old \in Seq(Nat)
  BY DEF OutgoingFits
<1>2. PICK k \in Nat : k = Len(old) /\ DOMAIN old = 1..k
  BY <1>1
<1>3. PICK l \in Nat : l = Len(out) /\ DOMAIN out = 1..l
  BY <1>1
<1>4. c \in Nat /\ l = k + c /\ d = c + 1
  BY <1>2, <1>3 DEF OutgoingFits
<1>5. r \in Seq(Nat) /\ Len(r) = l + 1 /\ \A p \in 1..l : r[p] = out[p]
  BY <1>1, <1>3
<1>6. d \in Nat /\ l + 1 = k + d /\ \A p \in 1..k : p \in 1..l
  BY <1>4
<1>7. \A p \in 1..k : r[p] = old[p]
  BY <1>2, <1>5, <1>6 DEF OutgoingFits
<1> QED
  BY <1>1, <1>2, <1>5, <1>6, <1>7 DEF OutgoingFits

LEMMA OutgoingPopped ==
    ASSUME NEW out, NEW old, NEW d, NEW c \in Nat, d = c + 1, OutgoingFits(out, old, d),
           NEW r, r = Popped(out)
    PROVE  OutgoingFits(r, old, c)
<1>1. PICK k \in Nat : k = Len(old) /\ DOMAIN old = 1..k
  BY DEF OutgoingFits
<1>2. out \in Seq(Nat) /\ Len(out) = k + (c + 1)
  BY <1>1 DEF OutgoingFits
<1>3. out # <<>>
  BY <1>2
<1>4. PICK l \in Nat : IsPopped(r, out, l)
  BY <1>2, <1>3, PoppedEffect
<1>5. r \in Seq(Nat) /\ Len(r) = l /\ Len(out) = l + 1 /\ \A p \in 1..l : r[p] = out[p]
  BY <1>4 DEF IsPopped
<1>6. l = k + c /\ \A p \in 1..k : p \in 1..l
  BY <1>2, <1>5
<1>7. \A p \in 1..k : r[p] = old[p]
  BY <1>1, <1>5, <1>6 DEF OutgoingFits
<1>8. old \in Seq(Nat)
  BY DEF OutgoingFits
<1> QED
  BY <1>1, <1>5, <1>6, <1>7, <1>8 DEF OutgoingFits

LEMMA IncomingRedirected ==
    ASSUME NEW m \in Nat, NEW in, NEW old, NEW T, NEW q, IncomingFits(in, old, T, q, m), NEW a \in 1..m,
           NEW r, r = Dropped(in, a), NEW S, \A x : x \in S <=> x \in T \/ x = a
    PROVE  IncomingFits(r, old, S, q, m)
<1>1. in \in Seq(Nat) /\ OnTop(in, q, m)
  BY DEF IncomingFits, OnTop
<1>2. OnTop(r, q, m)
  BY <1>1, TopDropped
<1>3. \A x : Count(r, x) = IF x = a THEN 0 ELSE Count(in, x)
  BY <1>1, CountDropped
<1>4. \A e \in 1..m : Count(r, e) = IF e \in S THEN 0 ELSE Count(old, e)
  BY <1>3 DEF IncomingFits
<1> QED
  BY <1>2, <1>4 DEF IncomingFits

LEMMA IncomingGrown ==
    ASSUME NEW m \in Nat, NEW in, NEW old, NEW T, NEW q, IncomingFits(in, old, T, q, m),
           NEW x \in Nat, x \notin 1..m, NEW r, r = Append(in, x), NEW p, p = q + 1
    PROVE  IncomingFits(r, old, T, p, m)
<1>1. in \in Seq(Nat) /\ OnTop(in, q, m)
  BY DEF IncomingFits, OnTop
<1>2. OnTop(r, p, m)
  BY <1>1, TopAppended
<1>3. \A e \in 1..m : Count(r, e) = Count(in, e)
  <2>1. \A e : Count(Append(in, x), e) = Count(in, e) + (IF e = x THEN 1 ELSE 0)
    BY <1>1, CountAppend
  <2>2. \A e : Count(in, e) \in Nat
    BY <1>1, CountType
  <2> QED
    BY <2>1, <2>2
<1> QED
  BY <1>2, <1>3 DEF IncomingFits

LEMMA IncomingPopped ==
    ASSUME NEW m \in Nat, NEW in, NEW old, NEW T, NEW p \in Nat, NEW q, q = p + 1,
           IncomingFits(in, old, T, q, m), NEW r, r = Popped(in)
    PROVE  IncomingFits(r, old, T, p, m)
<1>1. OnTop(in, q, m) /\ q # 0 /\ q - 1 = p
  BY DEF IncomingFits
<1>2. OnTop(r, q - 1, m) /\ \A x \in 1..m : Count(r, x) = Count(in, x)
  BY <1>1, TopPopped
<1> QED
  BY <1>1, <1>2 DEF IncomingFits

IsWithout(S, T, a) == \A x : x \in S <=> x \in T /\ x # a

LEMMA IncomingListed ==
    ASSUME NEW m \in Nat, NEW in, NEW old, NEW T, IncomingFits(in, old, T, 0, m),
           NEW a \in 1..m, a \in T, Count(old, a) = 1, NEW r, r = Append(in, a),
           NEW S, IsWithout(S, T, a)
    PROVE  IncomingFits(r, old, S, 0, m)
<1>1. in \in Seq(Nat) /\ OnTop(in, 0, m)
  BY DEF IncomingFits, OnTop
<1>2. OnTop(r, 0, m)
  <2>1. a \in Nat
    OBVIOUS
  <2>2. 0 = 0 /\ a \in 1..m => OnTop(r, 0, m)
    BY <1>1, <2>1, TopAppended
  <2> QED
    BY <2>2
<1>3. \A e : Count(r, e) = Count(in, e) + (IF e = a THEN 1 ELSE 0)
  BY <1>1, CountAppend
<1>4. \A e : Count(in, e) \in Nat
  BY <1>1, CountType
<1>5. \A e \in 1..m : Count(r, e) = IF e \in S THEN 0 ELSE Count(old, e)
  <2>1. ASSUME NEW e \in 1..m PROVE Count(r, e) = IF e \in S THEN 0 ELSE Count(old, e)
    <3>1. CASE e = a
      BY <1>3, <3>1 DEF IncomingFits, IsWithout
    <3>2. CASE e # a
      <4>1. Count(r, e) = Count(in, e)
        BY <1>3, <1>4, <3>2
      <4> QED
        BY <3>2, <4>1 DEF IncomingFits, IsWithout
    <3> QED
      BY <3>1, <3>2
  <2> QED
    BY <2>1
<1> QED
  BY <1>2, <1>5 DEF IncomingFits

(* What popping does to what a list holds once or not at all.               *)
HoldsLess(r, s) ==
    /\ r \in Seq(Nat)
    /\ \A x : Count(s, x) = 0 => Count(r, x) = 0
    /\ \A x : s # <<>> /\ Last(s) = x /\ Count(s, x) = 1 => Count(r, x) = 0

LEMMA PoppedHolds ==
    ASSUME NEW s \in Seq(Nat), NEW r, r = Popped(s)
    PROVE  HoldsLess(r, s)
<1>1. CASE s = <<>>
  BY <1>1 DEF Popped, HoldsLess
<1>2. CASE s # <<>>
  <2>1. PICK l \in Nat : IsPopped(r, s, l)
    BY <1>2, PoppedEffect
  <2>2. /\ r \in Seq(Nat) /\ Len(s) = l + 1
        /\ \A x : Count(r, x) \in Nat /\ Count(s, x) = Count(r, x) + (IF x = s[l + 1] THEN 1 ELSE 0)
    BY <2>1 DEF IsPopped
  <2>3. Last(s) = s[l + 1]
    BY <2>2 DEF Last
  <2> QED
    BY <1>2, <2>2, <2>3 DEF HoldsLess
<1> QED
  BY <1>1, <1>2

EndsWith(r, s, y) ==
    /\ r \in Seq(Nat) /\ r # <<>> /\ Last(r) = y
    /\ \A x : x # y => Count(r, x) = Count(s, x)
    /\ Count(s, y) = 0 => Count(r, y) = 1

LEMMA AppendedHolds ==
    ASSUME NEW s \in Seq(Nat), NEW y \in Nat, NEW r, r = Append(s, y)
    PROVE  EndsWith(r, s, y)
<1>1. \A x : Count(s, x) \in Nat /\ Count(r, x) = Count(s, x) + (IF x = y THEN 1 ELSE 0)
  <2>1. \A x : Count(Append(s, y), x) = Count(s, x) + (IF x = y THEN 1 ELSE 0)
    BY CountAppend
  <2>2. \A x : Count(s, x) \in Nat
    BY CountType
  <2> QED
    BY <2>1, <2>2
<1>2. r \in Seq(Nat) /\ r # <<>> /\ Last(r) = y
  BY DEF Last
<1> QED
  BY <1>1, <1>2 DEF EndsWith

(* An edge within a layer is led over a node on the right and, unless it is  *)
(* in layer 0, over one on the left.                                        *)
Overlaid(r, g, a, from, to, left, flow, k, l) ==
    /\ HasRight(r, g, a) /\ k = Len(g.edges) /\ l = k + (IF left THEN 3 ELSE 1) /\ Len(r.edges) = l
    /\ r.edges[a].flow = flow /\ LeadsRight(r, a)
    /\ \A d \in (k + 1)..l : r.edges[d].flow = flow /\ LeadsRight(r, d)
    /\ \A n \in DOMAIN g.nodes :
          /\ r.nodes[n].outgoing = IF n = to THEN Append(g.nodes[n].outgoing, k + 1)
                                   ELSE g.nodes[n].outgoing
          /\ r.nodes[n].incoming =
                IF n = to THEN (IF left THEN Append(Dropped(g.nodes[n].incoming, a), k + 3)
                                ELSE Dropped(g.nodes[n].incoming, a))
                ELSE IF n = from /\ left THEN Append(g.nodes[n].incoming, k + 2)
                ELSE g.nodes[n].incoming

LEMMA ReroutedEffect ==
    ASSUME NEW g, NEW a, NEW from, NEW to, NEW flow, NEW layer, IsWithin(g, a, from, to, flow, layer),
           NEW k \in Nat, k = Len(g.edges), NEW left, left = (layer # 0), NEW r, r = Rerouted(g, a)
    PROVE  \E l \in Nat : Overlaid(r, g, a, from, to, left, flow, k, l)
<1>1. From(g, a).layer = layer /\ g.edges[a].from = from /\ g.edges[a].to = to
  BY DEF IsWithin, From
<1>2. PICK q : q = ReroutedRight(g, a)
  OBVIOUS
<1>3. ReroutedOverRight(q, g, a, to, flow, k)
  BY <1>2, ReroutedRightEffect
<1>4. CASE layer = 0
  <2>1. r = q /\ ~left
    BY <1>1, <1>2, <1>4 DEF Rerouted
  <2>2. PICK l \in Nat : l = k + 1
    OBVIOUS
  <2>3. \A d \in (k + 1)..l : d = k + 1
    BY <2>2
  <2>4. \A d \in (k + 1)..l : r.edges[d].flow = flow /\ LeadsRight(r, d)
    BY <1>3, <2>1, <2>3 DEF ReroutedOverRight
  <2> QED
    BY <1>3, <2>1, <2>2, <2>4 DEF ReroutedOverRight, Overlaid
<1>5. CASE layer # 0
  <2>1. r = WithLeftNode(q, a, from, to) /\ left
    BY <1>1, <1>2, <1>5 DEF Rerouted
  <2>2. ReroutedOverBoth(r, g, a, from, to, flow, k)
    BY <1>3, <1>5, <2>1, WithLeftNodeEffect
  <2>3. PICK l \in Nat : l = k + 3
    OBVIOUS
  <2> QED
    BY <2>1, <2>2, <2>3 DEF ReroutedOverBoth, Overlaid
<1> QED
  BY <1>4, <1>5

(* The graph g and the graph b that it was rerouted from: the edges of s are *)
(* rerouted, and those of the positions U are edges within their layer again *)

(* Rerouting an edge                                                        *)

StaysEntangled(b, s, t) == EntangledIn(b, s) => EntangledIn(b, t)

OldEdge(a, m, k, b) == m \in Nat /\ k \in Nat /\ m <= k /\ a \in 1..m /\ m = Len(b.edges)

SavedOneMore(r, g, b, s, t, c, a, from, to, left, flow, k, l, m, n) ==
    /\ OldEdge(a, m, k, b) /\ from # to /\ left \in BOOLEAN /\ n \in DOMAIN g.nodes
    /\ Overlaid(r, g, a, from, to, left, flow, k, l)
    /\ OneMoreSaved(t, s, b, c, a, from, to, left, n)
    /\ StaysEntangled(b, s, t) /\ ListsFit(g, b, s, {}, n)

LEMMA SavedOneMoreLists ==
    ASSUME NEW r, NEW g, NEW b, NEW s, NEW t, NEW c, NEW a, NEW from, NEW to, NEW left, NEW flow,
           NEW k, NEW l, NEW m, NEW n, SavedOneMore(r, g, b, s, t, c, a, from, to, left, flow, k, l, m, n)
    PROVE  ListsFit(r, b, t, {}, n)
<1>0. /\ m \in Nat /\ k \in Nat /\ m <= k /\ a \in 1..m /\ m = Len(b.edges)
      /\ from # to /\ left \in BOOLEAN /\ n \in DOMAIN g.nodes
      /\ Overlaid(r, g, a, from, to, left, flow, k, l)
      /\ OneMoreSaved(t, s, b, c, a, from, to, left, n)
      /\ StaysEntangled(b, s, t) /\ ListsFit(g, b, s, {}, n)
  BY DEF SavedOneMore, OldEdge
<1>9. m \in Nat /\ a \in 1..m
  BY <1>0
<1>1. PICK c0, c1, q0, q1, T0, T1 :
         /\ c0 = Cardinality(LeavesIn(s, {}, n)) /\ c1 = Cardinality(LeavesIn(t, {}, n))
         /\ q0 = Cardinality(FromLeftIn(b, s, {}, n)) /\ q1 = Cardinality(FromLeftIn(b, t, {}, n))
         /\ T0 = {s[i].id : i \in LeavesIn(s, {}, n)} /\ T1 = {t[i].id : i \in LeavesIn(t, {}, n)}
  OBVIOUS
<1>2. /\ c1 = c0 + IF n = to THEN 1 ELSE 0
      /\ c0 \in Nat /\ q0 \in Nat
      /\ q1 = q0 + IF left /\ n \in {from, to} THEN 1 ELSE 0
      /\ \A x : x \in T1 <=> x \in T0 \/ (n = to /\ x = a)
  BY <1>0, <1>1 DEF OneMoreSaved
<1>3. PICK out, in, out0, in0, out1, in1 :
         /\ out = b.nodes[n].outgoing /\ in = b.nodes[n].incoming
         /\ out0 = g.nodes[n].outgoing /\ in0 = g.nodes[n].incoming
         /\ out1 = r.nodes[n].outgoing /\ in1 = r.nodes[n].incoming
  OBVIOUS
<1>4. /\ out1 = IF n = to THEN Append(out0, k + 1) ELSE out0
      /\ in1 = IF n = to THEN (IF left THEN Append(Dropped(in0, a), k + 3) ELSE Dropped(in0, a))
               ELSE IF n = from /\ left THEN Append(in0, k + 2) ELSE in0
  BY <1>0, <1>3 DEF Overlaid
<1>5. OutgoingFits(out0, out, c0) /\ (~EntangledIn(b, s) => IncomingFits(in0, in, T0, q0, m))
  BY <1>0, <1>1, <1>3 DEF ListsFit
<1>6. /\ k + 1 \in Nat /\ k + 2 \in Nat /\ k + 3 \in Nat
      /\ k + 2 \notin 1..m /\ k + 3 \notin 1..m
  BY <1>0
<1>7. OutgoingFits(out1, out, c1)
  <2>1. CASE n = to
    <3>1. c1 = c0 + 1 /\ out1 = Append(out0, k + 1)
      BY <1>2, <1>4, <2>1
    <3> QED
      BY <1>5, <1>6, <3>1, OutgoingAppended
  <2>2. CASE n # to
    <3>1. c1 = c0 /\ out1 = out0
      BY <1>2, <1>4, <2>2
    <3> QED
      BY <1>5, <3>1
  <2> QED
    BY <2>1, <2>2
<1>8. ASSUME ~EntangledIn(b, t) PROVE IncomingFits(in1, in, T1, q1, m)
  <2>1. IncomingFits(in0, in, T0, q0, m)
    BY <1>0, <1>5, <1>8 DEF StaysEntangled
  <2>2. CASE n = to
    <3>1. PICK d : d = Dropped(in0, a)
      OBVIOUS
    <3>2. \A x : x \in T1 <=> x \in T0 \/ x = a
      BY <1>2, <2>2
    <3>3. IncomingFits(d, in, T1, q0, m)
      BY <1>9, <2>1, <3>1, <3>2, IncomingRedirected
    <3>4. CASE left
      <4>1. q1 = q0 + 1 /\ in1 = Append(d, k + 3)
        BY <1>2, <1>4, <2>2, <3>1, <3>4
      <4> QED
        BY <1>9, <1>6, <3>3, <4>1, IncomingGrown
    <3>5. CASE ~left
      <4>1. q1 = q0 /\ in1 = d
        BY <1>2, <1>4, <2>2, <3>1, <3>5
      <4> QED
        BY <3>3, <4>1
    <3> QED
      BY <3>4, <3>5
  <2>3. CASE n # to
    <3>1. T1 = T0
      BY <1>2, <2>3
    <3>2. CASE n = from /\ left
      <4>1. q1 = q0 + 1 /\ in1 = Append(in0, k + 2)
        BY <1>2, <1>4, <2>3, <3>2
      <4>2. IncomingFits(in1, in, T0, q1, m)
        BY <1>9, <1>6, <2>1, <4>1, IncomingGrown
      <4> QED
        BY <3>1, <4>2
    <3>3. CASE ~(n = from /\ left)
      <4>1. q1 = q0 /\ in1 = in0
        BY <1>2, <1>4, <2>3, <3>3
      <4> QED
        BY <2>1, <3>1, <4>1
    <3> QED
      BY <3>2, <3>3
  <2> QED
    BY <2>2, <2>3
<1> QED
  BY <1>0, <1>1, <1>3, <1>7, <1>8 DEF ListsFit

LEMMA OverlaidCounts ==
    ASSUME NEW m \in Nat, NEW k \in Nat, m <= k, NEW a \in 1..m, NEW g, IsGraph(g), NEW from, NEW to,
           NEW left \in BOOLEAN, NEW flow, NEW l, NEW r, Overlaid(r, g, a, from, to, left, flow, k, l),
           NEW n \in DOMAIN g.nodes, NEW x \in 1..m
    PROVE  Count(r.nodes[n].incoming, x) = IF n = to /\ x = a THEN 0
                                           ELSE Count(g.nodes[n].incoming, x)
<1>1. PICK in0, in1 : in0 = g.nodes[n].incoming /\ in1 = r.nodes[n].incoming
  OBVIOUS
<1>2. in1 = IF n = to THEN (IF left THEN Append(Dropped(in0, a), k + 3) ELSE Dropped(in0, a))
            ELSE IF n = from /\ left THEN Append(in0, k + 2) ELSE in0
  BY <1>1 DEF Overlaid
<1>3. in0 \in Seq(Nat)
  BY <1>1, NodeLists
<1>4. PICK d : d = Dropped(in0, a)
  OBVIOUS
<1>5. d \in Seq(Nat) /\ Count(d, x) = IF x = a THEN 0 ELSE Count(in0, x)
  BY <1>3, <1>4, CountDropped
<1>6. k + 2 \in Nat /\ k + 3 \in Nat /\ x # k + 2 /\ x # k + 3
  OBVIOUS
<1>7. PICK v, w : v = Append(d, k + 3) /\ w = Append(in0, k + 2)
  OBVIOUS
<1>8. EndsWith(v, d, k + 3) /\ EndsWith(w, in0, k + 2)
  BY <1>3, <1>5, <1>6, <1>7, AppendedHolds
<1>9. Count(v, x) = Count(d, x) /\ Count(w, x) = Count(in0, x)
  BY <1>6, <1>8 DEF EndsWith
<1> QED
  BY <1>1, <1>2, <1>4, <1>5, <1>7, <1>9

(* The i-th saved edge is one that was saved before, or edge a.             *)
IsOldOrLast(g, b, t, s, i, a, to) ==
    /\ i \in DOMAIN s => t[i] = s[i] /\ LostFits(g, b, s, {}, i)
    /\ i \notin DOMAIN s => t[i].id = a /\ t[i].edge.to = to

LEMMA OverlaidLost ==
    ASSUME NEW m \in Nat, NEW k \in Nat, m <= k, NEW a \in 1..m, NEW g, IsGraph(g), NEW from, NEW to,
           NEW left \in BOOLEAN, NEW flow, NEW l, NEW r, Overlaid(r, g, a, from, to, left, flow, k, l),
           NEW b, NEW s, NEW t, NEW i, IsOldOrLast(g, b, t, s, i, a, to),
           t[i].edge.to \in DOMAIN g.nodes, t[i].id \in 1..m
    PROVE  LostFits(r, b, t, {}, i)
<1>1. PICK n, x : n = t[i].edge.to /\ x = t[i].id
  OBVIOUS
<1>2. n \in DOMAIN g.nodes /\ x \in 1..m
  BY <1>1
<1>3. Count(r.nodes[n].incoming, x) = IF n = to /\ x = a THEN 0 ELSE Count(g.nodes[n].incoming, x)
  BY <1>2, OverlaidCounts
<1>4. Count(r.nodes[n].incoming, x) = 0
  <2>1. CASE i \in DOMAIN s
    <3>1. Count(g.nodes[n].incoming, x) = 0
      BY <1>1, <2>1 DEF LostFits, IsOldOrLast
    <3> QED
      BY <1>3, <3>1
  <2>2. CASE i \notin DOMAIN s
    BY <1>1, <1>3, <2>2 DEF IsOldOrLast
  <2> QED
    BY <2>1, <2>2
<1> QED
  BY <1>1, <1>4 DEF LostFits

EdgesNumber(m, c, w) == m + c + 2 * w

LEMMA EdgesCounted ==
    ASSUME NEW m \in Nat, NEW c \in Nat, NEW w \in Nat
    PROVE  /\ EdgesNumber(m, c + 1, w + 1) = EdgesNumber(m, c, w) + 3
           /\ EdgesNumber(m, c + 1, w) = EdgesNumber(m, c, w) + 1
  BY DEF EdgesNumber

LEMMA RerouteFits ==
    ASSUME NEW g, NEW b, IsGraph(g), IsGraph(b), EndsExist(b), DOMAIN b.nodes \subseteq DOMAIN g.nodes,
           NEW m \in Nat, m = Len(b.edges), NEW k \in Nat, k = Len(g.edges), m <= k,
           NEW s \in SavedEdges(b), NEW c \in Nat, c = Len(s), Fits(g, b, s, {}),
           NEW a \in 1..m, \A i \in DOMAIN s : s[i].id < a, g.edges[a] = b.edges[a], RunsWithin(b, a),
           NEW from, NEW to, NEW flow, NEW layer, IsWithin(g, a, from, to, flow, layer),
           layer = b.nodes[to].layer,
           NEW rec, rec = [id |-> a, edge |-> g.edges[a]], NEW t, t = Append(s, rec),
           NEW r, r = Rerouted(g, a)
    PROVE  Fits(r, b, t, {}) /\ t \in SavedEdges(b)
<1>1. PICK left \in BOOLEAN : left = (layer # 0)
  OBVIOUS
<1>2. PICK l \in Nat : Overlaid(r, g, a, from, to, left, flow, k, l)
  BY <1>1, ReroutedEffect
<1>3. DOMAIN b.edges = 1..m /\ DOMAIN g.edges = 1..k
  BY GraphParts
<1>4. PICK edge : edge = b.edges[a]
  OBVIOUS
<1>5. edge.from = from /\ edge.to = to /\ from # to /\ layer \in Nat /\ from \in DOMAIN g.nodes /\ to \in DOMAIN g.nodes
  BY <1>4 DEF IsWithin
<1>6. rec.id = a /\ rec.edge = edge /\ rec.edge.from = from /\ rec.edge.to = to
  BY <1>4, <1>5
<1>7. PICK R : R = [id : DOMAIN b.edges, edge : ToSet(b.edges)]
  OBVIOUS
<1>8. s \in Seq(R) /\ rec \in R
  <2>1. edge \in ToSet(b.edges)
    BY <1>3, <1>4 DEF ToSet
  <2>2. s \in Seq(R)
    BY <1>7 DEF SavedEdges
  <2> QED
    BY <1>3, <1>4, <1>7, <2>1, <2>2
<1>9. t \in SavedEdges(b)
  <2>1. Append(s, rec) \in Seq(R)
    BY <1>8
  <2> QED
    BY <1>7, <2>1 DEF SavedEdges
<1>10. left = (b.nodes[rec.edge.to].layer > 0)
  <2>1. b.nodes[rec.edge.to].layer = layer
    BY <1>6
  <2> QED
    BY <1>1, <1>5, <2>1
<1>11. ASSUME NEW n PROVE OneMoreSaved(t, s, b, c, a, from, to, left, n)
  <2>1. OneMoreSaved(t, s, b, c, rec.id, rec.edge.from, rec.edge.to, left, n)
    BY <1>8, <1>10, SavedAppended
  <2> QED
    BY <1>6, <2>1
<1>12. /\ DOMAIN s = 1..c /\ DOMAIN t = 1..(c + 1) /\ Len(t) = c + 1 /\ Len(s) = c
       /\ \A i \in 1..c : t[i] = s[i]
       /\ Cardinality(WithLeftIn(b, s)) \in Nat
       /\ Cardinality(WithLeftIn(b, t)) = Cardinality(WithLeftIn(b, s)) + IF left THEN 1 ELSE 0
  BY <1>11 DEF OneMoreSaved
<1>13. /\ \A i \in 1..(c + 1) : i \in 1..c \/ i = c + 1
       /\ c + 1 \notin 1..c /\ \A i \in 1..c : i \in 1..(c + 1) /\ ~(c + 1 < i)
  OBVIOUS
<1>14. t[c + 1] = rec
  BY <1>8
<1>15. SavedFit(s, b) /\ EdgesFit(g, b, s, {})
  BY DEF Fits
<1>16. SavedFit(t, b)
  <2>1. ASSUME NEW i \in 1..(c + 1)
        PROVE  /\ t[i].id \in DOMAIN b.edges /\ t[i].edge = b.edges[t[i].id]
               /\ RunsWithin(b, t[i].id)
    <3>1. CASE i \in 1..c
      BY <1>12, <1>15, <3>1 DEF SavedFit
    <3>2. CASE i = c + 1
      BY <1>3, <1>4, <1>6, <1>14, <3>2
    <3> QED
      BY <1>13, <3>1, <3>2
  <2>2. ASSUME NEW i \in 1..(c + 1), NEW j \in 1..(c + 1), i < j
        PROVE  t[i].id < t[j].id
    <3>1. i \in 1..c
      BY <2>2
    <3>2. CASE j \in 1..c
      BY <1>12, <1>15, <2>2, <3>1, <3>2 DEF SavedFit
    <3>3. CASE j = c + 1
      BY <1>6, <1>12, <1>14, <3>1, <3>3
    <3> QED
      BY <1>13, <3>2, <3>3
  <2> QED
    BY <1>12, <2>1, <2>2 DEF SavedFit
<1>17. StaysEntangled(b, s, t)
  <2>1. ASSUME EntangledIn(b, s) PROVE EntangledIn(b, t)
    <3>1. PICK i \in 1..c, j \in 1..c :
             i < j /\ HasLeftIn(b, s, i) /\ s[i].edge.to \in {s[j].edge.from, s[j].edge.to}
      BY <1>12, <2>1 DEF EntangledIn
    <3>2. i \in DOMAIN t /\ j \in DOMAIN t /\ t[i] = s[i] /\ t[j] = s[j]
      BY <1>12, <1>13
    <3> QED
      BY <3>1, <3>2 DEF EntangledIn, HasLeftIn
  <2> QED
    BY <2>1 DEF StaysEntangled
<1>18. HasRight(r, g, a) /\ Len(r.edges) = k + IF left THEN 3 ELSE 1
  BY <1>2 DEF Overlaid
<1>19. EdgesFit(r, b, t, {})
  <2>1. PICK w \in Nat : w = Cardinality(WithLeftIn(b, s))
    BY <1>12
  <2>2. k = EdgesNumber(m, c, w)
    BY <1>12, <1>15, <2>1 DEF EdgesFit, EdgesNumber
  <2>3. PICK v : v = Cardinality(WithLeftIn(b, t))
    OBVIOUS
  <2>4. v = w + IF left THEN 1 ELSE 0
    BY <1>12, <2>1, <2>3
  <2>5. Len(r.edges) = EdgesNumber(m, c + 1, v)
    <3>1. CASE left
      <4>1. v = w + 1 /\ Len(r.edges) = EdgesNumber(m, c, w) + 3
        BY <1>18, <2>2, <2>4, <3>1
      <4>2. EdgesNumber(m, c + 1, w + 1) = EdgesNumber(m, c, w) + 3
        BY ONLY EdgesCounted, m \in Nat, c \in Nat, w \in Nat
      <4> QED
        BY <4>1, <4>2
    <3>2. CASE ~left
      <4>1. v = w /\ Len(r.edges) = EdgesNumber(m, c, w) + 1
        BY <1>18, <2>2, <2>4, <3>2
      <4>2. EdgesNumber(m, c + 1, w) = EdgesNumber(m, c, w) + 1
        BY ONLY EdgesCounted, m \in Nat, c \in Nat, w \in Nat
      <4> QED
        BY <4>1, <4>2
    <3> QED
      BY <3>1, <3>2
  <2>6. Len(r.edges) = Len(b.edges) + Len(t) + 2 * Cardinality(WithLeftIn(b, t))
    BY <1>12, <2>3, <2>5 DEF EdgesNumber
  <2>7. ASSUME NEW e \in DOMAIN b.edges \ {t[i].id : i \in DOMAIN t \ {}}
        PROVE  r.edges[e] = b.edges[e]
    <3>1. e # a
      <4>1. c + 1 \in DOMAIN t
        BY <1>12
      <4> QED
        BY <1>6, <1>14, <2>7, <4>1
    <3>2. e \in DOMAIN b.edges \ {s[i].id : i \in DOMAIN s \ {}}
      BY <1>12, <1>13, <2>7
    <3>3. g.edges[e] = b.edges[e]
      BY <1>15, <3>2 DEF EdgesFit
    <3>4. e \in DOMAIN g.edges
      BY <1>3, <2>7
    <3> QED
      BY <1>18, <3>1, <3>3, <3>4 DEF HasRight, Extended
  <2> QED
    BY <2>6, <2>7 DEF EdgesFit
<1>20. ASSUME NEW n \in DOMAIN b.nodes PROVE ListsFit(r, b, t, {}, n)
  <2>1. ListsFit(g, b, s, {}, n) /\ n \in DOMAIN g.nodes
    BY DEF Fits
  <2>2. OneMoreSaved(t, s, b, c, a, from, to, left, n)
    BY <1>11
  <2> QED
    <3>1. from # to /\ n \in DOMAIN g.nodes /\ ListsFit(g, b, s, {}, n)
      BY <1>5, <2>1
    <3>2. OldEdge(a, m, k, b)
      BY DEF OldEdge
    <3>3. SavedOneMore(r, g, b, s, t, c, a, from, to, left, flow, k, l, m, n)
      BY <1>2, <1>17, <2>2, <3>1, <3>2 DEF SavedOneMore
    <3> QED
      BY <3>3, SavedOneMoreLists
<1>21. ASSUME NEW i \in DOMAIN t PROVE LostFits(r, b, t, {}, i)
  <2>1. i \in DOMAIN s => t[i] = s[i] /\ LostFits(g, b, s, {}, i)
    BY <1>12 DEF Fits
  <2>2. i \notin DOMAIN s => t[i].id = a /\ t[i].edge.to = to
    BY <1>6, <1>12, <1>13, <1>14
  <2>3. t[i].id \in 1..m /\ t[i].edge = b.edges[t[i].id]
    BY <1>3, <1>16 DEF SavedFit
  <2>4. t[i].edge.to \in DOMAIN g.nodes
    BY <1>3, <2>3 DEF EndsExist
  <2>5. t[i].id \in 1..m /\ IsOldOrLast(g, b, t, s, i, a, to)
    BY <2>1, <2>2, <2>3 DEF IsOldOrLast
  <2> QED
    BY <1>2, <2>4, <2>5, OverlaidLost
<1> QED
  BY <1>9, <1>16, <1>19, <1>20, <1>21 DEF Fits

(* Undoing the next one                                                     *)

LEMMA NothingLater ==
    ASSUME NEW b, NEW s, SavedFit(s, b), ~EntangledIn(b, s), NEW c \in Nat, DOMAIN s = 1..c,
           NEW i \in 1..c, NEW to, to = s[i].edge.to
    PROVE  Cardinality(FromLeftIn(b, s, 1..i, to)) = 0
<1>1. ASSUME NEW j \in FromLeftIn(b, s, 1..i, to) PROVE FALSE
  <2>1. /\ j \in 1..c /\ j \notin 1..i /\ HasLeftIn(b, s, j)
        /\ to \in {s[j].edge.from, s[j].edge.to}
    BY <1>1 DEF FromLeftIn
  <2>2. i < j
    BY <2>1
  <2>3. From(b, s[j].id).layer = To(b, s[j].id).layer /\ s[j].edge = b.edges[s[j].id]
    BY <2>1 DEF SavedFit, RunsWithin
  <2>4. b.nodes[to].layer = b.nodes[s[j].edge.to].layer
    BY <2>1, <2>3 DEF From, To
  <2>5. HasLeftIn(b, s, i)
    BY <2>1, <2>4 DEF HasLeftIn
  <2> QED
    BY <2>1, <2>2, <2>5 DEF EntangledIn
<1>2. FromLeftIn(b, s, 1..i, to) = {}
  BY <1>1
<1> QED
  BY <1>2, FS_EmptySet

UndoneOneMore(r, g, b, s, i, m, id, edge, from, to, left, n) ==
    /\ m \in Nat /\ m = Len(b.edges) /\ id \in 1..m /\ left \in BOOLEAN
    /\ from # to /\ from = edge.from /\ to = edge.to /\ n \in DOMAIN g.nodes
    /\ IsRestored(r, g, id, edge, left)
    /\ OneMoreUndone(s, b, i, id, from, to, left, n)
    /\ ~EntangledIn(b, s) => Cardinality(FromLeftIn(b, s, 1..i, to)) = 0
    /\ n = to => Count(b.nodes[n].incoming, id) = 1
    /\ ListsFit(g, b, s, 1..(i - 1), n)

LEMMA RestoredLists ==
    ASSUME NEW r, NEW g, NEW b, NEW s, NEW i, NEW m, NEW id, NEW edge, NEW from, NEW to, NEW left,
           NEW n, UndoneOneMore(r, g, b, s, i, m, id, edge, from, to, left, n)
    PROVE  ListsFit(r, b, s, 1..i, n)
<1>0. /\ m \in Nat /\ m = Len(b.edges) /\ id \in 1..m /\ left \in BOOLEAN
      /\ from # to /\ from = edge.from /\ to = edge.to /\ n \in DOMAIN g.nodes
      /\ IsRestored(r, g, id, edge, left)
      /\ OneMoreUndone(s, b, i, id, from, to, left, n)
      /\ ~EntangledIn(b, s) => Cardinality(FromLeftIn(b, s, 1..i, to)) = 0
      /\ n = to => Count(b.nodes[n].incoming, id) = 1
      /\ ListsFit(g, b, s, 1..(i - 1), n)
  BY DEF UndoneOneMore
<1>9. m \in Nat /\ id \in 1..m
  BY <1>0
<1>1. PICK U, V : U = 1..(i - 1) /\ V = 1..i
  OBVIOUS
<1>2. PICK c0, c1, q0, q1, T0, T1 :
         /\ c0 = Cardinality(LeavesIn(s, U, n)) /\ c1 = Cardinality(LeavesIn(s, V, n))
         /\ q0 = Cardinality(FromLeftIn(b, s, U, n)) /\ q1 = Cardinality(FromLeftIn(b, s, V, n))
         /\ T0 = {s[j].id : j \in LeavesIn(s, U, n)} /\ T1 = {s[j].id : j \in LeavesIn(s, V, n)}
  OBVIOUS
<1>3. /\ c1 \in Nat /\ c0 = c1 + IF n = to THEN 1 ELSE 0
      /\ q1 \in Nat /\ q0 = q1 + IF left /\ n \in {from, to} THEN 1 ELSE 0
      /\ \A x : x \in T1 <=> x \in T0 /\ ~(n = to /\ x = id)
      /\ n = to => id \in T0
  BY <1>0, <1>1, <1>2 DEF OneMoreUndone
<1>4. PICK out, in, out0, in0, out1, in1 :
         /\ out = b.nodes[n].outgoing /\ in = b.nodes[n].incoming
         /\ out0 = g.nodes[n].outgoing /\ in0 = g.nodes[n].incoming
         /\ out1 = r.nodes[n].outgoing /\ in1 = r.nodes[n].incoming
  OBVIOUS
<1>5. /\ out1 = IF n = to THEN Popped(out0) ELSE out0
      /\ in1 = IF n = to THEN Append(IF left THEN Popped(in0) ELSE in0, id)
               ELSE IF n = from /\ left THEN Popped(in0) ELSE in0
  BY <1>0, <1>4 DEF IsRestored
<1>6. OutgoingFits(out0, out, c0) /\ (~EntangledIn(b, s) => IncomingFits(in0, in, T0, q0, m))
  BY <1>0, <1>1, <1>2, <1>4 DEF ListsFit
<1>7. OutgoingFits(out1, out, c1)
  <2>1. CASE n = to
    <3>1. c0 = c1 + 1 /\ out1 = Popped(out0)
      BY <1>3, <1>5, <2>1
    <3> QED
      BY <1>3, <1>6, <3>1, OutgoingPopped
  <2>2. CASE n # to
    <3>1. c1 = c0 /\ out1 = out0
      BY <1>3, <1>5, <2>2
    <3> QED
      BY <1>6, <3>1
  <2> QED
    BY <2>1, <2>2
<1>8. ASSUME ~EntangledIn(b, s) PROVE IncomingFits(in1, in, T1, q1, m)
  <2>1. IncomingFits(in0, in, T0, q0, m)
    BY <1>0, <1>6, <1>8
  <2>2. CASE n = to
    <3>1. q1 = 0 /\ id \in T0 /\ Count(in, id) = 1 /\ IsWithout(T1, T0, id)
      BY <1>0, <1>1, <1>2, <1>3, <1>4, <1>8, <2>2 DEF IsWithout
    <3>2. PICK d : d = IF left THEN Popped(in0) ELSE in0
      OBVIOUS
    <3>3. IncomingFits(d, in, T0, 0, m)
      <4>1. CASE left
        <5>1. q0 = 0 + 1 /\ d = Popped(in0)
          BY <1>0, <1>3, <2>2, <3>1, <3>2, <4>1
        <5>2. 0 \in Nat
          OBVIOUS
        <5> QED
          BY <1>9, <2>1, <5>1, <5>2, IncomingPopped
      <4>2. CASE ~left
        <5>1. q0 = 0 /\ d = in0
          BY <1>0, <1>3, <2>2, <3>1, <3>2, <4>2
        <5> QED
          BY <1>0, <2>1, <5>1
      <4> QED
        BY <1>0, <4>1, <4>2
    <3>4. in1 = Append(d, id)
      BY <1>0, <1>5, <2>2, <3>2
    <3>5. IncomingFits(in1, in, T1, 0, m)
      BY <1>9, <3>1, <3>3, <3>4, IncomingListed
    <3> QED
      BY <1>0, <3>1, <3>5
  <2>3. CASE n # to
    <3>1. T1 = T0
      BY <1>0, <1>3, <2>3
    <3>2. CASE n = from /\ left
      <4>1. q0 = q1 + 1 /\ in1 = Popped(in0)
        BY <1>0, <1>3, <1>5, <2>3, <3>2
      <4>2. IncomingFits(in1, in, T0, q1, m)
        BY <1>9, <1>3, <2>1, <4>1, IncomingPopped
      <4> QED
        BY <1>0, <3>1, <4>2
    <3>3. CASE ~(n = from /\ left)
      <4>1. q1 = q0 /\ in1 = in0
        BY <1>0, <1>3, <1>5, <2>3, <3>3
      <4> QED
        BY <1>0, <2>1, <3>1, <4>1
    <3> QED
      BY <1>0, <3>2, <3>3
  <2> QED
    BY <1>0, <2>2, <2>3
<1> QED
  BY <1>0, <1>1, <1>2, <1>4, <1>7, <1>8 DEF ListsFit

LEMMA RestoredLost ==
    ASSUME NEW g, IsGraph(g), NEW b, NEW s, NEW c \in Nat, DOMAIN s = 1..c, NEW i \in 1..c,
           NEW id \in Nat, id = s[i].id, NEW edge, edge = s[i].edge,
           NEW left \in BOOLEAN, left = HasLeftIn(b, s, i),
           NEW r, IsRestored(r, g, id, edge, left),
           NEW j \in 1..c, s[j].edge.to \in DOMAIN g.nodes, j # i => s[j].id # id,
           HasLeftIn(b, s, j) /\ i \in LaterIn(s, j) => left,
           LostFits(g, b, s, 1..(i - 1), j)
    PROVE  LostFits(r, b, s, 1..i, j)
<1>1. PICK n, x, from, to : n = s[j].edge.to /\ x = s[j].id /\ from = edge.from /\ to = edge.to
  OBVIOUS
<1>2. PICK in0, in1 : in0 = g.nodes[n].incoming /\ in1 = r.nodes[n].incoming
  OBVIOUS
<1>3. PICK p, d : p = Popped(in0) /\ d = IF left THEN p ELSE in0
  OBVIOUS
<1>4. in1 = IF n = to THEN Append(d, id) ELSE IF n = from /\ left THEN p ELSE in0
  BY <1>1, <1>2, <1>3 DEF IsRestored
<1>5. in0 \in Seq(Nat)
  BY <1>1, <1>2, NodeLists
<1>6. /\ p \in Seq(Nat) /\ d \in Seq(Nat)
      /\ Count(in0, x) = 0 => Count(p, x) = 0 /\ Count(d, x) = 0
      /\ in0 # <<>> /\ Last(in0) = x /\ Count(in0, x) = 1 => Count(p, x) = 0
  <2>1. HoldsLess(p, in0)
    BY <1>3, <1>5, PoppedHolds
  <2> QED
    BY <1>3, <1>5, <2>1 DEF HoldsLess
<1>7. /\ Append(d, id) # <<>> /\ Last(Append(d, id)) = id
      /\ x # id => Count(Append(d, id), x) = Count(d, x)
      /\ Count(d, id) = 0 => Count(Append(d, id), id) = 1
  <2>1. PICK v : v = Append(d, id)
    OBVIOUS
  <2>2. EndsWith(v, d, id)
    BY <1>6, <2>1, AppendedHolds
  <2> QED
    BY <2>1, <2>2 DEF EndsWith
<1>8. PICK U, V : U = 1..(i - 1) /\ V = 1..i
  OBVIOUS
<1>9. i \in V /\ i \notin U /\ \A w : w \in V <=> w \in U \/ w = i
  BY <1>8
<1>10. /\ j \notin U => Count(in0, x) = 0
       /\ j \in U /\ HasLeftIn(b, s, j) =>
              IF LaterIn(s, j) \intersect U # {} THEN Count(in0, x) = 0
              ELSE in0 # <<>> /\ Last(in0) = x /\ Count(in0, x) = 1
  BY <1>1, <1>2, <1>8 DEF LostFits
<1>11. j # i /\ Count(in0, x) = 0 => Count(in1, x) = 0
  BY <1>1, <1>4, <1>6, <1>7
<1>12. j \notin V => Count(in1, x) = 0
  BY <1>9, <1>10, <1>11
<1>13. ASSUME j \in V, HasLeftIn(b, s, j)
       PROVE  IF LaterIn(s, j) \intersect V # {} THEN Count(in1, x) = 0
              ELSE in1 # <<>> /\ Last(in1) = x /\ Count(in1, x) = 1
  <2>1. CASE j = i
    <3>1. n = to /\ x = id
      BY <1>1, <2>1
    <3>2. Count(d, x) = 0
      BY <1>6, <1>9, <1>10, <2>1
    <3>3. LaterIn(s, j) \intersect V = {}
      <4>1. ASSUME NEW w \in LaterIn(s, j) PROVE w \notin V
        BY <1>8, <2>1, <4>1 DEF LaterIn
      <4> QED
        BY <4>1
    <3> QED
      BY <1>4, <1>7, <3>1, <3>2, <3>3
  <2>2. CASE j # i
    <3>1. j \in U
      BY <1>9, <1>13, <2>2
    <3>2. CASE LaterIn(s, j) \intersect U # {}
      <4>1. Count(in1, x) = 0
        BY <1>10, <1>11, <1>13, <2>2, <3>1, <3>2
      <4>2. LaterIn(s, j) \intersect V # {}
        BY <1>9, <3>2
      <4> QED
        BY <4>1, <4>2
    <3>3. CASE LaterIn(s, j) \intersect U = {}
      <4>1. in0 # <<>> /\ Last(in0) = x /\ Count(in0, x) = 1
        BY <1>10, <1>13, <3>1, <3>3
      <4>2. CASE n \in {from, to}
        <5>1. j < i
          BY <1>8, <3>1
        <5>2. i \in LaterIn(s, j)
          BY <1>1, <4>2, <5>1 DEF LaterIn
        <5>3. left /\ d = p
          BY <1>3, <1>13, <5>2
        <5>4. Count(in1, x) = 0
          BY <1>1, <1>4, <1>6, <1>7, <2>2, <4>1, <4>2, <5>3
        <5> QED
          BY <1>9, <5>2, <5>4
      <4>3. CASE n \notin {from, to}
        <5>1. in1 = in0
          BY <1>4, <4>3
        <5>2. i \notin LaterIn(s, j)
          BY <1>1, <4>3 DEF LaterIn
        <5>3. LaterIn(s, j) \intersect V = {}
          BY <1>9, <3>3, <5>2
        <5> QED
          BY <4>1, <5>1, <5>3
      <4> QED
        BY <4>2, <4>3
    <3> QED
      BY <3>2, <3>3
  <2> QED
    BY <2>1, <2>2
<1> QED
  BY <1>1, <1>2, <1>8, <1>12, <1>13 DEF LostFits

LEMMA SavedEdgeFits ==
    ASSUME NEW b, IsGraph(b), EndsExist(b), Mirrored(b), NEW s, SavedFit(s, b), NEW i \in DOMAIN s,
           NEW id, id = s[i].id, NEW to, to = s[i].edge.to
    PROVE  /\ id \in DOMAIN b.edges /\ id \in 1..Len(b.edges) /\ s[i].edge = b.edges[id]
           /\ s[i].edge.from \in DOMAIN b.nodes /\ to \in DOMAIN b.nodes
           /\ Count(b.nodes[to].incoming, id) = 1
<1>1. id \in DOMAIN b.edges /\ s[i].edge = b.edges[id] /\ b.edges[id].type # "Replaced"
  BY DEF SavedFit, RunsWithin
<1>2. s[i].edge.from \in DOMAIN b.nodes /\ to \in DOMAIN b.nodes
  BY <1>1 DEF EndsExist
<1>3. Count(b.nodes[to].incoming, id) = 1
  BY <1>1, <1>2 DEF Mirrored
<1> QED
  BY <1>1, <1>2, <1>3, GraphParts

LEMMA UndoFits ==
    ASSUME NEW g, NEW b, IsGraph(g), IsGraph(b), EndsExist(b), Mirrored(b),
           DOMAIN b.nodes \subseteq DOMAIN g.nodes, DOMAIN b.edges \subseteq DOMAIN g.edges,
           \A n \in DOMAIN b.nodes : g.nodes[n].layer = b.nodes[n].layer,
           \A e \in DOMAIN b.edges : b.edges[e].from # b.edges[e].to,
           NEW s \in SavedEdges(b), NEW c \in Nat, c = Len(s), NEW i \in 1..c,
           Fits(g, b, s, 1..(i - 1)), NEW id, id = s[i].id, NEW edge, edge = s[i].edge,
           NEW r, r = Restored(g, id, edge)
    PROVE  Fits(r, b, s, 1..i)
<1>1. PICK R : R = [id : DOMAIN b.edges, edge : ToSet(b.edges)]
  OBVIOUS
<1>2. s \in Seq(R) /\ DOMAIN s = 1..c
  BY <1>1 DEF SavedEdges
<1>3. SavedFit(s, b) /\ EdgesFit(g, b, s, 1..(i - 1))
  BY DEF Fits
<1>4. PICK from, to, m : from = edge.from /\ to = edge.to /\ m = Len(b.edges)
  OBVIOUS
<1>5. /\ id \in DOMAIN b.edges /\ id \in 1..m /\ m \in Nat /\ edge = b.edges[id] /\ edge \in GraphEdges
      /\ from \in DOMAIN b.nodes /\ to \in DOMAIN b.nodes /\ from # to
      /\ Count(b.nodes[to].incoming, id) = 1
  <2>1. i \in DOMAIN s
    BY <1>2
  <2>2. /\ id \in DOMAIN b.edges /\ id \in 1..m /\ edge = b.edges[id]
        /\ from \in DOMAIN b.nodes /\ to \in DOMAIN b.nodes
        /\ Count(b.nodes[to].incoming, id) = 1
    BY <1>3, <1>4, <2>1, SavedEdgeFits
  <2>3. m \in Nat /\ edge \in GraphEdges
    BY <1>4, <2>2, GraphParts
  <2>4. from # to
    BY <1>4, <2>2
  <2> QED
    BY <2>2, <2>3, <2>4
<1>6. PICK left : left = HasLeftIn(b, s, i)
  OBVIOUS
<1>7. left \in BOOLEAN /\ left = (g.nodes[to].layer # 0)
  <2>1. b.nodes[to].layer \in Nat
    <3>1. b.nodes[to] \in GraphNodes
      BY <1>5, GraphParts
    <3> QED
      BY <3>1 DEF GraphNodes
  <2>2. PICK l \in Nat : l = b.nodes[to].layer
    BY <2>1
  <2>3. g.nodes[to].layer = l
    BY <1>5, <2>2
  <2>4. left = (l > 0)
    BY <1>4, <1>6, <2>2 DEF HasLeftIn
  <2>5. (l > 0) = (l # 0)
    BY <2>2
  <2>6. left = (l # 0)
    BY <2>4, <2>5
  <2> QED
    BY <2>3, <2>6
<1>8. IsRestored(r, g, id, edge, left)
  <2>1. from \in DOMAIN g.nodes /\ to \in DOMAIN g.nodes /\ id \in DOMAIN g.edges
    BY <1>5
  <2> QED
    BY <1>4, <1>5, <1>7, <2>1, RestoredEffect
<1>9. \A j, k \in DOMAIN s : s[j].id = s[k].id => j = k
  <2>1. ASSUME NEW j \in DOMAIN s, NEW k \in DOMAIN s, s[j].id = s[k].id PROVE j = k
    <3>1. j \in Nat /\ k \in Nat /\ s[j].id \in Nat
      BY <1>2, <1>3, GraphParts DEF SavedFit
    <3>2. ~(j < k) /\ ~(k < j)
      BY <1>3, <2>1, <3>1 DEF SavedFit
    <3> QED
      BY <3>1, <3>2
  <2> QED
    BY <2>1
<1>10. EdgesFit(r, b, s, 1..i)
  <2>1. Len(r.edges) = Len(g.edges) /\ r.edges[id] = edge /\ \A d \in DOMAIN g.edges \ {id} : r.edges[d] = g.edges[d]
    BY <1>8 DEF IsRestored
  <2>2. ASSUME NEW e \in DOMAIN b.edges \ {s[j].id : j \in DOMAIN s \ 1..i}
        PROVE  r.edges[e] = b.edges[e]
    <3>1. CASE e = id
      BY <1>5, <2>1, <3>1
    <3>2. CASE e # id
      <4>1. ASSUME NEW j \in DOMAIN s \ 1..(i - 1) PROVE s[j].id # e
        <5>1. CASE j = i
          BY <3>2, <5>1
        <5>2. CASE j # i
          <6>1. j \in DOMAIN s \ 1..i
            BY <1>2, <4>1, <5>2
          <6> QED
            BY <2>2, <6>1
        <5> QED
          BY <5>1, <5>2
      <4>2. e \in DOMAIN b.edges \ {s[j].id : j \in DOMAIN s \ 1..(i - 1)} /\ e \in DOMAIN g.edges
        BY <4>1
      <4>3. g.edges[e] = b.edges[e]
        BY <1>3, <4>2 DEF EdgesFit
      <4> QED
        BY <2>1, <3>2, <4>2, <4>3
    <3> QED
      BY <3>1, <3>2
  <2> QED
    BY <1>3, <2>1, <2>2 DEF EdgesFit
<1>11. ~EntangledIn(b, s) => Cardinality(FromLeftIn(b, s, 1..i, to)) = 0
  BY <1>2, <1>3, <1>4, NothingLater
<1>12. ASSUME NEW n \in DOMAIN b.nodes PROVE ListsFit(r, b, s, 1..i, n)
  <2>1. ListsFit(g, b, s, 1..(i - 1), n) /\ n \in DOMAIN g.nodes
    BY DEF Fits
  <2>2. OneMoreUndone(s, b, i, id, from, to, left, n)
    <3>1. i \in DOMAIN s
      BY <1>2
    <3>2. OneMoreUndone(s, b, i, s[i].id, s[i].edge.from, s[i].edge.to, left, n)
      BY <1>2, <1>6, <1>9, <3>1, SavedUndone
    <3> QED
      BY <1>4, <3>2
  <2>3. UndoneOneMore(r, g, b, s, i, m, id, edge, from, to, left, n)
    BY <1>4, <1>5, <1>7, <1>8, <1>11, <2>1, <2>2 DEF UndoneOneMore
  <2> QED
    BY <2>3, RestoredLists
<1>13. ASSUME NEW j \in DOMAIN s PROVE LostFits(r, b, s, 1..i, j)
  <2>1. j \in 1..c /\ LostFits(g, b, s, 1..(i - 1), j)
    BY <1>2 DEF Fits
  <2>2. s[j].edge.to \in DOMAIN g.nodes
    BY <1>3, SavedEdgeFits
  <2>3. j # i => s[j].id # id
    BY <1>2, <1>9
  <2>4. HasLeftIn(b, s, j) /\ i \in LaterIn(s, j) => left
    <3>1. SUFFICES ASSUME HasLeftIn(b, s, j), i \in LaterIn(s, j) PROVE left
      OBVIOUS
    <3>2. s[j].edge.to \in {from, to}
      BY <1>4, <3>1 DEF LaterIn
    <3>3. b.nodes[from].layer = b.nodes[to].layer
      <4>1. RunsWithin(b, id)
        BY <1>2, <1>3 DEF SavedFit
      <4> QED
        BY <1>4, <1>5, <4>1 DEF RunsWithin, From, To
    <3>4. b.nodes[to].layer > 0
      BY <3>1, <3>2, <3>3 DEF HasLeftIn
    <3> QED
      BY <1>4, <1>6, <3>4 DEF HasLeftIn
  <2>5. id \in Nat /\ left \in BOOLEAN
    BY <1>5, <1>7
  <2> QED
    BY <1>2, <1>6, <1>8, <2>1, <2>2, <2>3, <2>4, <2>5, RestoredLost
<1> QED
  BY <1>3, <1>10, <1>12, <1>13 DEF Fits

-----------------------------------------------------------------------------
(* The end of the undo *)

(* Lists with the same counts hold the same, and the other way round.       *)
LEMMA BagsCount ==
    ASSUME NEW s \in Seq(Nat), NEW t \in Seq(Nat)
    PROVE  SameBag(s, t) <=> \A x : Count(s, x) = Count(t, x)
<1>1. \A x : /\ x \notin ToSet(s) => Count(s, x) = 0
             /\ x \notin ToSet(t) => Count(t, x) = 0
  BY CountType
<1> QED
  BY <1>1 DEF SameBag

(* When all saved edges are undone the lists are the old ones.              *)
LEMMA AllUndoneLists ==
    ASSUME NEW g, NEW b, IsGraph(b), Mirrored(b), NEW R, NEW s \in Seq(R), NEW n \in DOMAIN b.nodes,
           NEW U, U = DOMAIN s, ListsFit(g, b, s, U, n)
    PROVE  /\ SameBag(g.nodes[n].outgoing, b.nodes[n].outgoing)
           /\ ~EntangledIn(b, s) => SameBag(g.nodes[n].incoming, b.nodes[n].incoming)
<1>1. LeavesIn(s, U, n) = {} /\ FromLeftIn(b, s, U, n) = {}
  BY DEF LeavesIn, FromLeftIn
<1>2. Cardinality(LeavesIn(s, U, n)) = 0 /\ Cardinality(FromLeftIn(b, s, U, n)) = 0
  BY <1>1, FS_EmptySet
<1>3. {s[i].id : i \in LeavesIn(s, U, n)} = {}
  BY <1>1
<1>4. PICK out, in, oldOut, oldIn : /\ out = g.nodes[n].outgoing /\ in = g.nodes[n].incoming
                                    /\ oldOut = b.nodes[n].outgoing /\ oldIn = b.nodes[n].incoming
  OBVIOUS
<1>5. oldOut \in Seq(Nat) /\ oldIn \in Seq(Nat)
  BY <1>4, NodeLists
<1>6. SameBag(out, oldOut)
  <2>1. OutgoingFits(out, oldOut, 0)
    BY <1>2, <1>4 DEF ListsFit
  <2>2. out \in Seq(Nat) /\ Len(out) = Len(oldOut)
    <3>1. out \in Seq(Nat) /\ Len(out) = Len(oldOut) + 0
      BY <2>1 DEF OutgoingFits
    <3> QED
      BY <1>5, <3>1
  <2>4. \A p \in 1..Len(out) : out[p] = oldOut[p]
    <3>1. \A p \in DOMAIN oldOut : out[p] = oldOut[p]
      BY <2>1 DEF OutgoingFits
    <3>2. DOMAIN oldOut = 1..Len(oldOut)
      BY <1>5
    <3> QED
      BY <2>2, <3>1, <3>2
  <2>3. out = oldOut
    BY <1>5, <2>2, <2>4, SeqEqual
  <2> QED
    BY <2>3 DEF SameBag
<1>7. PICK m \in Nat : m = Len(b.edges) /\ DOMAIN b.edges = 1..m
  BY GraphParts
<1>8. ASSUME ~EntangledIn(b, s) PROVE SameBag(in, oldIn)
  <2>1. IncomingFits(in, oldIn, {}, 0, m)
    BY <1>2, <1>3, <1>4, <1>7, <1>8 DEF ListsFit
  <2>2. in \in Seq(Nat) /\ \A p \in DOMAIN in : in[p] \in 1..m <=> p <= Len(in) - 0
    BY <2>1 DEF IncomingFits, OnTop
  <2>3. \A p \in DOMAIN in : in[p] \in 1..m
    BY <2>2
  <2>4. ToSet(in) \subseteq 1..m
    BY <2>2, <2>3 DEF ToSet
  <2>5. ToSet(oldIn) \subseteq 1..m
    BY <1>4, <1>7 DEF Mirrored
  <2>6. \A x \in 1..m : Count(in, x) = Count(oldIn, x)
    BY <2>1 DEF IncomingFits
  <2> QED
    BY <2>4, <2>5, <2>6 DEF SameBag
<1> QED
  BY <1>4, <1>6, <1>8

(* What is kept of the edges and of the nodes when all are undone.          *)
LEMMA TruncatedEdges ==
    ASSUME NEW g, IsGraph(g), IsGraph(before), EdgesFit(g, before, saved, DOMAIN saved),
           NEW S, saved \in Seq(S),
           \A i \in DOMAIN saved : g.nodes[saved[i].edge.to].layer = before.nodes[saved[i].edge.to].layer,
           NEW r, r = Truncated(g)
    PROVE  r.edges = before.edges
<1>1. PICK toLeft : toLeft = {i \in DOMAIN saved : g.nodes[saved[i].edge.to].layer > 0}
  OBVIOUS
<1>2. toLeft = WithLeftIn(before, saved)
  BY <1>1 DEF WithLeftIn, HasLeftIn
<1>3. Cardinality(toLeft) \in Nat /\ Len(saved) \in Nat
  <2>1. IsFiniteSet(toLeft)
    BY <1>1, FinitePart
  <2> QED
    BY <2>1, FS_CardinalityType
<1>4. PICK w \in Nat : w = Cardinality(toLeft)
  BY <1>3
<1>5. PICK c \in Nat : c = Len(saved)
  BY <1>3
<1>6. PICK m \in Nat : m = Len(before.edges) /\ DOMAIN before.edges = 1..m
  BY GraphParts
<1>7. PICK k \in Nat : k = Len(g.edges) /\ DOMAIN g.edges = 1..k
  BY GraphParts
<1>8. k = m + c + 2 * w
  BY <1>2, <1>4, <1>5, <1>6, <1>7 DEF EdgesFit
<1>9. k - c - 2 * w = m /\ m <= k
  BY <1>8
<1>10. PICK t, u : t = g.edges /\ u = before.edges
  OBVIOUS
<1>11. PICK E : E = GraphEdges
  OBVIOUS
<1>12. t \in Seq(E) /\ u \in Seq(E)
  BY <1>10, <1>11, GraphParts
<1>13. PICK v : v = SubSeq(t, 1, m)
  OBVIOUS
<1>14. r.edges = v
  <2>1. r = [g EXCEPT !.nodes = SubSeq(@, 1, Len(before.nodes)), !.edges = SubSeq(@, 1, k - c - 2 * w)]
    BY <1>1, <1>4, <1>5, <1>7 DEF Truncated
  <2>2. g \in [nodes : Seq(GraphNodes), edges : Seq(GraphEdges),
               lanes : [DOMAIN g.lanes -> Seq(Nat)], numLayers : Nat]
    BY DEF IsGraph
  <2> QED
    BY <1>9, <1>10, <1>13, <2>1, <2>2
<1>15. v \in Seq(E) /\ Len(v) = m /\ \A p \in 1..m : v[p] = t[p]
  <2>1. \A p \in 1..m : t[p] \in E
    BY <1>7, <1>9, <1>10, <1>12
  <2>2. /\ v \in Seq(E) /\ Len(v) = IF 1 <= m THEN m - 1 + 1 ELSE 0
        /\ \A p \in 1..(m - 1 + 1) : v[p] = t[1 + p - 1]
    BY <1>13, <2>1, SubSeqProperties
  <2> QED
    BY <2>2
<1>16. \A p \in 1..m : t[p] = u[p]
  <2>1. {saved[i].id : i \in DOMAIN saved \ DOMAIN saved} = {}
    OBVIOUS
  <2> QED
    BY <1>6, <1>10, <2>1 DEF EdgesFit
<1>17. v = u
  BY <1>6, <1>10, <1>12, <1>15, <1>16, SeqEqual
<1> QED
  BY <1>10, <1>14, <1>17

(* When all saved edges are undone, and what was added goes, the edges are  *)
(* the old ones, and the lists of those that are not entangled.             *)
LEMMA FinishFits ==
    ASSUME NEW g, IsGraph(g), IsGraph(before), EndsExist(before), Mirrored(before),
           NEW k \in Nat, k = Len(before.nodes), k <= Len(g.nodes), NodesStay(g, before),
           saved \in SavedEdges(before), Fits(g, before, saved, DOMAIN saved), NEW r, r = Truncated(g)
    PROVE  FinallyFits(r, before, saved) /\ NodesStay(r, before)
<1>1. PICK R : R = [id : DOMAIN before.edges, edge : ToSet(before.edges)]
  OBVIOUS
<1>2. saved \in Seq(R) /\ SavedFit(saved, before)
  BY <1>1 DEF SavedEdges, Fits
<1>3. DOMAIN before.nodes = 1..k
  BY GraphParts
<1>4. \A n \in DOMAIN before.nodes : r.nodes[n] = g.nodes[n]
  BY <1>2, <1>3, TruncatedEffect
<1>5. \A i \in DOMAIN saved : saved[i].edge.to \in DOMAIN before.nodes
  BY <1>2, SavedEdgeFits
<1>6. r.edges = before.edges
  <2>1. \A i \in DOMAIN saved : g.nodes[saved[i].edge.to].layer = before.nodes[saved[i].edge.to].layer
    BY <1>5 DEF NodesStay
  <2>2. EdgesFit(g, before, saved, DOMAIN saved)
    BY DEF Fits
  <2> QED
    BY <1>2, <2>1, <2>2, TruncatedEdges
<1>7. ASSUME NEW n \in DOMAIN before.nodes
      PROVE  /\ SameBag(r.nodes[n].outgoing, before.nodes[n].outgoing)
             /\ ~EntangledIn(before, saved) => SameBag(r.nodes[n].incoming, before.nodes[n].incoming)
  <2>1. ListsFit(g, before, saved, DOMAIN saved, n)
    BY DEF Fits
  <2> QED
    BY <1>2, <1>4, <2>1, AllUndoneLists
<1>8. ASSUME NEW i \in WithLeftIn(before, saved), LaterIn(saved, i) # {}
      PROVE  Count(r.nodes[saved[i].edge.to].incoming, saved[i].id) = 0
  <2>1. i \in DOMAIN saved /\ HasLeftIn(before, saved, i)
    BY DEF WithLeftIn
  <2>2. LostFits(g, before, saved, DOMAIN saved, i)
    BY <2>1 DEF Fits
  <2>3. LaterIn(saved, i) \intersect DOMAIN saved # {}
    BY <1>8 DEF LaterIn
  <2>4. Count(g.nodes[saved[i].edge.to].incoming, saved[i].id) = 0
    BY <2>1, <2>2, <2>3 DEF LostFits
  <2> QED
    BY <1>4, <1>5, <2>1, <2>4
<1>9. NodesStay(r, before)
  BY <1>4 DEF NodesStay
<1> QED
  BY <1>2, <1>6, <1>7, <1>8, <1>9 DEF FinallyFits

(* Links do not matter to the edges.                                        *)
LEMMA FitsKept ==
    ASSUME NEW g, NEW r, SameButLinks(r, g), NEW b, EndsExist(b), DOMAIN b.nodes \subseteq DOMAIN g.nodes,
           NodesStay(g, b), NEW s, NEW U, Fits(g, b, s, U)
    PROVE  NodesStay(r, b) /\ Fits(r, b, s, U)
<1>1. \A n \in DOMAIN b.nodes : /\ r.nodes[n].incoming = g.nodes[n].incoming
                                /\ r.nodes[n].outgoing = g.nodes[n].outgoing
  BY DEF SameButLinks
<1>2. NodesStay(r, b)
  BY DEF SameButLinks, NodesStay, Place
<1>3. SavedFit(s, b)
  BY DEF Fits
<1>4. EdgesFit(r, b, s, U)
  <2>1. r.edges = g.edges
    BY DEF SameButLinks
  <2> QED
    BY <2>1 DEF Fits, EdgesFit
<1>5. \A n \in DOMAIN b.nodes : ListsFit(r, b, s, U, n)
  BY <1>1 DEF Fits, ListsFit
<1>6. ASSUME NEW i \in DOMAIN s PROVE LostFits(r, b, s, U, i)
  <2>1. s[i].edge.to \in DOMAIN b.nodes
    <3>1. s[i].id \in DOMAIN b.edges /\ s[i].edge = b.edges[s[i].id]
      BY <1>3 DEF SavedFit
    <3> QED
      BY <3>1 DEF EndsExist
  <2>2. r.nodes[s[i].edge.to].incoming = g.nodes[s[i].edge.to].incoming
    BY <1>1, <2>1
  <2> QED
    BY <2>2 DEF Fits, LostFits
<1> QED
  BY <1>2, <1>3, <1>4, <1>5, <1>6 DEF Fits

(* Nor does the order of the lists, when all is undone.                     *)
SameCounts(r, g) ==
    /\ IsGraph(r) /\ r.edges = g.edges /\ DOMAIN r.nodes = DOMAIN g.nodes
    /\ \A n \in DOMAIN g.nodes :
          /\ SameNode(r.nodes[n], g.nodes[n])
          /\ \A x : /\ Count(r.nodes[n].incoming, x) = Count(g.nodes[n].incoming, x)
                    /\ Count(r.nodes[n].outgoing, x) = Count(g.nodes[n].outgoing, x)

LEMMA FinallyFitsKept ==
    ASSUME NEW g, IsGraph(g), NEW r, SameCounts(r, g), NEW b, IsGraph(b), EndsExist(b),
           DOMAIN b.nodes \subseteq DOMAIN g.nodes, NodesStay(g, b), NEW s, FinallyFits(g, b, s)
    PROVE  NodesStay(r, b) /\ FinallyFits(r, b, s)
<1>1. NodesStay(r, b)
  <2>1. \A n \in DOMAIN b.nodes : SameNode(r.nodes[n], g.nodes[n])
    BY DEF SameCounts
  <2> QED
    BY <2>1 DEF NodesStay, SameNode, Place
<1>2. SavedFit(s, b) /\ g.edges = b.edges /\ r.edges = g.edges /\ IsGraph(r)
  BY DEF FinallyFits, SameCounts
<1>3. ASSUME NEW n \in DOMAIN b.nodes
      PROVE  /\ SameBag(r.nodes[n].outgoing, b.nodes[n].outgoing)
             /\ ~EntangledIn(b, s) => SameBag(r.nodes[n].incoming, b.nodes[n].incoming)
  <2>1. n \in DOMAIN g.nodes /\ n \in DOMAIN r.nodes
    BY DEF SameCounts
  <2>2. PICK ro, ri, go, gi, bo, bi : /\ ro = r.nodes[n].outgoing /\ ri = r.nodes[n].incoming
                                      /\ go = g.nodes[n].outgoing /\ gi = g.nodes[n].incoming
                                      /\ bo = b.nodes[n].outgoing /\ bi = b.nodes[n].incoming
    OBVIOUS
  <2>3. /\ ro \in Seq(Nat) /\ ri \in Seq(Nat) /\ go \in Seq(Nat) /\ gi \in Seq(Nat)
        /\ bo \in Seq(Nat) /\ bi \in Seq(Nat)
    BY <1>2, <2>1, <2>2, NodeLists
  <2>4. \A x : Count(ri, x) = Count(gi, x) /\ Count(ro, x) = Count(go, x)
    BY <2>1, <2>2 DEF SameCounts
  <2>5. SameBag(go, bo) => SameBag(ro, bo)
    <3>1. SameBag(go, bo) <=> \A x : Count(go, x) = Count(bo, x)
      BY <2>3, BagsCount
    <3>2. SameBag(ro, bo) <=> \A x : Count(ro, x) = Count(bo, x)
      BY <2>3, BagsCount
    <3> QED
      BY <2>4, <3>1, <3>2
  <2>6. SameBag(gi, bi) => SameBag(ri, bi)
    <3>1. SameBag(gi, bi) <=> \A x : Count(gi, x) = Count(bi, x)
      BY <2>3, BagsCount
    <3>2. SameBag(ri, bi) <=> \A x : Count(ri, x) = Count(bi, x)
      BY <2>3, BagsCount
    <3> QED
      BY <2>4, <3>1, <3>2
  <2>7. SameBag(go, bo) /\ (~EntangledIn(b, s) => SameBag(gi, bi))
    BY <2>2 DEF FinallyFits
  <2> QED
    BY <2>2, <2>5, <2>6, <2>7
<1>4. ASSUME NEW i \in WithLeftIn(b, s), LaterIn(s, i) # {}
      PROVE  Count(r.nodes[s[i].edge.to].incoming, s[i].id) = 0
  <2>1. s[i].edge.to \in DOMAIN b.nodes
    <3>1. i \in DOMAIN s
      BY DEF WithLeftIn
    <3>2. s[i].id \in DOMAIN b.edges /\ s[i].edge = b.edges[s[i].id]
      BY <1>2, <3>1 DEF SavedFit
    <3> QED
      BY <3>2 DEF EndsExist
  <2>2. s[i].edge.to \in DOMAIN g.nodes
    BY <2>1
  <2>3. Count(g.nodes[s[i].edge.to].incoming, s[i].id) = 0
    BY <1>4 DEF FinallyFits
  <2> QED
    BY <2>2, <2>3 DEF SameCounts
<1> QED
  BY <1>1, <1>2, <1>3, <1>4 DEF FinallyFits

-----------------------------------------------------------------------------
(* The steps *)

UndoAt(g, b, ph, i, s) ==
    /\ EndsDiffer(b) /\ Mirrored(b) /\ NodesStay(g, b)
    /\ ph = "crossings" => \A j \in DOMAIN s : s[j].id < i
    /\ ph = "undo" => i <= Len(s) + 1
    /\ IF ph \in {"edges", "ports"} THEN FinallyFits(g, b, s)
       ELSE Fits(g, b, s, IF ph = "undo" THEN 1..(i - 1) ELSE {})

LEMMA UndoInvIn ==
    /\ UndoInv /\ phase \in CrossingPhases => UndoAt(graph, before, phase, at, saved)
    /\ phase' \in CrossingPhases /\ UndoAt(graph', before', phase', at', saved') => UndoInv'
<1>1. \A ph \in CrossingPhases : ph \notin {"layers", "panic"}
  BY DEF CrossingPhases
<1>2. UndoInv /\ phase \in CrossingPhases => UndoAt(graph, before, phase, at, saved)
  BY <1>1 DEF UndoInv, UndoAt, Done
<1>3. EndsDiffer(before)' <=> EndsDiffer(before')
  BY DEF EndsDiffer
<1>4. Mirrored(before)' <=> Mirrored(before')
  BY DEF Mirrored
<1>5. NodesStay(graph, before)' <=> NodesStay(graph', before')
  BY DEF NodesStay, Place
<1>6. FinallyFits(graph, before, saved)' <=> FinallyFits(graph', before', saved')
  BY DEF FinallyFits, SavedFit, RunsWithin, From, To, SamePool, SameBag, EntangledIn, HasLeftIn,
         WithLeftIn, LaterIn
<1>7. Fits(graph, before, saved, 1..(at - 1))' <=> Fits(graph', before', saved', 1..(at' - 1))
  BY DEF Fits, SavedFit, RunsWithin, From, To, SamePool, EdgesFit, WithLeftIn, HasLeftIn, ListsFit,
         OutgoingFits, IncomingFits, OnTop, EntangledIn, LeavesIn, FromLeftIn, LostFits, LaterIn
<1>8. Fits(graph, before, saved, {})' <=> Fits(graph', before', saved', {})
  BY DEF Fits, SavedFit, RunsWithin, From, To, SamePool, EdgesFit, WithLeftIn, HasLeftIn, ListsFit,
         OutgoingFits, IncomingFits, OnTop, EntangledIn, LeavesIn, FromLeftIn, LostFits, LaterIn
<1>9. phase' \in CrossingPhases /\ UndoAt(graph', before', phase', at', saved') => UndoInv'
  BY <1>1, <1>3, <1>4, <1>5, <1>6, <1>7, <1>8 DEF UndoInv, UndoAt, Done
<1> QED
  BY <1>2, <1>9

(* Nodes of before are still there.                                         *)
LEMMA BeforeWithin ==
    ASSUME NEW g, NEW b, NEW ph, NEW i, NEW s, InvAt(g, b, ph, i, s)
    PROVE  /\ IsGraph(g) /\ IsGraph(b) /\ EndsExist(b) /\ DOMAIN b.nodes \subseteq DOMAIN g.nodes
           /\ i \in Nat /\ i >= 1 /\ s \in SavedEdges(b)
<1>1. IsGraph(g) /\ IsGraph(b) /\ KeptAt(g, b, ph) /\ i \in Nat /\ i >= 1 /\ s \in SavedEdges(b)
  BY DEF InvAt
<1>2. PICK k \in Nat : k = Len(b.nodes) /\ DOMAIN b.nodes = 1..k
  BY <1>1, GraphParts
<1>3. PICK j \in Nat : j = Len(g.nodes) /\ DOMAIN g.nodes = 1..j
  BY <1>1, GraphParts
<1>4. EndsExist(b) /\ k <= j
  BY <1>1, <1>2, <1>3 DEF KeptAt
<1>5. 1..k \subseteq 1..j
  BY <1>4
<1> QED
  BY <1>1, <1>2, <1>3, <1>4, <1>5

(* Sorted lists hold the same edges.                                        *)
LEMMA SortedSameCounts ==
    ASSUME IsGraph(graph), NEW in, NEW out, NEW new,
           new = [graph EXCEPT
                !.nodes[at].incoming = IF Len(@) > 1 THEN SortedByKey(@, in) ELSE @,
                !.nodes[at].outgoing = IF Len(@) > 1 THEN SortedByKey(@, out) ELSE @]
    PROVE  SameCounts(new, graph)
<1>1. PICK l1, l2 : /\ l1 = IF Len(graph.nodes[at].incoming) > 1
                            THEN SortedByKey(graph.nodes[at].incoming, in)
                            ELSE graph.nodes[at].incoming
                    /\ l2 = IF Len(graph.nodes[at].outgoing) > 1
                            THEN SortedByKey(graph.nodes[at].outgoing, out)
                            ELSE graph.nodes[at].outgoing
  OBVIOUS
<1>2. PICK half : half = [graph EXCEPT !.nodes[at].incoming = l1]
  OBVIOUS
<1>3. CASE at \in DOMAIN graph.nodes
  <2>1. graph.nodes[at].incoming \in Seq(Nat) /\ graph.nodes[at].outgoing \in Seq(Nat)
    BY <1>3, NodeLists
  <2>2. /\ l1 \in Seq(Nat) /\ l2 \in Seq(Nat)
        /\ \A x : Count(l1, x) = Count(graph.nodes[at].incoming, x)
        /\ \A x : Count(l2, x) = Count(graph.nodes[at].outgoing, x)
    BY <1>1, <2>1, SortedCounts
  <2>3. IsGraph(half) /\ RelistedAt(half, graph, at, l1, graph.nodes[at].outgoing)
    BY <1>2, <1>3, <2>2, IncomingReplaced
  <2>4. at \in DOMAIN half.nodes
    BY <1>3, <2>3 DEF RelistedAt
  <2>5. PICK r : r = [half EXCEPT !.nodes[at].outgoing = l2]
    OBVIOUS
  <2>6. IsGraph(r) /\ RelistedAt(r, half, at, half.nodes[at].incoming, l2)
    BY <2>2, <2>3, <2>4, <2>5, OutgoingReplaced
  <2>7. new = r
    <3>1. new = [graph EXCEPT !.nodes[at].incoming = l1, !.nodes[at].outgoing = l2]
      BY <1>1
    <3>2. new = [half EXCEPT !.nodes[at].outgoing = l2]
      BY <1>2, <3>1
    <3> QED
      BY <2>5, <3>2
  <2>8. r.edges = graph.edges /\ DOMAIN r.nodes = DOMAIN graph.nodes
    BY <2>3, <2>6 DEF RelistedAt
  <2>9. ASSUME NEW n \in DOMAIN graph.nodes
        PROVE  /\ SameNode(r.nodes[n], graph.nodes[n])
               /\ r.nodes[n].incoming = IF n = at THEN l1 ELSE graph.nodes[n].incoming
               /\ r.nodes[n].outgoing = IF n = at THEN l2 ELSE graph.nodes[n].outgoing
    <3>1. /\ SameNode(half.nodes[n], graph.nodes[n])
          /\ half.nodes[n].incoming = IF n = at THEN l1 ELSE graph.nodes[n].incoming
          /\ half.nodes[n].outgoing = graph.nodes[n].outgoing
      BY <2>3 DEF RelistedAt
    <3>2. n \in DOMAIN half.nodes
      BY <2>3 DEF RelistedAt
    <3>3. /\ SameNode(r.nodes[n], half.nodes[n])
          /\ r.nodes[n].incoming = half.nodes[n].incoming
          /\ r.nodes[n].outgoing = IF n = at THEN l2 ELSE half.nodes[n].outgoing
      BY <2>6, <3>2 DEF RelistedAt
    <3>4. SameNode(r.nodes[n], graph.nodes[n])
      BY <3>1, <3>3 DEF SameNode
    <3> QED
      BY <3>1, <3>3, <3>4
  <2>10. \A n \in DOMAIN graph.nodes :
            /\ SameNode(r.nodes[n], graph.nodes[n])
            /\ \A x : /\ Count(r.nodes[n].incoming, x) = Count(graph.nodes[n].incoming, x)
                      /\ Count(r.nodes[n].outgoing, x) = Count(graph.nodes[n].outgoing, x)
    BY <2>2, <2>9
  <2> QED
    BY <2>6, <2>7, <2>8, <2>10 DEF SameCounts
<1>4. CASE at \notin DOMAIN graph.nodes
  <2>1. half = graph
    BY <1>2, <1>4, NoNodeReplaced
  <2>2. new = [graph EXCEPT !.nodes[at].incoming = l1, !.nodes[at].outgoing = l2]
    BY <1>1
  <2>3. new = [half EXCEPT !.nodes[at].outgoing = l2]
    BY <1>2, <2>2
  <2>4. [graph EXCEPT !.nodes[at].outgoing = l2] = graph
    BY <1>4, NoNodeReplaced
  <2>5. new = graph
    BY ONLY <2>1, <2>3, <2>4
  <2> QED
    BY <2>5 DEF SameCounts, SameNode
<1> QED
  BY <1>3, <1>4

(* Sorting keeps what lists hold.                                           *)
LEMMA SortEdgesFits ==
    ASSUME CrossingInv, UndoInv, SortEdges
    PROVE  UndoInv' \/ CrossingPanic
<1>1. phase = "edges" /\ InvAt(graph, before, phase, at, saved) /\ phase \in CrossingPhases
  BY CrossingInvIn DEF SortEdges, CrossingPhases
<1>2. UndoAt(graph, before, "edges", at, saved)
  BY <1>1, UndoInvIn
<1>3. CASE phase' = "ports" /\ at' = 1 /\ UNCHANGED <<parsed, graph, before, saved>>
  <2>1. UndoAt(graph, before, "ports", 1, saved)
    BY <1>2 DEF UndoAt
  <2>2. phase' \in CrossingPhases
    BY <1>3 DEF CrossingPhases
  <2> QED
    BY <1>3, <2>1, <2>2, UndoInvIn
<1>4. ASSUME NEW in, NEW out, at <= Len(graph.nodes), at' = at + 1, UNCHANGED <<parsed, phase, before, saved>>,
             graph' = [graph EXCEPT
                !.nodes[at].incoming = IF Len(@) > 1 THEN SortedByKey(@, in) ELSE @,
                !.nodes[at].outgoing = IF Len(@) > 1 THEN SortedByKey(@, out) ELSE @]
      PROVE  UndoInv'
  <2>1. /\ IsGraph(graph) /\ IsGraph(before) /\ EndsExist(before) /\ at \in Nat
        /\ DOMAIN before.nodes \subseteq DOMAIN graph.nodes
    BY <1>1, BeforeWithin
  <2>2. PICK r : r = graph'
    OBVIOUS
  <2>3. SameCounts(r, graph)
    BY <1>4, <2>1, <2>2, SortedSameCounts
  <2>4. NodesStay(graph, before) /\ FinallyFits(graph, before, saved)
    BY <1>2 DEF UndoAt
  <2>5. NodesStay(r, before) /\ FinallyFits(r, before, saved)
    BY <2>1, <2>3, <2>4, FinallyFitsKept
  <2>6. UndoAt(r, before, "edges", at + 1, saved)
    BY <1>2, <2>5 DEF UndoAt
  <2> QED
    BY <1>1, <1>4, <2>2, <2>6, UndoInvIn
<1> QED
  BY <1>3, <1>4 DEF SortEdges

(* Links of a layer, and the turn to lone data nodes.                       *)
LEMMA OrderLayerFits ==
    ASSUME CrossingInv, UndoInv, OrderLayer
    PROVE  UndoInv' \/ CrossingPanic
<1>1. phase = "order" /\ InvAt(graph, before, "order", at, saved) /\ phase \in CrossingPhases
  BY CrossingInvIn DEF OrderLayer, CrossingPhases
<1>2. UndoAt(graph, before, "order", at, saved)
  BY <1>1, UndoInvIn
<1>3. /\ IsGraph(graph) /\ IsGraph(before) /\ EndsExist(before) /\ at \in Nat
      /\ DOMAIN before.nodes \subseteq DOMAIN graph.nodes
  BY <1>1, BeforeWithin
<1>4. CASE at > graph.numLayers /\ phase' = "lone" /\ at' = 1 /\ UNCHANGED <<parsed, graph, before, saved>>
  <2>1. UndoAt(graph, before, "lone", 1, saved)
    BY <1>2 DEF UndoAt
  <2>2. phase' \in CrossingPhases
    BY <1>4 DEF CrossingPhases
  <2> QED
    BY <1>4, <2>1, <2>2, UndoInvIn
<1>5. CASE /\ \E order \in Orders(at - 1) : graph' = Linked(order)
           /\ at' = at + 1 /\ UNCHANGED <<parsed, phase, before, saved>>
  <2>1. PICK order : order \in Orders(at - 1) /\ graph' = Linked(order)
    BY <1>5
  <2>2. PICK r, D : r = Linked(order) /\ D = InLayer(at - 1)
    OBVIOUS
  <2>3. EndsExist(graph) /\ LanesComplete(graph)
    BY <1>1 DEF InvAt, Whole
  <2>4. SameButLinks(r, graph)
    BY <1>3, <2>1, <2>2, <2>3, LinkedEffect
  <2>5. NodesStay(graph, before) /\ Fits(graph, before, saved, {})
    BY <1>2 DEF UndoAt
  <2>6. NodesStay(r, before) /\ Fits(r, before, saved, {})
    BY <1>3, <2>4, <2>5, FitsKept
  <2>7. UndoAt(r, before, "order", at + 1, saved)
    BY <1>2, <2>6 DEF UndoAt
  <2> QED
    BY <1>1, <1>5, <2>1, <2>2, <2>7, UndoInvIn
<1> QED
  BY <1>4, <1>5 DEF OrderLayer

(* A lone data node in its column, and the turn to the undo.                *)
LEMMA PlaceLoneDataFits ==
    ASSUME CrossingInv, UndoInv, PlaceLoneData
    PROVE  UndoInv' \/ CrossingPanic
<1>1. phase = "lone" /\ InvAt(graph, before, "lone", at, saved) /\ phase \in CrossingPhases
  BY CrossingInvIn DEF PlaceLoneData, CrossingPhases
<1>2. UndoAt(graph, before, "lone", at, saved)
  BY <1>1, UndoInvIn
<1>3. /\ IsGraph(graph) /\ IsGraph(before) /\ EndsExist(before) /\ at \in Nat /\ at >= 1
      /\ DOMAIN before.nodes \subseteq DOMAIN graph.nodes /\ saved \in SavedEdges(before)
  BY <1>1, BeforeWithin
<1>4. NodesStay(graph, before) /\ Fits(graph, before, saved, {})
  BY <1>2 DEF UndoAt
<1>5. CASE /\ at > Len(graph.nodes) /\ phase' = "undo" /\ at' = 1 /\ UNCHANGED <<parsed, before, saved>>
           /\ graph' = [graph EXCEPT !.lanes = [place \in DOMAIN @ |-> Retained(@[place], DOMAIN before.nodes)]]
  <2>1. PICK T : T = DOMAIN before.nodes
    OBVIOUS
  <2>2. PICK r : r = [graph EXCEPT !.lanes = [place \in DOMAIN graph.lanes |->
                                                 Retained(graph.lanes[place], T)]]
    OBVIOUS
  <2>3. r.nodes = graph.nodes /\ r.edges = graph.edges
    BY <1>3, <2>2, LanesRetained
  <2>4. NodesStay(r, before) /\ Fits(r, before, saved, {})
    BY <1>4, <2>3 DEF NodesStay, Fits, EdgesFit, ListsFit, LostFits
  <2>5. 1..(1 - 1) = {}
    OBVIOUS
  <2>6. 1 <= Len(saved) + 1
    <3>1. Len(saved) \in Nat
      BY <1>3 DEF SavedEdges
    <3> QED
      BY <3>1
  <2>7. UndoAt(r, before, "undo", 1, saved)
    BY <1>2, <2>4, <2>5, <2>6 DEF UndoAt
  <2>8. graph' = r /\ phase' \in CrossingPhases
    BY <1>5, <2>1, <2>2 DEF CrossingPhases
  <2> QED
    BY <1>5, <2>7, <2>8, UndoInvIn
<1>6. CASE /\ at <= Len(graph.nodes) /\ ~IsLoneData(graph.nodes[at])
           /\ at' = at + 1 /\ UNCHANGED <<parsed, graph, phase, before, saved>>
  <2>1. UndoAt(graph, before, "lone", at + 1, saved)
    BY <1>2 DEF UndoAt
  <2> QED
    BY <1>1, <1>6, <2>1, UndoInvIn
<1>7. CASE /\ at <= Len(graph.nodes) /\ IsLoneData(graph.nodes[at])
           /\ graph' = Inserted(graph, at, Spot(at))
           /\ at' = at + 1 /\ UNCHANGED <<parsed, phase, before, saved>>
  <2>1. at \in DOMAIN graph.nodes
    <3>1. DOMAIN graph.nodes = 1..Len(graph.nodes) /\ Len(graph.nodes) \in Nat
      BY <1>3, GraphParts
    <3> QED
      BY <1>3, <1>7, <3>1
  <2>2. PICK r, spot, L : /\ spot = Spot(at) /\ r = Inserted(graph, at, spot)
                          /\ L = LinkedIn(graph, "lone", at)
    OBVIOUS
  <2>3. Whole(graph) /\ KeptAt(graph, before, "lone") /\ LinksHold(graph, L)
    BY <1>1, <2>2 DEF InvAt
  <2>4. SameButLinks(r, graph)
    BY <1>3, <1>7, <2>1, <2>2, <2>3, LoneDataLinks
  <2>5. NodesStay(r, before) /\ Fits(r, before, saved, {})
    BY <1>3, <1>4, <2>4, FitsKept
  <2>6. UndoAt(r, before, "lone", at + 1, saved)
    BY <1>2, <2>5 DEF UndoAt
  <2> QED
    BY <1>1, <1>7, <2>2, <2>6, UndoInvIn
<1> QED
  BY <1>5, <1>6, <1>7 DEF PlaceLoneData

(* An edge that is rerouted is one of before, and runs within a layer.      *)
ReroutesEdge(g, b, i, m, from, to, flow, layer) ==
    /\ m = Len(b.edges) /\ i \in 1..m /\ g.edges[i] = b.edges[i]
    /\ RunsWithin(b, i) /\ IsWithin(g, i, from, to, flow, layer)
    /\ from \in DOMAIN b.nodes /\ to \in DOMAIN b.nodes /\ layer = b.nodes[to].layer

LEMMA ReroutedIsWithin ==
    ASSUME InvAt(graph, before, "crossings", at, saved), UndoAt(graph, before, "crossings", at, saved),
           NEW m \in Nat, m = Len(before.edges), at <= m, IsRerouted(at)
    PROVE  \E from, to, flow, layer : ReroutesEdge(graph, before, at, m, from, to, flow, layer)
<1>1. InvAt(graph, before, "crossings", at, saved)
  OBVIOUS
<1>2. /\ IsGraph(graph) /\ IsGraph(before) /\ EndsExist(before) /\ at \in Nat /\ at >= 1
      /\ DOMAIN before.nodes \subseteq DOMAIN graph.nodes
  BY <1>1, BeforeWithin
<1>3. EndsDiffer(before) /\ NodesStay(graph, before)
  BY DEF UndoAt
<1>4. DOMAIN before.edges = 1..m
  BY <1>2, GraphParts
<1>5. PICK k \in Nat : k = Len(graph.edges) /\ DOMAIN graph.edges = 1..k
  BY <1>2, GraphParts
<1>6. m <= k /\ Whole(graph) /\ ReroutingAt(graph, before, at)
  BY <1>1, <1>5 DEF InvAt, ReroutingAt
<1>7. at \in 1..m /\ at \in 1..k /\ at \in at..m
  BY <1>2, <1>6
<1>8. PICK from, to, flow, layer : /\ from = graph.edges[at].from /\ to = graph.edges[at].to
                                   /\ flow = graph.edges[at].flow /\ layer = graph.nodes[to].layer
  OBVIOUS
<1>9. /\ graph.edges[at] = before.edges[at]
      /\ From(graph, at).layer = To(graph, at).layer => graph.edges[at].type # "Replaced"
  BY <1>4, <1>6, <1>7 DEF ReroutingAt
<1>10. /\ graph.nodes[from].layer = layer /\ graph.nodes[from].pool = graph.nodes[to].pool
      /\ graph.edges[at].type # "Replaced"
  BY <1>8, <1>9 DEF IsRerouted, From, To, SamePool
<1>11. from \in DOMAIN before.nodes /\ to \in DOMAIN before.nodes /\ from # to
  BY <1>2, <1>3, <1>4, <1>7, <1>8, <1>9 DEF EndsExist, EndsDiffer
<1>12. from \in DOMAIN graph.nodes /\ to \in DOMAIN graph.nodes
  BY <1>2, <1>11
<1>13. /\ before.nodes[from].layer = graph.nodes[from].layer
       /\ before.nodes[to].layer = graph.nodes[to].layer
       /\ before.nodes[from].pool = graph.nodes[from].pool
       /\ before.nodes[to].pool = graph.nodes[to].pool
  BY <1>3, <1>11 DEF NodesStay, Place
<1>14. layer \in Nat /\ flow \in {"sequence", "message", "data"}
  <2>1. graph.nodes[to] \in GraphNodes /\ graph.edges[at] \in GraphEdges
    BY <1>2, <1>5, <1>7, <1>12, GraphParts
  <2> QED
    BY <1>8, <2>1 DEF GraphNodes, GraphEdges
<1>15. IsWithin(graph, at, from, to, flow, layer)
  <2>1. EndsExist(graph) /\ Mirrored(graph) /\ LanesComplete(graph)
    BY <1>6 DEF Whole
  <2>2. at \in DOMAIN graph.edges
    BY <1>5, <1>7
  <2> QED
    BY <1>2, <1>8, <1>10, <1>11, <1>12, <1>14, <2>1, <2>2 DEF IsWithin
<1>16. RunsWithin(before, at)
  BY <1>8, <1>9, <1>10, <1>13 DEF RunsWithin, From, To, SamePool
<1>17. layer = before.nodes[to].layer
  BY <1>8, <1>13
<1> QED
  BY <1>7, <1>9, <1>11, <1>15, <1>16, <1>17 DEF ReroutesEdge

(* The rerouting of an edge is what the saved edges say.                    *)
LEMMA RerouteKeepsFit ==
    ASSUME CrossingInv, UndoInv, Reroute
    PROVE  UndoInv'
<1>1. phase = "crossings" /\ InvAt(graph, before, "crossings", at, saved) /\ phase \in CrossingPhases
  BY CrossingInvIn DEF Reroute, CrossingPhases
<1>2. UndoAt(graph, before, "crossings", at, saved)
  BY <1>1, UndoInvIn
<1>3. /\ IsGraph(graph) /\ IsGraph(before) /\ EndsExist(before) /\ at \in Nat /\ at >= 1
      /\ DOMAIN before.nodes \subseteq DOMAIN graph.nodes /\ saved \in SavedEdges(before)
  BY <1>1, BeforeWithin
<1>4. /\ EndsDiffer(before) /\ NodesStay(graph, before) /\ Fits(graph, before, saved, {})
      /\ \A j \in DOMAIN saved : saved[j].id < at
  BY <1>2 DEF UndoAt
<1>5. PICK m \in Nat : m = Len(before.edges) /\ DOMAIN before.edges = 1..m
  BY <1>3, GraphParts
<1>6. PICK k \in Nat : k = Len(graph.edges) /\ DOMAIN graph.edges = 1..k
  BY <1>3, GraphParts
<1>7. SavedFit(saved, before)
  BY <1>4 DEF Fits
<1>8. \A j \in DOMAIN saved : saved[j].id \in Nat
  <2>1. \A j \in DOMAIN saved : saved[j].id \in 1..m
    BY <1>5, <1>7 DEF SavedFit
  <2> QED
    BY <2>1
<1>9. \A j \in DOMAIN saved : saved[j].id < at + 1
  <2>1. \A x \in Nat : x < at => x < at + 1
    BY <1>3
  <2> QED
    BY <1>4, <1>8, <2>1
<1>10. CASE at > Len(before.edges) /\ phase' = "order" /\ at' = 1 /\ UNCHANGED <<parsed, graph, before, saved>>
  <2>1. UndoAt(graph, before, "order", 1, saved)
    BY <1>2 DEF UndoAt
  <2>2. phase' \in CrossingPhases
    BY <1>10 DEF CrossingPhases
  <2> QED
    BY <1>10, <2>1, <2>2, UndoInvIn
<1>11. CASE /\ at <= Len(before.edges) /\ ~IsRerouted(at) /\ at' = at + 1
            /\ UNCHANGED <<parsed, graph, phase, before, saved>>
  <2>1. UndoAt(graph, before, "crossings", at + 1, saved)
    BY <1>2, <1>9 DEF UndoAt
  <2> QED
    BY <1>1, <1>11, <2>1, UndoInvIn
<1>12. CASE /\ at <= Len(before.edges) /\ IsRerouted(at) /\ at' = at + 1
            /\ saved' = Append(saved, [id |-> at, edge |-> graph.edges[at]])
            /\ graph' = Rerouted(graph, at) /\ UNCHANGED <<parsed, phase, before>>
  <2>1. PICK from, to, flow, layer : ReroutesEdge(graph, before, at, m, from, to, flow, layer)
    BY <1>1, <1>2, <1>5, <1>12, ReroutedIsWithin
  <2>2. /\ at \in 1..m /\ graph.edges[at] = before.edges[at] /\ RunsWithin(before, at)
        /\ IsWithin(graph, at, from, to, flow, layer) /\ layer = before.nodes[to].layer
    BY <2>1 DEF ReroutesEdge
  <2>3. m <= k
    BY <1>1, <1>5, <1>6 DEF InvAt, ReroutingAt
  <2>4. PICK c \in Nat : c = Len(saved)
    <3>1. Len(saved) \in Nat
      BY <1>3 DEF SavedEdges
    <3> QED
      BY <3>1
  <2>5. PICK rec, t, r : /\ rec = [id |-> at, edge |-> graph.edges[at]]
                          /\ t = Append(saved, rec) /\ r = Rerouted(graph, at)
    OBVIOUS
  <2>6. Fits(r, before, t, {})
    BY <1>3, <1>4, <1>5, <1>6, <2>2, <2>3, <2>4, <2>5, RerouteFits
  <2>7. NodesStay(r, before)
    <3>1. HasRight(r, graph, at)
      BY <2>2, <2>5, ReroutedExtends DEF IsWithin
    <3>2. \A n \in DOMAIN graph.nodes : SameNode(r.nodes[n], graph.nodes[n])
      BY <3>1 DEF HasRight, Extended
    <3>3. \A n \in DOMAIN before.nodes : SameNode(r.nodes[n], graph.nodes[n])
      BY <1>3, <3>2
    <3> QED
      BY <1>4, <3>3 DEF NodesStay, SameNode, Place
  <2>8. \A j \in DOMAIN t : t[j].id < at + 1
    <3>1. PICK R : R = [id : DOMAIN before.edges, edge : ToSet(before.edges)]
      OBVIOUS
    <3>2. saved \in Seq(R)
      BY <1>3, <3>1 DEF SavedEdges
    <3>3. rec \in R /\ rec.id = at
      <4>1. at \in DOMAIN before.edges /\ graph.edges[at] \in ToSet(before.edges)
        BY <1>5, <2>2 DEF ToSet
      <4> QED
        BY <2>5, <3>1, <4>1
    <3>4. /\ DOMAIN t = 1..(c + 1) /\ \A j \in 1..c : t[j] = saved[j] /\ j \in DOMAIN saved
          /\ t[c + 1] = rec
      BY <2>4, <2>5, <3>2, <3>3
    <3>5. ASSUME NEW j \in DOMAIN t PROVE t[j].id < at + 1
      <4>1. CASE j \in 1..c
        BY <1>9, <3>4, <4>1
      <4>2. CASE j = c + 1
        BY <1>3, <3>3, <3>4, <4>2
      <4> QED
        BY <3>4, <4>1, <4>2
    <3> QED
      BY <3>5
  <2>9. UndoAt(r, before, "crossings", at + 1, t)
    BY <1>2, <2>6, <2>7, <2>8 DEF UndoAt
  <2> QED
    BY <1>1, <1>12, <2>5, <2>9, UndoInvIn
<1> QED
  BY <1>1, <1>10, <1>11, <1>12 DEF Reroute

(* One rerouted edge is undone, or the temporary nodes and edges go.        *)
LEMMA UndoKeepsFit ==
    ASSUME CrossingInv, UndoInv, Undo
    PROVE  UndoInv'
<1>1. phase = "undo" /\ InvAt(graph, before, "undo", at, saved) /\ phase \in CrossingPhases
  BY CrossingInvIn DEF Undo, CrossingPhases
<1>2. UndoAt(graph, before, "undo", at, saved)
  BY <1>1, UndoInvIn
<1>3. /\ IsGraph(graph) /\ IsGraph(before) /\ EndsExist(before) /\ at \in Nat /\ at >= 1
      /\ DOMAIN before.nodes \subseteq DOMAIN graph.nodes /\ saved \in SavedEdges(before)
  BY <1>1, BeforeWithin
<1>4. /\ EndsDiffer(before) /\ Mirrored(before) /\ NodesStay(graph, before)
      /\ Fits(graph, before, saved, 1..(at - 1)) /\ at <= Len(saved) + 1
  BY <1>2 DEF UndoAt
<1>5. PICK R : R = [id : DOMAIN before.edges, edge : ToSet(before.edges)]
  OBVIOUS
<1>6. saved \in Seq(R)
  BY <1>3, <1>5 DEF SavedEdges
<1>7. PICK c \in Nat : c = Len(saved) /\ DOMAIN saved = 1..c
  BY <1>6
<1>8. SavedFit(saved, before) /\ EdgesFit(graph, before, saved, 1..(at - 1))
  BY <1>4 DEF Fits
<1>9. DOMAIN before.edges \subseteq DOMAIN graph.edges
  <2>1. PICK m \in Nat : m = Len(before.edges) /\ DOMAIN before.edges = 1..m
    BY <1>3, GraphParts
  <2>2. PICK k \in Nat : k = Len(graph.edges) /\ DOMAIN graph.edges = 1..k
    BY <1>3, GraphParts
  <2>3. Cardinality(WithLeftIn(before, saved)) \in Nat
    <3>1. WithLeftIn(before, saved) \subseteq DOMAIN saved
      BY DEF WithLeftIn
    <3>2. IsFiniteSet(WithLeftIn(before, saved))
      BY <1>6, <3>1, FinitePart
    <3> QED
      BY <3>2, FS_CardinalityType
  <2>4. PICK w \in Nat : w = Cardinality(WithLeftIn(before, saved))
    BY <2>3
  <2>5. k = m + c + 2 * w
    BY <1>7, <1>8, <2>1, <2>2, <2>4 DEF EdgesFit
  <2>6. m <= k
    BY <2>5
  <2>7. 1..m \subseteq 1..k
    BY <2>6
  <2> QED
    BY <2>1, <2>2, <2>7
<1>10. CASE /\ at <= Len(saved) /\ graph' = Restored(graph, saved[at].id, saved[at].edge)
            /\ at' = at + 1 /\ UNCHANGED <<parsed, phase, before, saved>>
  <2>1. at \in 1..c /\ at \in DOMAIN saved
    BY <1>3, <1>7, <1>10
  <2>2. PICK id, edge, r : id = saved[at].id /\ edge = saved[at].edge /\ r = Restored(graph, id, edge)
    OBVIOUS
  <2>3. \A n \in DOMAIN before.nodes : graph.nodes[n].layer = before.nodes[n].layer
    BY <1>4 DEF NodesStay
  <2>4. \A e \in DOMAIN before.edges : before.edges[e].from # before.edges[e].to
    BY <1>4 DEF EndsDiffer
  <2>5. Fits(r, before, saved, 1..at)
    BY <1>3, <1>4, <1>7, <1>9, <2>1, <2>2, <2>3, <2>4, UndoFits
  <2>6. NodesStay(r, before)
    <3>1. /\ id \in Nat /\ edge \in GraphEdges /\ edge.from \in DOMAIN graph.nodes
          /\ edge.to \in DOMAIN graph.nodes
      <4>1. Len(before.nodes) <= Len(graph.nodes)
        BY <1>1 DEF InvAt, KeptAt
      <4> QED
        BY <1>3, <2>1, <2>2, <4>1, SavedEdgesFit
    <3>2. SameButLists(r, graph)
      BY <1>3, <2>2, <3>1, RestoredKeeps
    <3>3. \A n \in DOMAIN before.nodes : SameNode(r.nodes[n], graph.nodes[n])
      BY <1>3, <3>2 DEF SameButLists
    <3> QED
      BY <1>4, <3>3 DEF NodesStay, SameNode, Place
  <2>7. at + 1 <= c + 1 /\ (at + 1) - 1 = at
    BY <1>3, <2>1
  <2>8. UndoAt(r, before, "undo", at + 1, saved)
    BY <1>4, <1>7, <2>5, <2>6, <2>7 DEF UndoAt
  <2> QED
    BY <1>1, <1>10, <2>2, <2>8, UndoInvIn
<1>11. CASE /\ at > Len(saved) /\ graph' = Truncated(WithoutTemporaries) /\ phase' = "edges" /\ at' = 1
            /\ UNCHANGED <<parsed, before, saved>>
  <2>1. 1..(at - 1) = DOMAIN saved
    <3>1. at - 1 = c
      BY <1>3, <1>4, <1>7, <1>11
    <3> QED
      BY <1>7, <3>1
  <2>2. PICK k \in Nat : k = Len(before.nodes) /\ DOMAIN before.nodes = 1..k
    BY <1>3, GraphParts
  <2>3. PICK j \in Nat : j = Len(graph.nodes) /\ DOMAIN graph.nodes = 1..j
    BY <1>3, GraphParts
  <2>4. k <= j
    BY <1>1, <2>2, <2>3 DEF InvAt, KeptAt
  <2>5. PICK L, u, r : L = LinkedIn(graph, "undo", at) /\ u = WithoutTemporaries /\ r = Truncated(u)
    OBVIOUS
  <2>6. UnlinkedFrom(u, graph, L, L \ ((k + 1)..j))
    <3>1. L \in SUBSET DOMAIN graph.nodes /\ LinksHold(graph, L)
      BY <1>1, <2>5 DEF InvAt, LinkedIn
    <3> QED
      BY <1>3, <2>2, <2>3, <2>4, <2>5, <3>1, TemporariesUnlinked
  <2>7. IsGraph(u) /\ SameButLinks(u, graph) /\ k <= Len(u.nodes)
    BY <2>3, <2>4, <2>6 DEF UnlinkedFrom, SameButLinks
  <2>8. NodesStay(u, before) /\ Fits(u, before, saved, DOMAIN saved)
    BY <1>3, <1>4, <2>1, <2>7, FitsKept
  <2>9. FinallyFits(r, before, saved) /\ NodesStay(r, before)
    BY <1>3, <1>4, <2>2, <2>5, <2>7, <2>8, FinishFits
  <2>10. UndoAt(r, before, "edges", 1, saved)
    BY <1>4, <2>9 DEF UndoAt
  <2>11. phase' \in CrossingPhases
    BY <1>11 DEF CrossingPhases
  <2> QED
    BY <1>11, <2>5, <2>10, <2>11, UndoInvIn
<1> QED
  <2>1. at <= Len(saved) \/ at > Len(saved)
    BY <1>3, <1>7
  <2> QED
    BY <1>10, <1>11, <2>1 DEF Undo

(* When the phase begins nothing is rerouted.                               *)
LEMMA NothingRerouted ==
    ASSUME NEW g, IsGraph(g), Mirrored(g), NEW s, s = <<>>
    PROVE  Fits(g, g, s, {}) /\ NodesStay(g, g)
<1>1. DOMAIN s = {} /\ Len(s) = 0
  OBVIOUS
<1>2. SavedFit(s, g)
  BY <1>1 DEF SavedFit
<1>3. EdgesFit(g, g, s, {})
  <2>1. Len(g.edges) \in Nat
    BY GraphParts
  <2>2. WithLeftIn(g, s) = {}
    BY <1>1 DEF WithLeftIn
  <2>3. Cardinality(WithLeftIn(g, s)) = 0
    BY <2>2, FS_EmptySet
  <2>4. Len(g.edges) = Len(g.edges) + Len(s) + 2 * Cardinality(WithLeftIn(g, s))
    BY <1>1, <2>1, <2>3
  <2> QED
    BY <2>4 DEF EdgesFit
<1>4. ASSUME NEW n \in DOMAIN g.nodes PROVE ListsFit(g, g, s, {}, n)
  <2>1. LeavesIn(s, {}, n) = {} /\ FromLeftIn(g, s, {}, n) = {}
    BY <1>1 DEF LeavesIn, FromLeftIn
  <2>2. /\ Cardinality(LeavesIn(s, {}, n)) = 0 /\ Cardinality(FromLeftIn(g, s, {}, n)) = 0
        /\ {s[i].id : i \in LeavesIn(s, {}, n)} = {}
    BY <2>1, FS_EmptySet
  <2>3. PICK in, out : in = g.nodes[n].incoming /\ out = g.nodes[n].outgoing
    OBVIOUS
  <2>4. in \in Seq(Nat) /\ out \in Seq(Nat)
    BY <2>3, NodeLists
  <2>5. OutgoingFits(out, out, 0)
    <3>1. Len(out) = Len(out) + 0
      BY <2>4
    <3> QED
      BY <2>4, <3>1 DEF OutgoingFits
  <2>6. PICK m \in Nat : m = Len(g.edges) /\ DOMAIN g.edges = 1..m
    BY GraphParts
  <2>7. OnTop(in, 0, m)
    <3>1. ToSet(in) \subseteq 1..m
      BY <2>3, <2>6 DEF Mirrored
    <3>2. \A p \in DOMAIN in : in[p] \in 1..m
      BY <3>1 DEF ToSet
    <3>3. \A p \in DOMAIN in : p <= Len(in) - 0
      BY <2>4
    <3>4. 0 <= Len(in)
      BY <2>4
    <3> QED
      BY <2>4, <3>2, <3>3, <3>4 DEF OnTop
  <2>8. IncomingFits(in, in, {}, 0, m)
    BY <2>7 DEF IncomingFits
  <2> QED
    BY <2>2, <2>3, <2>5, <2>6, <2>8 DEF ListsFit
<1>5. NodesStay(g, g)
  BY DEF NodesStay
<1> QED
  BY <1>1, <1>2, <1>3, <1>4, <1>5 DEF Fits

(* What a layered, a placed or a split graph has for edges joins two nodes. *)
LEMMA LayeredEndsDiffer ==
    ASSUME IsGraph(graph), EndsExist(graph), \A e \in DOMAIN graph.edges : FlowFits(graph, e),
           NEW layer \in [FlowNodes -> 0..Len(graph.nodes)], Feasible(layer)
    PROVE  EndsDiffer(graph)
<1> SUFFICES ASSUME NEW e \in DOMAIN graph.edges
             PROVE  graph.edges[e].from # graph.edges[e].to
  BY DEF EndsDiffer
<1>1. FlowFits(graph, e) /\ graph.edges[e].flow \in {"sequence", "message", "data"}
  <2>1. graph.edges[e] \in GraphEdges
    BY GraphParts
  <2> QED
    BY <2>1 DEF GraphEdges
<1>2. CASE graph.edges[e].flow = "sequence"
  <2>1. PICK from, to : from = graph.edges[e].from /\ to = graph.edges[e].to
    OBVIOUS
  <2>2. from \in FlowNodes
    BY <1>1, <1>2, <2>1 DEF FlowFits, From, FlowNodes, EndsExist
  <2>3. layer[from] \in 0..Len(graph.nodes) /\ Len(graph.nodes) \in Nat
    BY <2>2, GraphParts
  <2>4. layer[to] >= layer[from] + 1
    BY <1>2, <2>1 DEF Feasible, SequenceFlows
  <2>5. PICK l \in Nat : l = layer[from]
    BY <2>3
  <2>6. ~(l >= l + 1)
    BY <2>5
  <2> QED
    BY <2>1, <2>4, <2>5, <2>6
<1>3. CASE graph.edges[e].flow = "message"
  BY <1>1, <1>3 DEF FlowFits, SamePool, From, To
<1>4. CASE graph.edges[e].flow = "data"
  BY <1>1, <1>4 DEF FlowFits
<1> QED
  BY <1>1, <1>2, <1>3, <1>4

LEMMA SplitEndsDiffer ==
    ASSUME NEW e, Splittable(e), EndsDiffer(graph), NEW r, r = Split(e)
    PROVE  EndsDiffer(r)
<1>1. PICK k : k = To(graph, e).layer - From(graph, e).layer - 1
  OBVIOUS
<1>2. IsSplit(r, e, k) /\ k \in Nat /\ k >= 1
  BY <1>1, SplitEffect
<1>3. PICK N \in Nat : N = Len(graph.edges) /\ DOMAIN graph.edges = 1..N
  BY GraphParts DEF Splittable
<1>4. DOMAIN r.edges = 1..(N + k + 1)
  BY <1>2, <1>3 DEF IsSplit
<1>5. PICK L \in Nat : L = From(graph, e).layer
  BY SplittableTypes
<1> SUFFICES ASSUME NEW d \in 1..(N + k + 1)
             PROVE  r.edges[d].from # r.edges[d].to
  BY <1>4 DEF EndsDiffer
<1>6. CASE d \in 1..N
  <2>1. SplitLeaves(r, e, d)
    BY <1>2, <1>3, <1>6, SplitLeavesEdges
  <2> QED
    BY <1>3, <1>6, <2>1 DEF SplitLeaves, EndsDiffer
<1>7. CASE d \notin 1..N
  <2>1. PICK j \in 1..(k + 1) : d = N + j
    <3>1. d - N \in 1..(k + 1) /\ d = N + (d - N)
      BY <1>2, <1>7
    <3> QED
      BY <3>1
  <2>2. SplitHop(r, e, k, j)
    BY <1>1, <1>2, SplitHops
  <2>3. From(r, d).layer = L + j - 1 /\ To(r, d).layer = L + j
    BY <1>3, <1>5, <2>1, <2>2 DEF SplitHop
  <2>4. j \in Nat
    BY <1>2
  <2>5. L + j - 1 # L + j
    BY <2>4
  <2> QED
    BY <2>3, <2>5 DEF From, To
<1> QED
  BY <1>6, <1>7

(* The layout up to the phase keeps edges between two nodes.                *)
LEMMA LayOutFits ==
    ASSUME CrossingInv, UndoInv, LayOut
    PROVE  UndoInv'
<1>1. Work /\ before' = graph' /\ saved' = saved
  BY DEF LayOut
<1>2. phase \in Phases
  BY <1>1 DEF Work, SolveLayers, PlaceDataNode, SplitEdge, SortLanes, Phases
<1>3. LayersInv /\ saved = <<>> /\ before = graph
  BY <1>2 DEF CrossingInv, StartInv
<1>4. LayersInv'
  BY <1>1, <1>3, LayersStep DEF Next
<1>5. IsGraph(graph') /\ Mirrored(graph')
  <2>1. TypeOK' /\ GraphInv'
    BY <1>4 DEF LayersInv
  <2>2. /\ IsGraph(graph)' <=> IsGraph(graph')
        /\ Mirrored(graph)' <=> Mirrored(graph')
    BY DEF IsGraph, Mirrored
  <2> QED
    BY <2>1, <2>2 DEF TypeOK, GraphInv
<1>6. /\ IsGraph(graph) /\ EndsExist(graph) /\ Mirrored(graph) /\ LanesComplete(graph) /\ at \in Nat
      /\ phase \in {"layers", "data"} => \A e \in DOMAIN graph.edges : FlowFits(graph, e)
  BY <1>3, LayersInvParts
<1>7. phase # "layers" => EndsDiffer(graph)
  BY <1>2, <1>3 DEF UndoInv, Phases
<1>8. phase' # "panic" => EndsDiffer(graph')
  <2>1. CASE SolveLayers
    <3>1. CASE Panic
      BY <3>1 DEF Panic
    <3>2. ASSUME NEW layer \in Optima,
                 graph' = [graph EXCEPT
                    !.nodes = [n \in DOMAIN graph.nodes |->
                                  IF n \in FlowNodes
                                  THEN [graph.nodes[n] EXCEPT !.layer = layer[n]]
                                  ELSE graph.nodes[n]],
                    !.numLayers = Max({layer[n] + 1 : n \in FlowNodes} \union {0})]
          PROVE  EndsDiffer(graph')
      <4>1. layer \in [FlowNodes -> 0..Len(graph.nodes)] /\ Feasible(layer)
        BY OptimaAreLayerings
      <4>2. PICK count \in Nat : count = Max({layer[n] + 1 : n \in FlowNodes} \union {0})
        BY <1>6, <4>1, NumLayersType
      <4>3. PICK r : r = [graph EXCEPT !.nodes = Layered(layer), !.numLayers = count]
        OBVIOUS
      <4>4. Relayered(r, graph) /\ graph' = r
        BY <1>6, <3>2, <4>1, <4>2, <4>3, LayeredEffect DEF Layered
      <4>5. EndsDiffer(graph)
        BY <1>6, <2>1, <4>1, LayeredEndsDiffer DEF SolveLayers
      <4> QED
        BY <4>4, <4>5 DEF Relayered, EndsDiffer
    <3> QED
      BY <2>1, <3>1, <3>2 DEF SolveLayers
  <2>2. CASE PlaceDataNode
    <3>1. EndsDiffer(graph) /\ phase = "data"
      BY <1>7, <2>2 DEF PlaceDataNode
    <3>2. CASE graph' = graph
      BY <3>1, <3>2
    <3>3. CASE at \in DOMAIN graph.nodes /\ graph' = Placed(at)
      <4>1. FlowsTurnable(at)
        <5>1. \A e \in DOMAIN graph.edges : graph.edges[e].type # "Replaced"
          BY <1>6, <3>1 DEF FlowFits
        <5> QED
          BY <3>1, <5>1 DEF FlowsTurnable, EndsDiffer
      <4>2. PICK r : r = Placed(at)
        OBVIOUS
      <4>3. PICK layer \in Nat, half \in BOOLEAN : IsPlaced(r, at, layer, half)
        BY <1>6, <3>3, <4>1, <4>2, PlacedEffect
      <4>4. /\ DOMAIN r.edges = DOMAIN graph.edges
            /\ \A e \in DOMAIN graph.edges : \/ TurnedEdge(r.edges[e], graph.edges[e])
                                             \/ SameEdge(r.edges[e], graph.edges[e])
        BY <4>3 DEF IsPlaced
      <4>5. EndsDiffer(r)
        BY <3>1, <4>4 DEF TurnedEdge, SameEdge, EndsDiffer
      <4> QED
        BY <3>3, <4>2, <4>5
    <3>4. graph' = graph \/ (at \in DOMAIN graph.nodes /\ graph' = Placed(at))
      <4>1. DOMAIN graph.nodes = 1..Len(graph.nodes) /\ Len(graph.nodes) \in Nat
        BY <1>6, GraphParts
      <4>2. at >= 1
        BY <1>3, <3>1 DEF LayersInv, UnplacedInv
      <4>3. at > Len(graph.nodes) \/ at \in DOMAIN graph.nodes
        BY <1>6, <4>1, <4>2
      <4>4. at > Len(graph.nodes) => graph' = graph
        BY <2>2, <4>1, <1>6 DEF PlaceDataNode
      <4>5. at \in DOMAIN graph.nodes => graph' = graph \/ graph' = Placed(at)
        BY <1>6, <2>2, <4>1 DEF PlaceDataNode
      <4> QED
        BY <4>3, <4>4, <4>5
    <3> QED
      BY <3>2, <3>3, <3>4
  <2>3. CASE SplitEdge
    <3>1. EndsDiffer(graph) /\ phase = "dummies"
      BY <1>7, <2>3 DEF SplitEdge
    <3>2. CASE graph' = graph
      BY <3>1, <3>2
    <3>3. CASE at <= Len(parsed.edges) /\ IsLong(at) /\ graph' = Split(at)
      <4>1. Splittable(at)
        BY <1>3, <3>1, <3>3, LongIsSplittable
      <4>2. PICK r : r = Split(at)
        OBVIOUS
      <4>3. EndsDiffer(r)
        BY <3>1, <4>1, <4>2, SplitEndsDiffer
      <4> QED
        BY <3>3, <4>2, <4>3
    <3> QED
      BY <2>3, <3>2, <3>3 DEF SplitEdge, Panic
  <2>4. CASE SortLanes
    <3>1. graph'.edges = graph.edges /\ phase = "sort"
      <4>1. graph \in [nodes : Seq(GraphNodes), edges : Seq(GraphEdges),
                       lanes : [DOMAIN graph.lanes -> Seq(Nat)], numLayers : Nat]
        BY <1>6 DEF IsGraph
      <4> QED
        BY <2>4, <4>1 DEF SortLanes
    <3> QED
      BY <1>7, <3>1 DEF EndsDiffer
  <2> QED
    BY <1>1, <2>1, <2>2, <2>3, <2>4 DEF Work
<1>9. phase' \in Phases \union {"crossings", "panic"}
  BY <1>4 DEF LayersInv, TypeOK, Phases
<1>10. CASE phase' = "crossings"
  <2>1. phase' \in CrossingPhases
    BY <1>10 DEF CrossingPhases
  <2>2. PICK g, s : g = graph' /\ s = saved'
    OBVIOUS
  <2>3. s = <<>> /\ EndsDiffer(g) /\ Mirrored(g) /\ IsGraph(g) /\ g = before'
    BY <1>1, <1>3, <1>5, <1>8, <1>10, <2>2
  <2>4. Fits(g, g, s, {}) /\ NodesStay(g, g)
    BY <2>3, NothingRerouted
  <2>5. UndoAt(g, g, "crossings", at', s)
    <3>1. \A j \in DOMAIN s : s[j].id < at'
      BY <2>3
    <3> QED
      BY <2>3, <2>4, <3>1 DEF UndoAt
  <2> QED
    BY <1>10, <2>1, <2>2, <2>3, <2>5, UndoInvIn
<1>11. CASE phase' # "crossings"
  <2>1. phase' \notin CrossingPhases
    BY <1>9, <1>11 DEF Phases, CrossingPhases
  <2>2. EndsDiffer(before)' <=> EndsDiffer(before')
    BY DEF EndsDiffer
  <2> QED
    BY <1>1, <1>8, <2>1, <2>2 DEF UndoInv
<1> QED
  BY <1>10, <1>11

(* An ended process and one that does nothing keep what they know.          *)
LEMMA NothingFits ==
    ASSUME UndoInv, CrossingPanic \/ UNCHANGED crossingVars
    PROVE  UndoInv'
<1>1. CASE CrossingPanic
  <2>1. phase' = "panic" /\ phase' \notin CrossingPhases
    BY <1>1 DEF CrossingPanic, Panic, CrossingPhases
  <2> QED
    BY <2>1 DEF UndoInv
<1>2. CASE UNCHANGED crossingVars
  <2>1. UNCHANGED <<parsed, graph, phase, at, before, saved>>
    BY <1>2 DEF crossingVars
  <2>2. CASE phase \in CrossingPhases
    <3>1. UndoAt(graph', before', phase', at', saved')
      BY <2>1, <2>2, UndoInvIn
    <3> QED
      BY <2>1, <2>2, <3>1, UndoInvIn
  <2>3. CASE phase \notin CrossingPhases
    <3>1. EndsDiffer(before)' <=> EndsDiffer(before')
      BY DEF EndsDiffer
    <3> QED
      BY <2>1, <2>3, <3>1 DEF UndoInv
  <2> QED
    BY <2>2, <2>3
<1> QED
  BY <1>1, <1>2

-----------------------------------------------------------------------------
(* Lone data nodes *)

(* The edge of a lone data node joins it with its neighbour.                *)
JoinsLone(g, n, e, next) ==
    /\ e \in DOMAIN g.edges /\ IsOnlyEdge(g, n, e) /\ n # next
    /\ OtherEnd(g.edges[e], n) = next /\ next \in DOMAIN g.nodes
    /\ IF g.nodes[n].outgoing = <<>> THEN e = g.nodes[n].incoming[1] /\ g.edges[e].from = next /\ g.edges[e].to = n
                                     ELSE e = g.nodes[n].outgoing[1] /\ g.edges[e].to = next /\ g.edges[e].from = n

LEMMA LoneNeighbour ==
    ASSUME NEW g, IsGraph(g), EndsExist(g), Mirrored(g), NEW n \in DOMAIN g.nodes, IsLoneData(g.nodes[n])
    PROVE  \E e : JoinsLone(g, n, e, OnlyNeighbour(g, n))
<1>1. CASE g.nodes[n].outgoing = <<>>
  <2>1. PICK e : e = g.nodes[n].incoming[1]
    OBVIOUS
  <2>2. e \in DOMAIN g.edges /\ IsOnlyEdge(g, n, e) /\ g.edges[e].to = n
    BY <1>1, <2>1, LoneEdgeIsOnlyEdge
  <2>3. OnlyNeighbour(g, n) = g.edges[e].from
    BY <1>1, <2>1 DEF OnlyNeighbour, IsOutput
  <2>4. g.edges[e].from # n /\ g.edges[e].from \in DOMAIN g.nodes
    BY <2>2 DEF IsOnlyEdge, EndsExist
  <2> QED
    BY <1>1, <2>1, <2>2, <2>3, <2>4 DEF JoinsLone, OtherEnd
<1>2. CASE g.nodes[n].outgoing # <<>>
  <2>1. PICK e : e = g.nodes[n].outgoing[1]
    OBVIOUS
  <2>2. e \in DOMAIN g.edges /\ IsOnlyEdge(g, n, e) /\ g.edges[e].from = n
    BY <1>2, <2>1, LoneEdgeIsOnlyEdge
  <2>3. OnlyNeighbour(g, n) = g.edges[e].to
    BY <1>2, <2>1 DEF OnlyNeighbour, IsOutput
  <2>4. g.edges[e].to # n /\ g.edges[e].to \in DOMAIN g.nodes
    BY <2>2 DEF IsOnlyEdge, EndsExist
  <2> QED
    BY <1>2, <2>1, <2>2, <2>3, <2>4 DEF JoinsLone, OtherEnd
<1> QED
  BY <1>1, <1>2

(* Two data nodes are never each other's only neighbours: either would have *)
(* been there before the other.                                             *)
LEMMA WholeHasLoneBeside ==
    ASSUME NEW g, IsGraph(g), Whole(g)
    PROVE  LoneBesideOthers(g)
<1>1. EndsExist(g) /\ Mirrored(g)
  BY DEF Whole
<1>2. DOMAIN g.nodes \subseteq Nat
  BY GraphParts
<1> SUFFICES ASSUME NEW n \in DOMAIN g.nodes, IsLoneData(g.nodes[n]),
                    NEW next, next = OnlyNeighbour(g, n)
             PROVE  next \in DOMAIN g.nodes /\ ~IsLoneData(g.nodes[next]) /\ Column(g, next) = Column(g, n)
  BY DEF LoneBesideOthers
<1>3. PICK e : JoinsLone(g, n, e, next)
  BY <1>1, LoneNeighbour
<1>4. /\ e \in DOMAIN g.edges /\ IsOnlyEdge(g, n, e) /\ OtherEnd(g.edges[e], n) = next
      /\ next \in DOMAIN g.nodes /\ next # n
  BY <1>3 DEF JoinsLone
<1>5. next < n /\ Column(g, next) = Column(g, n)
  BY <1>4 DEF Whole, LoneBeside, IsLoneData
<1>6. ASSUME IsLoneData(g.nodes[next]) PROVE FALSE
  <2>1. PICK other, d : JoinsLone(g, next, d, other)
    BY <1>1, <1>4, <1>6, LoneNeighbour
  <2>2. d \in DOMAIN g.edges /\ IsOnlyEdge(g, next, d)
    BY <2>1 DEF JoinsLone
  <2>3. g.edges[e].type # "Replaced" /\ next \in {g.edges[e].from, g.edges[e].to}
    BY <1>3 DEF JoinsLone, IsOnlyEdge
  <2>4. d = e
    BY <1>4, <2>2, <2>3 DEF IsOnlyEdge
  <2>5. OtherEnd(g.edges[e], next) = n
    BY <1>3 DEF JoinsLone, OtherEnd
  <2>6. n < next
    BY <1>4, <1>6, <2>2, <2>4, <2>5 DEF Whole, LoneBeside, IsLoneData
  <2> QED
    BY <1>2, <1>4, <1>5, <2>6
<1> QED
  BY <1>4, <1>5, <1>6

LoneAt(g, b, ph, i, s) ==
    /\ LoneBesideOthers(b)
    /\ \A j \in DOMAIN s : ~HasLoneEnd(b, s[j].edge)
    /\ ph \in {"crossings", "order", "lone"} => LoneListsKept(g, b)
    /\ \A n \in LinkedIn(g, ph, i) \intersect DOMAIN b.nodes :
          IsLoneData(b.nodes[n]) => IsBesideAlike(g, b, n)

LEMMA LoneDataInvIn ==
    /\ LoneDataInv /\ phase \in CrossingPhases => LoneAt(graph, before, phase, at, saved)
    /\ phase' \in CrossingPhases /\ LoneAt(graph', before', phase', at', saved') => LoneDataInv'
<1>1. LinkedNodes = LinkedIn(graph, phase, at) /\ LinkedNodes' = LinkedIn(graph', phase', at')
  BY DEF LinkedNodes, LinkedIn
<1>2. LoneDataInv /\ phase \in CrossingPhases => LoneAt(graph, before, phase, at, saved)
  BY <1>1 DEF LoneDataInv, LoneAt
<1>3. LoneBesideOthers(before)' <=> LoneBesideOthers(before')
  BY DEF LoneBesideOthers, OnlyNeighbour, IsOutput, Column, Place
<1>4. LoneListsKept(graph, before)' <=> LoneListsKept(graph', before')
  BY DEF LoneListsKept
<1>5. \A n : IsBesideAlike(graph, before, n)' <=> IsBesideAlike(graph', before', n)
  BY DEF IsBesideAlike, Alike, OnlyNeighbour, IsOutput
<1>6. \A edge : HasLoneEnd(before, edge)' <=> HasLoneEnd(before', edge)
  BY DEF HasLoneEnd
<1>7. PICK r, b, ph, i, s, L : r = graph' /\ b = before' /\ ph = phase' /\ i = at' /\ s = saved' /\ L = LinkedNodes'
  OBVIOUS
<1>8. LoneDataInv' <=>
        (ph \in CrossingPhases =>
            /\ LoneBesideOthers(b)
            /\ \A j \in DOMAIN s : ~HasLoneEnd(b, s[j].edge)
            /\ ph \in {"crossings", "order", "lone"} => LoneListsKept(r, b)
            /\ \A n \in L \intersect DOMAIN b.nodes : IsLoneData(b.nodes[n]) => IsBesideAlike(r, b, n))
  BY <1>3, <1>4, <1>5, <1>6, <1>7 DEF LoneDataInv
<1>9. L = LinkedIn(r, ph, i)
  BY <1>1, <1>7
<1>10. LoneAt(r, b, ph, i, s) => LoneDataInv'
  BY <1>8, <1>9 DEF LoneAt
<1> QED
  BY <1>2, <1>7, <1>10

(* When the phase begins nothing is linked or rerouted.                     *)
LEMMA LoneDataStarts ==
    ASSUME CrossingInv, LayOut
    PROVE  LoneDataInv'
<1>1. Work /\ before' = graph' /\ saved' = saved
  BY DEF LayOut
<1>2. phase \in Phases
  BY <1>1 DEF Work, SolveLayers, PlaceDataNode, SplitEdge, SortLanes, Phases
<1>3. saved' = <<>>
  BY <1>1, <1>2 DEF CrossingInv, StartInv
<1>4. phase' \in Phases \union {"crossings", "panic"}
  BY <1>1 DEF Work, SolveLayers, PlaceDataNode, SplitEdge, SortLanes, Phases, Panic
<1>5. CASE phase' = "crossings"
  <2>1. IsGraph(graph') /\ Whole(graph')
    <3>1. CrossingInv'
      BY CrossingStep DEF CrossingNext
    <3>2. CrossingTypeOK' /\ WholeInv'
      BY <3>1 DEF CrossingInv
    <3>3. /\ IsGraph(graph)' <=> IsGraph(graph')
          /\ EndsExist(graph)' <=> EndsExist(graph')
          /\ Mirrored(graph)' <=> Mirrored(graph')
          /\ LanesComplete(graph)' <=> LanesComplete(graph')
      BY DEF IsGraph, EndsExist, Mirrored, LanesComplete
    <3>4. IsGraph(graph')
      BY <3>2, <3>3 DEF CrossingTypeOK
    <3>5. Whole(graph')
      BY <1>5, <3>2, <3>3 DEF WholeInv, Whole, LoneBeside, IsData, IsOnlyEdge, OtherEnd, Column, Place
    <3> QED
      BY <3>4, <3>5
  <2>2. PICK g, s : g = graph' /\ s = saved'
    OBVIOUS
  <2>3. IsGraph(g) /\ Whole(g) /\ s = <<>>
    BY <1>3, <2>1, <2>2
  <2>4. LoneBesideOthers(g) /\ LoneListsKept(g, g)
    BY <2>3, WholeHasLoneBeside DEF LoneListsKept
  <2>5. LinkedIn(g, "crossings", at') = {}
    BY DEF LinkedIn
  <2>6. LoneAt(g, g, "crossings", at', s)
    BY <2>3, <2>4, <2>5 DEF LoneAt
  <2>7. phase' \in CrossingPhases
    BY <1>5 DEF CrossingPhases
  <2> QED
    BY <1>1, <1>5, <2>2, <2>6, <2>7, LoneDataInvIn
<1>6. CASE phase' # "crossings"
  <2>1. phase' \notin CrossingPhases
    BY <1>4, <1>6 DEF Phases, CrossingPhases
  <2> QED
    BY <2>1 DEF LoneDataInv
<1> QED
  BY <1>5, <1>6

(* Links do not matter to what nodes list.                                  *)
LEMMA LinksLeaveLists ==
    ASSUME NEW g, NEW r, SameButLinks(r, g), NEW b, DOMAIN b.nodes \subseteq DOMAIN g.nodes, NodesStay(g, b)
    PROVE  NodesStay(r, b) /\ (LoneListsKept(g, b) => LoneListsKept(r, b))
<1>1. \A n \in DOMAIN b.nodes :
         /\ r.nodes[n].kind = g.nodes[n].kind /\ r.nodes[n].layer = g.nodes[n].layer
         /\ r.nodes[n].pool = g.nodes[n].pool /\ r.nodes[n].lane = g.nodes[n].lane
         /\ r.nodes[n].incoming = g.nodes[n].incoming /\ r.nodes[n].outgoing = g.nodes[n].outgoing
  BY DEF SameButLinks
<1>2. \A n \in DOMAIN b.nodes : IsLoneData(r.nodes[n]) <=> IsLoneData(g.nodes[n])
  BY <1>1 DEF IsLoneData, IsData
<1>3. NodesStay(r, b)
  BY <1>1 DEF NodesStay, Place
<1>4. LoneListsKept(g, b) => LoneListsKept(r, b)
  BY <1>1, <1>2 DEF LoneListsKept
<1> QED
  BY <1>3, <1>4

(* A node that is lone data in one of the graphs is in both.                *)
LEMMA LoneInBoth ==
    ASSUME NEW g, NEW b, NodesStay(g, b), LoneListsKept(g, b), NEW n \in DOMAIN b.nodes
    PROVE  IsLoneData(g.nodes[n]) <=> IsLoneData(b.nodes[n])
<1>1. g.nodes[n].kind = b.nodes[n].kind
  BY DEF NodesStay
<1>2. IsLoneData(g.nodes[n]) \/ IsLoneData(b.nodes[n]) =>
          g.nodes[n].incoming = b.nodes[n].incoming /\ g.nodes[n].outgoing = b.nodes[n].outgoing
  BY DEF LoneListsKept
<1> QED
  BY <1>1, <1>2 DEF IsLoneData, IsData

(* While layers are ordered no lone data node is linked yet.                *)
LEMMA NoLoneLinked ==
    ASSUME NEW g, NEW b, NodesStay(g, b), LoneBesideOthers(b), LoneListsKept(g, b),
           NEW s, \A j \in DOMAIN s : ~HasLoneEnd(b, s[j].edge),
           NEW ph \in {"crossings", "order"}, NEW i
    PROVE  LoneAt(g, b, ph, i, s)
<1>1. ASSUME NEW n \in LinkedIn(g, ph, i) \intersect DOMAIN b.nodes, IsLoneData(b.nodes[n])
      PROVE  FALSE
  <2>1. IsLoneData(g.nodes[n])
    BY <1>1, LoneInBoth
  <2> QED
    BY <1>1, <2>1 DEF LinkedIn
<1> QED
  BY <1>1 DEF LoneAt

(* The ends of a rerouted edge are no lone data nodes, before or after.     *)
LEMMA LoneListsRerouted ==
    ASSUME NEW g, NEW b, DOMAIN b.nodes \subseteq DOMAIN g.nodes, NodesStay(g, b), LoneListsKept(g, b),
           NEW a, NEW from, NEW to, NEW flow, NEW layer, IsWithin(g, a, from, to, flow, layer),
           ~IsLoneData(g.nodes[from]), ~IsLoneData(g.nodes[to]),
           NEW left, NEW k, NEW l, NEW r, Overlaid(r, g, a, from, to, left, flow, k, l)
    PROVE  LoneListsKept(r, b)
<1>1. /\ IsGraph(g) /\ Mirrored(g) /\ a \in DOMAIN g.edges /\ g.edges[a].type # "Replaced"
      /\ from = g.edges[a].from /\ to = g.edges[a].to
  BY DEF IsWithin
<1>2. HasRight(r, g, a)
  BY DEF Overlaid
<1>3. /\ IsGraph(r) /\ EndsExist(r) /\ MirroredBut(r, 0)
      /\ \A n \in DOMAIN g.nodes : SameNode(r.nodes[n], g.nodes[n])
      /\ Len(g.nodes) <= Len(r.nodes)
  BY <1>2 DEF HasRight, Extended
<1>4. Mirrored(r)
  BY <1>3, MirroredButNone
<1>5. DOMAIN g.nodes \subseteq DOMAIN r.nodes
  <2>1. PICK i, j : i = Len(g.nodes) /\ j = Len(r.nodes)
    OBVIOUS
  <2>2. i \in Nat /\ j \in Nat /\ DOMAIN g.nodes = 1..i /\ DOMAIN r.nodes = 1..j
    BY <1>1, <1>3, <2>1, GraphParts
  <2>3. i <= j
    BY <1>3, <2>1
  <2>4. 1..i \subseteq 1..j
    BY <2>2, <2>3
  <2> QED
    BY <2>2, <2>4
<1> SUFFICES ASSUME NEW n \in DOMAIN b.nodes, IsLoneData(r.nodes[n]) \/ IsLoneData(b.nodes[n])
             PROVE  /\ r.nodes[n].incoming = b.nodes[n].incoming
                    /\ r.nodes[n].outgoing = b.nodes[n].outgoing
  BY DEF LoneListsKept
<1>6. n \in DOMAIN g.nodes /\ n \in DOMAIN r.nodes /\ r.nodes[n].kind = g.nodes[n].kind
  BY <1>3, <1>5 DEF SameNode
<1>7. CASE n \in {from, to}
  <2>1. ~IsLoneData(b.nodes[n])
    BY <1>7, LoneInBoth
  <2>2. IsLoneData(r.nodes[n])
    BY <2>1
  <2>3. PICK e \in DOMAIN r.edges : IsOnlyEdge(r, n, e)
    BY <1>3, <1>4, <1>6, <2>2, LoneEdgeIsOnlyEdge
  <2>4. IsData(g.nodes[n])
    BY <1>6, <2>2 DEF IsLoneData, IsData
  <2> QED
    BY <1>1, <1>2, <1>6, <1>7, <2>3, <2>4, EndsHaveOthers
<1>8. CASE n \notin {from, to}
  <2>1. r.nodes[n].incoming = g.nodes[n].incoming /\ r.nodes[n].outgoing = g.nodes[n].outgoing
    BY <1>6, <1>8 DEF Overlaid
  <2>2. IsLoneData(g.nodes[n]) \/ IsLoneData(b.nodes[n])
    BY <1>6, <2>1 DEF IsLoneData, IsData
  <2>3. g.nodes[n].incoming = b.nodes[n].incoming /\ g.nodes[n].outgoing = b.nodes[n].outgoing
    BY <2>2 DEF LoneListsKept
  <2> QED
    BY <2>1, <2>3
<1> QED
  BY <1>7, <1>8

(* Edges of lone data nodes are not rerouted.                               *)
LEMMA RerouteKeepsLone ==
    ASSUME CrossingInv, UndoInv, LoneDataInv, Reroute
    PROVE  LoneDataInv'
<1>1. phase = "crossings" /\ InvAt(graph, before, "crossings", at, saved) /\ phase \in CrossingPhases
  BY CrossingInvIn DEF Reroute, CrossingPhases
<1>2. UndoAt(graph, before, "crossings", at, saved) /\ LoneAt(graph, before, "crossings", at, saved)
  BY <1>1, UndoInvIn, LoneDataInvIn
<1>3. /\ IsGraph(graph) /\ IsGraph(before) /\ at \in Nat
      /\ DOMAIN before.nodes \subseteq DOMAIN graph.nodes /\ saved \in SavedEdges(before)
  BY <1>1, BeforeWithin
<1>4. /\ NodesStay(graph, before) /\ LoneBesideOthers(before) /\ LoneListsKept(graph, before)
      /\ \A j \in DOMAIN saved : ~HasLoneEnd(before, saved[j].edge)
  BY <1>2 DEF UndoAt, LoneAt
<1>5. PICK m \in Nat : m = Len(before.edges) /\ DOMAIN before.edges = 1..m
  BY <1>3, GraphParts
<1>6. CASE at > Len(before.edges) /\ phase' = "order" /\ at' = 1 /\ UNCHANGED <<parsed, graph, before, saved>>
  <2>1. LoneAt(graph, before, "order", 1, saved)
    BY <1>4, NoLoneLinked
  <2>2. phase' \in CrossingPhases
    BY <1>6 DEF CrossingPhases
  <2> QED
    BY <1>6, <2>1, <2>2, LoneDataInvIn
<1>7. CASE /\ at <= Len(before.edges) /\ ~IsRerouted(at) /\ at' = at + 1
           /\ UNCHANGED <<parsed, graph, phase, before, saved>>
  <2>1. LoneAt(graph, before, "crossings", at + 1, saved)
    BY <1>4, NoLoneLinked
  <2> QED
    BY <1>1, <1>7, <2>1, LoneDataInvIn
<1>8. CASE /\ at <= Len(before.edges) /\ IsRerouted(at) /\ at' = at + 1
           /\ saved' = Append(saved, [id |-> at, edge |-> graph.edges[at]])
           /\ graph' = Rerouted(graph, at) /\ UNCHANGED <<parsed, phase, before>>
  <2>1. PICK from, to, flow, layer : ReroutesEdge(graph, before, at, m, from, to, flow, layer)
    BY <1>1, <1>2, <1>5, <1>8, ReroutedIsWithin
  <2>2. /\ IsWithin(graph, at, from, to, flow, layer) /\ layer = before.nodes[to].layer
        /\ from \in DOMAIN before.nodes /\ to \in DOMAIN before.nodes
    BY <2>1 DEF ReroutesEdge
  <2>3. from = graph.edges[at].from /\ to = graph.edges[at].to /\ IsGraph(graph)
    BY <2>2 DEF IsWithin
  <2>4. ~IsLoneData(graph.nodes[from]) /\ ~IsLoneData(graph.nodes[to])
    BY <1>8, <2>3 DEF IsRerouted, From, To
  <2>5. PICK r, k, left : r = Rerouted(graph, at) /\ k = Len(graph.edges) /\ left = (layer # 0)
    OBVIOUS
  <2>6. k \in Nat
    BY <1>3, <2>5, GraphParts
  <2>7. PICK l : Overlaid(r, graph, at, from, to, left, flow, k, l)
    BY <2>2, <2>5, <2>6, ReroutedEffect
  <2>8. LoneListsKept(r, before)
    BY <1>3, <1>4, <2>2, <2>4, <2>7, LoneListsRerouted
  <2>9. NodesStay(r, before)
    <3>1. HasRight(r, graph, at)
      BY <2>7 DEF Overlaid
    <3>2. \A n \in DOMAIN graph.nodes : SameNode(r.nodes[n], graph.nodes[n])
      BY <3>1 DEF HasRight, Extended
    <3>3. \A n \in DOMAIN before.nodes : SameNode(r.nodes[n], graph.nodes[n])
      BY <1>3, <3>2
    <3> QED
      BY <1>4, <3>3 DEF NodesStay, SameNode, Place
  <2>10. PICK rec, t : rec = [id |-> at, edge |-> graph.edges[at]] /\ t = Append(saved, rec)
    OBVIOUS
  <2>11. ~HasLoneEnd(before, rec.edge)
    <3>1. ~IsLoneData(before.nodes[from]) /\ ~IsLoneData(before.nodes[to])
      BY <1>4, <2>2, <2>4, LoneInBoth
    <3> QED
      BY <2>3, <2>10, <3>1 DEF HasLoneEnd
  <2>12. \A j \in DOMAIN t : ~HasLoneEnd(before, t[j].edge)
    <3>1. PICK R : saved \in Seq(R)
      BY <1>3 DEF SavedEdges
    <3>2. PICK c \in Nat : c = Len(saved) /\ DOMAIN saved = 1..c
      BY <3>1
    <3>3. \A j \in DOMAIN t : (j \in DOMAIN saved /\ t[j] = saved[j]) \/ t[j] = rec
      <4>1. PICK Q : Q = R \union {rec}
        OBVIOUS
      <4>2. saved \in Seq(Q) /\ rec \in Q
        BY <3>1, <4>1
      <4>3. /\ DOMAIN t = 1..(c + 1) /\ \A j \in 1..c : t[j] = saved[j]
            /\ t[c + 1] = rec
        BY <2>10, <3>2, <4>2
      <4>4. \A j \in 1..(c + 1) : j \in 1..c \/ j = c + 1
        BY <3>2
      <4> QED
        BY <3>2, <4>3, <4>4
    <3> QED
      BY <1>4, <2>11, <3>3
  <2>13. LoneAt(r, before, "crossings", at + 1, t)
    BY <1>4, <2>8, <2>9, <2>12, NoLoneLinked
  <2> QED
    BY <1>1, <1>8, <2>5, <2>10, <2>13, LoneDataInvIn
<1> QED
  BY <1>1, <1>6, <1>7, <1>8 DEF Reroute

(* Layers are ordered without lone data nodes.                              *)
LEMMA OrderLayerKeepsLone ==
    ASSUME CrossingInv, UndoInv, LoneDataInv, OrderLayer
    PROVE  LoneDataInv' \/ CrossingPanic
<1>1. phase = "order" /\ InvAt(graph, before, "order", at, saved) /\ phase \in CrossingPhases
  BY CrossingInvIn DEF OrderLayer, CrossingPhases
<1>2. UndoAt(graph, before, "order", at, saved) /\ LoneAt(graph, before, "order", at, saved)
  BY <1>1, UndoInvIn, LoneDataInvIn
<1>3. /\ IsGraph(graph) /\ IsGraph(before) /\ at \in Nat
      /\ DOMAIN before.nodes \subseteq DOMAIN graph.nodes
  BY <1>1, BeforeWithin
<1>4. /\ NodesStay(graph, before) /\ LoneBesideOthers(before) /\ LoneListsKept(graph, before)
      /\ \A j \in DOMAIN saved : ~HasLoneEnd(before, saved[j].edge)
  BY <1>2 DEF UndoAt, LoneAt
<1>5. CASE at > graph.numLayers /\ phase' = "lone" /\ at' = 1 /\ UNCHANGED <<parsed, graph, before, saved>>
  <2>1. ASSUME NEW n \in LinkedIn(graph, "lone", 1) \intersect DOMAIN before.nodes,
               IsLoneData(before.nodes[n])
        PROVE  FALSE
    <3>1. n \in Nat /\ n >= 1
      <4>1. DOMAIN graph.nodes = 1..Len(graph.nodes) /\ Len(graph.nodes) \in Nat
        BY <1>3, GraphParts
      <4> QED
        BY <1>3, <2>1, <4>1
    <3>2. IsLoneData(graph.nodes[n])
      BY <1>4, <2>1, LoneInBoth
    <3>3. n < 1
      BY <2>1, <3>2 DEF LinkedIn
    <3> QED
      BY <3>1, <3>3
  <2>2. LoneAt(graph, before, "lone", 1, saved)
    BY <1>4, <2>1 DEF LoneAt
  <2>3. phase' \in CrossingPhases
    BY <1>5 DEF CrossingPhases
  <2> QED
    BY <1>5, <2>2, <2>3, LoneDataInvIn
<1>6. CASE /\ \E order \in Orders(at - 1) : graph' = Linked(order)
           /\ at' = at + 1 /\ UNCHANGED <<parsed, phase, before, saved>>
  <2>1. PICK order : order \in Orders(at - 1) /\ graph' = Linked(order)
    BY <1>6
  <2>2. PICK r, D : r = Linked(order) /\ D = InLayer(at - 1)
    OBVIOUS
  <2>3. EndsExist(graph) /\ LanesComplete(graph)
    BY <1>1 DEF InvAt, Whole
  <2>4. SameButLinks(r, graph)
    BY <1>3, <2>1, <2>2, <2>3, LinkedEffect
  <2>5. NodesStay(r, before) /\ LoneListsKept(r, before)
    BY <1>3, <1>4, <2>4, LinksLeaveLists
  <2>6. LoneAt(r, before, "order", at + 1, saved)
    BY <1>4, <2>5, NoLoneLinked
  <2> QED
    BY <1>1, <1>6, <2>1, <2>2, <2>6, LoneDataInvIn
<1> QED
  BY <1>5, <1>6 DEF OrderLayer

(* The neighbour that a lone data node is put beside is the one that it had *)
(* before.                                                                  *)
HasSpot(g, i, output, next, a, b) ==
    IF output THEN a = next /\ b = g.nodes[next].below ELSE a = g.nodes[next].above /\ b = next

LEMMA LoneSpot ==
    ASSUME NEW i, InvAt(graph, before, "lone", i, saved), UndoAt(graph, before, "lone", i, saved),
           LoneAt(graph, before, "lone", i, saved),
           i \in DOMAIN graph.nodes, IsLoneData(graph.nodes[i]),
           NEW next, next = OnlyNeighbour(before, i), NEW spot, spot = Spot(i)
    PROVE  /\ i \in DOMAIN before.nodes /\ IsLoneData(before.nodes[i])
           /\ HasSpot(graph, i, IsOutput(before, i), next, spot.above, spot.below)
<1>1. InvAt(graph, before, "lone", i, saved)
  OBVIOUS
<1>2. /\ IsGraph(graph) /\ IsGraph(before) /\ EndsExist(before)
      /\ DOMAIN before.nodes \subseteq DOMAIN graph.nodes
  BY <1>1, BeforeWithin
<1>3. /\ Mirrored(before) /\ NodesStay(graph, before) /\ Fits(graph, before, saved, {})
      /\ LoneListsKept(graph, before) /\ \A j \in DOMAIN saved : ~HasLoneEnd(before, saved[j].edge)
  BY DEF UndoAt, LoneAt
<1>4. i \in DOMAIN before.nodes
  <2>1. graph.nodes[i].kind # "Dummy"
    BY DEF IsLoneData, IsData
  <2> QED
    BY <1>1, <2>1 DEF InvAt, KeptAt
<1>5. IsLoneData(before.nodes[i])
  BY <1>3, <1>4, LoneInBoth
<1>6. PICK e : JoinsLone(before, i, e, next)
  BY <1>2, <1>3, <1>4, <1>5, LoneNeighbour
<1>7. /\ e \in DOMAIN before.edges
      /\ IF before.nodes[i].outgoing = <<>>
         THEN e = before.nodes[i].incoming[1] /\ before.edges[e].from = next /\ before.edges[e].to = i
         ELSE e = before.nodes[i].outgoing[1] /\ before.edges[e].to = next /\ before.edges[e].from = i
  BY <1>6 DEF JoinsLone
<1>8. HasLoneEnd(before, before.edges[e])
  BY <1>5, <1>7 DEF HasLoneEnd
<1>9. graph.edges[e] = before.edges[e]
  <2>1. SavedFit(saved, before) /\ EdgesFit(graph, before, saved, {})
    BY <1>3 DEF Fits
  <2>2. \A j \in DOMAIN saved : saved[j].id # e
    BY <1>3, <1>8, <2>1 DEF SavedFit
  <2> QED
    BY <1>7, <2>1, <2>2 DEF EdgesFit
<1>10. /\ graph.nodes[i].incoming = before.nodes[i].incoming
       /\ graph.nodes[i].outgoing = before.nodes[i].outgoing
  BY <1>3, <1>4, <1>5 DEF LoneListsKept
<1>11. CASE before.nodes[i].outgoing = <<>>
  <2>1. spot = [above |-> next, below |-> graph.nodes[next].below]
    BY <1>7, <1>9, <1>10, <1>11 DEF Spot
  <2> QED
    BY <1>4, <1>5, <1>11, <2>1 DEF HasSpot, IsOutput
<1>12. CASE before.nodes[i].outgoing # <<>>
  <2>1. spot = [above |-> graph.nodes[next].above, below |-> next]
    BY <1>7, <1>9, <1>10, <1>12 DEF Spot
  <2> QED
    BY <1>4, <1>5, <1>12, <2>1 DEF HasSpot, IsOutput
<1> QED
  BY <1>11, <1>12

(* What a lone data node comes between is on one side its neighbour, and on *)
(* the other, if that is lone data of the same kind, was beside it before.  *)
JoinsColumn(r, g, b, i, S, x, y) ==
    /\ 0 \notin S /\ IsLinkedList(g, S) /\ x \in S \union {0} /\ y \in S \union {0}
    /\ InsertedBetween(r, g, i, x, y)
    /\ HasSpot(g, i, IsOutput(b, i), OnlyNeighbour(b, i), x, y) /\ OnlyNeighbour(b, i) \in S
    /\ i \in DOMAIN b.nodes /\ IsLoneData(b.nodes[i])

LEMMA StillBesideAlike ==
    ASSUME NEW r, NEW g, NEW b, NEW i, NEW S, NEW x, NEW y, JoinsColumn(r, g, b, i, S, x, y),
           LoneBesideOthers(b), DOMAIN b.nodes \subseteq DOMAIN g.nodes, 0 \notin DOMAIN b.nodes,
           NEW n \in DOMAIN b.nodes, IsLoneData(b.nodes[n]), n = i \/ IsBesideAlike(g, b, n)
    PROVE  IsBesideAlike(r, b, n)
<1>1. PICK next, mine : next = OnlyNeighbour(b, i) /\ mine = OnlyNeighbour(b, n)
  OBVIOUS
<1>2. /\ IsLinkedList(g, S) /\ x \in S \union {0} /\ y \in S \union {0} /\ 0 \notin S
      /\ HasSpot(g, i, IsOutput(b, i), next, x, y) /\ next \in S
      /\ i \in DOMAIN b.nodes /\ IsLoneData(b.nodes[i])
  BY <1>1 DEF JoinsColumn
<1>3. ~IsLoneData(b.nodes[next]) /\ next # n /\ next \notin Alike(b, n)
  BY <1>1, <1>2 DEF LoneBesideOthers, Alike
<1>4. /\ r.nodes[i].above = x /\ r.nodes[i].below = y
      /\ \A m \in DOMAIN g.nodes \ {i} :
            /\ r.nodes[m].below = IF m = x THEN i ELSE g.nodes[m].below
            /\ r.nodes[m].above = IF m = y THEN i ELSE g.nodes[m].above
  BY DEF JoinsColumn, InsertedBetween
<1>5. \A p, q \in S : g.nodes[p].below = q <=> g.nodes[q].above = p
  BY <1>2 DEF IsLinkedList
<1>6. CASE n = i
  <2>1. IF IsOutput(b, i) THEN x = next ELSE y = next
    BY <1>2 DEF HasSpot
  <2> QED
    BY <1>1, <1>4, <1>6, <2>1 DEF IsBesideAlike
<1>7. CASE n # i /\ IsOutput(b, n)
  <2>1. g.nodes[n].above \in {mine} \union Alike(b, n)
    BY <1>1, <1>7 DEF IsBesideAlike
  <2>2. r.nodes[n].above = IF n = y THEN i ELSE g.nodes[n].above
    BY <1>4, <1>7
  <2>3. ASSUME n = y PROVE i \in Alike(b, n)
    <3>1. IsOutput(b, i) /\ g.nodes[next].below = n
      BY <1>2, <1>3, <2>3 DEF HasSpot
    <3>2. n \in S
      BY <1>2, <2>3
    <3>3. g.nodes[n].above = next
      BY <1>2, <1>5, <3>1, <3>2
    <3>4. next = mine
      BY <1>3, <2>1, <3>3
    <3> QED
      BY <1>1, <1>2, <1>7, <3>1, <3>4 DEF Alike
  <2>4. r.nodes[n].above \in {mine} \union Alike(b, n)
    BY <2>1, <2>2, <2>3
  <2> QED
    BY <1>1, <1>7, <2>4 DEF IsBesideAlike
<1>8. CASE n # i /\ ~IsOutput(b, n)
  <2>1. g.nodes[n].below \in {mine} \union Alike(b, n)
    BY <1>1, <1>8 DEF IsBesideAlike
  <2>2. r.nodes[n].below = IF n = x THEN i ELSE g.nodes[n].below
    BY <1>4, <1>8
  <2>3. ASSUME n = x PROVE i \in Alike(b, n)
    <3>1. ~IsOutput(b, i) /\ g.nodes[next].above = n
      BY <1>2, <1>3, <2>3 DEF HasSpot
    <3>2. n \in S
      BY <1>2, <2>3
    <3>3. g.nodes[n].below = next
      BY <1>2, <1>5, <3>1, <3>2
    <3>4. next = mine
      BY <1>3, <2>1, <3>3
    <3> QED
      BY <1>1, <1>2, <1>8, <3>1, <3>4 DEF Alike
  <2>4. r.nodes[n].below \in {mine} \union Alike(b, n)
    BY <2>1, <2>2, <2>3
  <2> QED
    BY <1>1, <1>8, <2>4 DEF IsBesideAlike
<1> QED
  BY <1>6, <1>7, <1>8

(* A lone data node is placed beside its neighbour, and no other is parted  *)
(* from its own.                                                            *)
LEMMA PlaceKeepsLone ==
    ASSUME CrossingInv, UndoInv, LoneDataInv, PlaceLoneData
    PROVE  LoneDataInv' \/ CrossingPanic
<1>1. phase = "lone" /\ InvAt(graph, before, "lone", at, saved) /\ phase \in CrossingPhases
  BY CrossingInvIn DEF PlaceLoneData, CrossingPhases
<1>2. UndoAt(graph, before, "lone", at, saved) /\ LoneAt(graph, before, "lone", at, saved)
  BY <1>1, UndoInvIn, LoneDataInvIn
<1>3. /\ IsGraph(graph) /\ IsGraph(before) /\ at \in Nat /\ at >= 1
      /\ DOMAIN before.nodes \subseteq DOMAIN graph.nodes /\ saved \in SavedEdges(before)
  BY <1>1, BeforeWithin
<1>4. /\ NodesStay(graph, before) /\ LoneBesideOthers(before) /\ LoneListsKept(graph, before)
      /\ \A j \in DOMAIN saved : ~HasLoneEnd(before, saved[j].edge)
      /\ \A n \in LinkedIn(graph, "lone", at) \intersect DOMAIN before.nodes :
            IsLoneData(before.nodes[n]) => IsBesideAlike(graph, before, n)
  BY <1>2 DEF UndoAt, LoneAt
<1>5. PICK k \in Nat : k = Len(graph.nodes) /\ DOMAIN graph.nodes = 1..k
  BY <1>3, GraphParts
<1>6. CASE /\ at > Len(graph.nodes) /\ phase' = "undo" /\ at' = 1 /\ UNCHANGED <<parsed, before, saved>>
           /\ graph' = [graph EXCEPT !.lanes = [place \in DOMAIN @ |-> Retained(@[place], DOMAIN before.nodes)]]
  <2>1. PICK T : T = DOMAIN before.nodes
    OBVIOUS
  <2>2. PICK r : r = [graph EXCEPT !.lanes = [place \in DOMAIN graph.lanes |->
                                                 Retained(graph.lanes[place], T)]]
    OBVIOUS
  <2>3. r.nodes = graph.nodes /\ r.numLayers = graph.numLayers
    BY <1>3, <2>2, LanesRetained
  <2>4. LinkedIn(r, "undo", 1) \subseteq LinkedIn(graph, "lone", at)
    <3>1. \A n \in 1..k : n < at
      BY <1>3, <1>5, <1>6
    <3> QED
      BY <1>5, <2>3, <3>1 DEF LinkedIn
  <2>5. \A n : IsBesideAlike(graph, before, n) => IsBesideAlike(r, before, n)
    BY <2>3 DEF IsBesideAlike
  <2>6. LoneAt(r, before, "undo", 1, saved)
    BY <1>4, <2>4, <2>5 DEF LoneAt
  <2>7. graph' = r /\ phase' \in CrossingPhases
    BY <1>6, <2>1, <2>2 DEF CrossingPhases
  <2> QED
    BY <1>6, <2>6, <2>7, LoneDataInvIn
<1>7. CASE /\ at <= Len(graph.nodes) /\ ~IsLoneData(graph.nodes[at])
           /\ at' = at + 1 /\ UNCHANGED <<parsed, graph, phase, before, saved>>
  <2>1. LinkedIn(graph, "lone", at + 1) \subseteq LinkedIn(graph, "lone", at)
    <3>1. \A n \in 1..k : n < at + 1 => n < at \/ n = at
      BY <1>3
    <3> QED
      BY <1>5, <1>7, <3>1 DEF LinkedIn
  <2>2. LoneAt(graph, before, "lone", at + 1, saved)
    BY <1>4, <2>1 DEF LoneAt
  <2> QED
    BY <1>1, <1>7, <2>2, LoneDataInvIn
<1>8. CASE /\ at <= Len(graph.nodes) /\ IsLoneData(graph.nodes[at])
           /\ graph' = Inserted(graph, at, Spot(at))
           /\ at' = at + 1 /\ UNCHANGED <<parsed, phase, before, saved>>
  <2>1. at \in DOMAIN graph.nodes
    BY <1>3, <1>5, <1>8
  <2>2. PICK r, spot, L : /\ spot = Spot(at) /\ r = Inserted(graph, at, spot)
                          /\ L = LinkedIn(graph, "lone", at)
    OBVIOUS
  <2>3. PICK next, x, y : next = OnlyNeighbour(before, at) /\ x = spot.above /\ y = spot.below
    OBVIOUS
  <2>4. PICK S, ref : SpotFits(r, at, L, S, ref, x, y)
    <3>1. Whole(graph) /\ KeptAt(graph, before, "lone") /\ LinksHold(graph, L)
      BY <1>1, <2>2 DEF InvAt
    <3>2. \E S, ref : SpotFits(r, at, L, S, ref, spot.above, spot.below)
      BY <1>3, <1>8, <2>1, <2>2, <3>1, LoneDataSpot
    <3> QED
      BY <2>3, <3>2
  <2>5. /\ at \in DOMAIN before.nodes /\ IsLoneData(before.nodes[at])
        /\ HasSpot(graph, at, IsOutput(before, at), next, x, y)
    BY <1>1, <1>2, <1>8, <2>1, <2>2, <2>3, LoneSpot
  <2>6. next \in S
    <3>1. /\ next \in DOMAIN before.nodes /\ ~IsLoneData(before.nodes[next])
          /\ Column(before, next) = Column(before, at)
      BY <1>4, <2>3, <2>5 DEF LoneBesideOthers
    <3>2. next \in DOMAIN graph.nodes /\ ~IsLoneData(graph.nodes[next])
      BY <1>3, <1>4, <3>1, LoneInBoth
    <3>3. Column(graph, next) = Column(graph, at)
      BY <1>4, <2>5, <3>1 DEF NodesStay, Column
    <3>4. /\ graph.nodes[at].layer < graph.numLayers /\ S = InColumn(graph, at) \intersect L
          /\ \A n \in DOMAIN graph.nodes :
                n \in L <=> /\ graph.nodes[n].layer < graph.numLayers
                            /\ IsLoneData(graph.nodes[n]) => n < at
      BY <2>4 DEF SpotFits
    <3>5. graph.nodes[next].layer = graph.nodes[at].layer
      BY <3>3 DEF Column
    <3>6. next \in L
      BY <3>2, <3>4, <3>5
    <3> QED
      BY <3>2, <3>3, <3>4, <3>6 DEF InColumn
  <2>7. JoinsColumn(r, graph, before, at, S, x, y)
    BY <2>3, <2>4, <2>5, <2>6 DEF JoinsColumn, SpotFits
  <2>8. IsGraph(r) /\ SameButLinks(r, graph)
    BY <2>4 DEF SpotFits, InsertedBetween
  <2>9. LoneListsKept(r, before)
    BY <1>3, <1>4, <2>8, LinksLeaveLists
  <2>10. LinkedIn(r, "lone", at + 1) \subseteq L \union {at}
    <3>1. \A n \in 1..k : n < at + 1 => n < at \/ n = at
      BY <1>3
    <3>2. /\ DOMAIN r.nodes = 1..k /\ r.numLayers = graph.numLayers
          /\ \A n \in 1..k : /\ r.nodes[n].layer = graph.nodes[n].layer
                             /\ IsLoneData(r.nodes[n]) <=> IsLoneData(graph.nodes[n])
      BY <1>5, <2>8, WholeKept DEF SameButLinks
    <3> QED
      BY <1>5, <2>2, <3>1, <3>2 DEF LinkedIn
  <2>11. ASSUME NEW n \in LinkedIn(r, "lone", at + 1) \intersect DOMAIN before.nodes,
                IsLoneData(before.nodes[n])
         PROVE  IsBesideAlike(r, before, n)
    <3>1. n = at \/ IsBesideAlike(graph, before, n)
      BY <1>4, <2>2, <2>10, <2>11
    <3>2. 0 \notin DOMAIN before.nodes
      <4>1. 0 \notin DOMAIN graph.nodes
        BY <1>5
      <4> QED
        BY <1>3, <4>1
    <3> QED
      BY <1>3, <1>4, <2>7, <2>11, <3>1, <3>2, StillBesideAlike
  <2>12. LoneAt(r, before, "lone", at + 1, saved)
    BY <1>4, <2>9, <2>11 DEF LoneAt
  <2> QED
    BY <1>1, <1>8, <2>2, <2>12, LoneDataInvIn
<1> QED
  BY <1>6, <1>7, <1>8 DEF PlaceLoneData

(* Once all lone data nodes are linked they stay so, whatever else is done. *)
Linking == {"undo", "edges", "ports"}

LinksStay(r, g, b) ==
    \A n \in DOMAIN b.nodes :
        /\ g.nodes[n].above \in DOMAIN b.nodes => r.nodes[n].above = g.nodes[n].above
        /\ g.nodes[n].below \in DOMAIN b.nodes => r.nodes[n].below = g.nodes[n].below

LEMMA LoneStaysBeside ==
    ASSUME NEW g, NEW b, NEW ph \in Linking, NEW i, NEW s, InvAt(g, b, ph, i, s), LoneAt(g, b, ph, i, s),
           NEW r, LinksStay(r, g, b), NEW qh \in Linking, NEW j
    PROVE  LoneAt(r, b, qh, j, s)
<1>1. /\ LoneBesideOthers(b) /\ \A m \in DOMAIN s : ~HasLoneEnd(b, s[m].edge)
      /\ \A n \in LinkedIn(g, ph, i) \intersect DOMAIN b.nodes :
            IsLoneData(b.nodes[n]) => IsBesideAlike(g, b, n)
  BY DEF LoneAt
<1>2. DOMAIN b.nodes \subseteq LinkedIn(g, ph, i)
  <2>1. DOMAIN b.nodes \subseteq DOMAIN g.nodes
    BY BeforeWithin
  <2>2. \A n \in DOMAIN b.nodes : g.nodes[n].layer < g.numLayers
    BY <2>1 DEF InvAt, KeptAt
  <2> QED
    BY <2>1, <2>2 DEF LinkedIn, Linking
<1>3. ASSUME NEW n \in DOMAIN b.nodes, IsLoneData(b.nodes[n])
      PROVE  IsBesideAlike(r, b, n)
  <2>1. IsBesideAlike(g, b, n)
    BY <1>1, <1>2, <1>3
  <2>2. {OnlyNeighbour(b, n)} \union Alike(b, n) \subseteq DOMAIN b.nodes
    BY <1>1, <1>3 DEF LoneBesideOthers, Alike
  <2>3. /\ g.nodes[n].above \in DOMAIN b.nodes => r.nodes[n].above = g.nodes[n].above
        /\ g.nodes[n].below \in DOMAIN b.nodes => r.nodes[n].below = g.nodes[n].below
    BY DEF LinksStay
  <2> QED
    BY <2>1, <2>2, <2>3 DEF IsBesideAlike
<1>4. qh \notin {"crossings", "order", "lone"}
  BY DEF Linking
<1> QED
  BY <1>1, <1>3, <1>4 DEF LoneAt

(* The undo takes the temporary nodes away, and no lone data is next to one *)
(* on the side of its neighbour.                                            *)
LEMMA UndoKeepsLone ==
    ASSUME CrossingInv, LoneDataInv, Undo
    PROVE  LoneDataInv'
<1>1. phase = "undo" /\ InvAt(graph, before, "undo", at, saved) /\ phase \in CrossingPhases
  BY CrossingInvIn DEF Undo, CrossingPhases
<1>2. LoneAt(graph, before, "undo", at, saved)
  BY <1>1, LoneDataInvIn
<1>3. /\ IsGraph(graph) /\ IsGraph(before) /\ EndsExist(before) /\ at \in Nat /\ at >= 1
      /\ DOMAIN before.nodes \subseteq DOMAIN graph.nodes /\ saved \in SavedEdges(before)
  BY <1>1, BeforeWithin
<1>4. PICK R : saved \in Seq(R)
  BY <1>3 DEF SavedEdges
<1>5. /\ KeptAt(graph, before, "undo") /\ LinksHold(graph, LinkedIn(graph, "undo", at))
      /\ Len(before.nodes) <= Len(graph.nodes)
  BY <1>1 DEF InvAt, KeptAt
<1>6. "undo" \in Linking /\ "edges" \in Linking
  BY DEF Linking
<1>7. CASE /\ at <= Len(saved) /\ graph' = Restored(graph, saved[at].id, saved[at].edge)
           /\ at' = at + 1 /\ UNCHANGED <<parsed, phase, before, saved>>
  <2>1. at \in DOMAIN saved
    BY <1>3, <1>4, <1>7
  <2>2. PICK id, edge, r : id = saved[at].id /\ edge = saved[at].edge /\ r = Restored(graph, id, edge)
    OBVIOUS
  <2>3. id \in Nat /\ edge \in GraphEdges /\ edge.from \in DOMAIN graph.nodes /\ edge.to \in DOMAIN graph.nodes
    BY <1>3, <1>5, <2>1, <2>2, SavedEdgesFit
  <2>4. SameButLists(r, graph)
    BY <1>3, <2>2, <2>3, RestoredKeeps
  <2>5. LinksStay(r, graph, before)
    BY <1>3, <2>4 DEF SameButLists, SameNode, LinksStay
  <2>6. LoneAt(r, before, "undo", at + 1, saved)
    BY <1>1, <1>2, <1>6, <2>5, LoneStaysBeside
  <2> QED
    BY <1>1, <1>7, <2>2, <2>6, LoneDataInvIn
<1>8. CASE /\ graph' = Truncated(WithoutTemporaries) /\ phase' = "edges" /\ at' = 1
           /\ UNCHANGED <<parsed, before, saved>>
  <2>1. PICK k \in Nat : k = Len(before.nodes) /\ DOMAIN before.nodes = 1..k
    BY <1>3, GraphParts
  <2>2. PICK j \in Nat : j = Len(graph.nodes) /\ DOMAIN graph.nodes = 1..j
    BY <1>3, GraphParts
  <2>3. k <= j
    BY <1>5, <2>1, <2>2
  <2>4. PICK L, M, u, r : /\ L = LinkedIn(graph, "undo", at) /\ M = L \ ((k + 1)..j)
                          /\ u = WithoutTemporaries /\ r = Truncated(u)
    OBVIOUS
  <2>5. L \subseteq DOMAIN graph.nodes /\ 1..k \subseteq M
    <3>1. L = {n \in DOMAIN graph.nodes : graph.nodes[n].layer < graph.numLayers}
      BY <2>4 DEF LinkedIn
    <3>2. \A n \in 1..k : n \in DOMAIN graph.nodes /\ graph.nodes[n].layer < graph.numLayers
      BY <1>3, <1>5, <2>1 DEF KeptAt
    <3>3. \A n \in 1..k : n \notin (k + 1)..j
      OBVIOUS
    <3> QED
      BY <2>4, <3>1, <3>2, <3>3
  <2>6. UnlinkedFrom(u, graph, L, M)
    BY <1>3, <1>5, <2>1, <2>2, <2>3, <2>4, <2>5, TemporariesUnlinked
  <2>7. IsGraph(u) /\ k <= Len(u.nodes)
    BY <2>2, <2>3, <2>6 DEF UnlinkedFrom, SameButLinks
  <2>8. \A n \in 1..k : r.nodes[n] = u.nodes[n]
    BY <1>4, <2>1, <2>4, <2>7, TruncatedEffect
  <2>9. \A n \in 1..k : /\ graph.nodes[n].above \in 1..k => u.nodes[n].above = graph.nodes[n].above
                        /\ graph.nodes[n].below \in 1..k => u.nodes[n].below = graph.nodes[n].below
    <3>1. \A n \in M : /\ graph.nodes[n].above \in M => u.nodes[n].above = graph.nodes[n].above
                       /\ graph.nodes[n].below \in M => u.nodes[n].below = graph.nodes[n].below
      BY <2>6 DEF UnlinkedFrom
    <3>2. \A x \in 1..k : x \in M
      BY <2>5
    <3> QED
      BY ONLY <3>1, <3>2
  <2>10. LinksStay(r, graph, before)
    BY <2>1, <2>8, <2>9 DEF LinksStay
  <2>11. LoneAt(r, before, "edges", 1, saved)
    BY <1>1, <1>2, <1>6, <2>10, LoneStaysBeside
  <2>12. phase' \in CrossingPhases
    BY <1>8 DEF CrossingPhases
  <2> QED
    BY <1>8, <2>4, <2>11, <2>12, LoneDataInvIn
<1> QED
  BY <1>7, <1>8 DEF Undo

(* Sorting edges leaves nodes where they are.                               *)
LEMMA SortEdgesKeepsLone ==
    ASSUME CrossingInv, LoneDataInv, SortEdges
    PROVE  LoneDataInv' \/ CrossingPanic
<1>1. phase = "edges" /\ InvAt(graph, before, "edges", at, saved) /\ phase \in CrossingPhases
  BY CrossingInvIn DEF SortEdges, CrossingPhases
<1>2. LoneAt(graph, before, "edges", at, saved)
  BY <1>1, LoneDataInvIn
<1>3. IsGraph(graph) /\ DOMAIN before.nodes \subseteq DOMAIN graph.nodes
  BY <1>1, BeforeWithin
<1>4. "edges" \in Linking /\ "ports" \in Linking
  BY DEF Linking
<1>5. CASE phase' = "ports" /\ at' = 1 /\ UNCHANGED <<parsed, graph, before, saved>>
  <2>1. LinksStay(graph, graph, before)
    BY DEF LinksStay
  <2>2. LoneAt(graph, before, "ports", 1, saved)
    BY <1>1, <1>2, <1>4, <2>1, LoneStaysBeside
  <2>3. phase' \in CrossingPhases
    BY <1>5 DEF CrossingPhases
  <2> QED
    BY <1>5, <2>2, <2>3, LoneDataInvIn
<1>6. ASSUME NEW in, NEW out, at <= Len(graph.nodes), at' = at + 1, UNCHANGED <<parsed, phase, before, saved>>,
             graph' = [graph EXCEPT
                !.nodes[at].incoming = IF Len(@) > 1 THEN SortedByKey(@, in) ELSE @,
                !.nodes[at].outgoing = IF Len(@) > 1 THEN SortedByKey(@, out) ELSE @]
      PROVE  LoneDataInv'
  <2>1. PICK r : r = graph'
    OBVIOUS
  <2>2. SameCounts(r, graph)
    BY <1>3, <1>6, <2>1, SortedSameCounts
  <2>3. LinksStay(r, graph, before)
    BY <1>3, <2>2 DEF SameCounts, SameNode, LinksStay
  <2>4. LoneAt(r, before, "edges", at + 1, saved)
    BY <1>1, <1>2, <1>4, <2>3, LoneStaysBeside
  <2> QED
    BY <1>1, <1>6, <2>1, <2>4, LoneDataInvIn
<1> QED
  BY <1>5, <1>6 DEF SortEdges

LEMMA NothingLoneMoves ==
    ASSUME LoneDataInv, CrossingPanic \/ UNCHANGED crossingVars
    PROVE  LoneDataInv'
<1>1. CASE CrossingPanic
  <2>1. phase' = "panic" /\ phase' \notin CrossingPhases
    BY <1>1 DEF CrossingPanic, Panic, CrossingPhases
  <2> QED
    BY <2>1 DEF LoneDataInv
<1>2. CASE UNCHANGED crossingVars
  <2>1. UNCHANGED <<parsed, graph, phase, at, before, saved>>
    BY <1>2 DEF crossingVars
  <2>2. CASE phase \in CrossingPhases
    <3>1. LoneAt(graph', before', phase', at', saved')
      BY <2>1, <2>2, LoneDataInvIn
    <3> QED
      BY <2>1, <2>2, <3>1, LoneDataInvIn
  <2>3. CASE phase \notin CrossingPhases
    BY <2>1, <2>3 DEF LoneDataInv
  <2> QED
    BY <2>2, <2>3
<1> QED
  BY <1>1, <1>2

(* Every step keeps what is known of lone data nodes.                       *)
LEMMA LoneDataStep ==
    ASSUME CrossingInv, UndoInv, LoneDataInv, [CrossingNext]_crossingVars
    PROVE  LoneDataInv'
<1>1. CASE LayOut
  BY <1>1, LoneDataStarts
<1>2. CASE Reroute
  BY <1>2, RerouteKeepsLone
<1>3. CASE OrderLayer
  BY <1>3, OrderLayerKeepsLone, NothingLoneMoves
<1>4. CASE PlaceLoneData
  BY <1>4, PlaceKeepsLone, NothingLoneMoves
<1>5. CASE Undo
  BY <1>5, UndoKeepsLone
<1>6. CASE SortEdges
  BY <1>6, SortEdgesKeepsLone, NothingLoneMoves
<1>7. CASE CrossingTerminated \/ UNCHANGED crossingVars
  <2>1. UNCHANGED crossingVars
    BY <1>7 DEF CrossingTerminated
  <2> QED
    BY <2>1, NothingLoneMoves
<1> QED
  BY <1>1, <1>2, <1>3, <1>4, <1>5, <1>6, <1>7 DEF CrossingNext, CrossingWork

-----------------------------------------------------------------------------
(* Ranks in a column *)

(* Every position in a list is taken, and only the first has none above.    *)
LEMMA FirstHasNoneAbove ==
    ASSUME NEW g, NEW S, IsFiniteSet(S), 0 \notin S, NEW k \in Nat, k = Cardinality(S),
           NEW position, InPositions(g, S, k, position), NEW n \in S
    PROVE  g.nodes[n].above = 0 <=> position[n] = 1
<1>1. /\ \A m \in S : position[m] \in 1..k
      /\ g.nodes[n].above \in S \union {0}
      /\ \A m \in S : g.nodes[n].above = m <=> position[n] = position[m] + 1
  BY DEF InPositions
<1>2. \A p \in 1..k : \E m \in S : position[m] = p
  <2>1. position \in Injection(S, 1..k)
    BY DEF InPositions, Injection, IsInjective
  <2>2. IsFiniteSet(1..k) /\ Cardinality(1..k) = k
    BY FS_Interval
  <2>3. position \in Surjection(S, 1..k)
    BY <2>1, <2>2, FS_Injection
  <2> QED
    BY <2>3 DEF Surjection
<1>3. ASSUME g.nodes[n].above = 0 PROVE position[n] = 1
  <2> SUFFICES ASSUME position[n] # 1 PROVE FALSE
    OBVIOUS
  <2>1. position[n] \in 1..k
    BY <1>1
  <2>2. PICK p : p = position[n]
    OBVIOUS
  <2>3. p - 1 \in 1..k /\ p = (p - 1) + 1
    BY <2>1, <2>2
  <2>4. PICK m \in S : position[m] = p - 1
    BY <1>2, <2>3
  <2>5. g.nodes[n].above = m
    BY <1>1, <2>2, <2>3, <2>4
  <2> QED
    BY <1>3, <2>5
<1>4. ASSUME g.nodes[n].above # 0 PROVE position[n] # 1
  <2>1. PICK m \in S : g.nodes[n].above = m
    BY <1>1, <1>4
  <2>2. position[n] = position[m] + 1 /\ position[m] \in 1..k
    BY <1>1, <2>1
  <2> QED
    BY <2>2
<1> QED
  BY <1>3, <1>4

(* Columns are finite.                                                      *)
LEMMA ColumnPositions ==
    ASSUME NEW g, IsGraph(g), \A n \in DOMAIN g.nodes : IsLinkedList(g, InColumn(g, n)),
           NEW n \in DOMAIN g.nodes, NEW S, S = InColumn(g, n)
    PROVE  /\ IsFiniteSet(S) /\ n \in S /\ 0 \notin S /\ S \subseteq DOMAIN g.nodes
           /\ Cardinality(S) \in Nat /\ \E position : InPositions(g, S, Cardinality(S), position)
<1>1. n \in S /\ S \subseteq DOMAIN g.nodes
  BY DEF InColumn
<1>2. PICK j \in Nat : DOMAIN g.nodes = 1..j
  BY GraphParts
<1>3. IsFiniteSet(S)
  <2>1. IsFiniteSet(1..j) /\ S \in SUBSET (1..j)
    BY <1>1, <1>2, FS_Interval
  <2> QED
    BY <2>1, FS_Subset
<1>4. 0 \notin S
  BY <1>1, <1>2
<1> QED
  BY <1>1, <1>3, <1>4, FS_CardinalityType, LinkedListPositions

(* So the recursion from the top of a column down is one.                   *)
RankedAbove(g, rank) ==
    rank = [n \in DOMAIN g.nodes |-> IF g.nodes[n].above = 0 THEN 0 ELSE rank[g.nodes[n].above] + 1]

LEMMA RanksExist ==
    ASSUME NEW g, IsGraph(g), \A n \in DOMAIN g.nodes : IsLinkedList(g, InColumn(g, n))
    PROVE  \E rank : RankedAbove(g, rank)
<1> DEFINE P(S) == CHOOSE position : InPositions(g, S, Cardinality(S), position)
           rank == [n \in DOMAIN g.nodes |-> P(InColumn(g, n))[n] - 1]
<1>1. ASSUME NEW n \in DOMAIN g.nodes
      PROVE  rank[n] = IF g.nodes[n].above = 0 THEN 0 ELSE rank[g.nodes[n].above] + 1
  <2>1. PICK S, k, position : S = InColumn(g, n) /\ k = Cardinality(S) /\ position = P(S)
    OBVIOUS
  <2>2. /\ IsFiniteSet(S) /\ n \in S /\ 0 \notin S /\ S \subseteq DOMAIN g.nodes /\ k \in Nat
        /\ \E q : InPositions(g, S, k, q)
    BY <2>1, ColumnPositions
  <2>3. InPositions(g, S, k, position)
    BY <2>1, <2>2
  <2> HIDE DEF P
  <2>4. \A m \in S : rank[m] = position[m] - 1
    <3>1. \A m \in S : m \in DOMAIN g.nodes /\ InColumn(g, m) = S
      BY <2>1 DEF InColumn
    <3> QED
      BY <2>1, <3>1
  <2> HIDE DEF rank
  <2>5. g.nodes[n].above = 0 <=> position[n] = 1
    <3>1. k = Cardinality(S)
      BY <2>1
    <3> QED
      BY ONLY <2>2, <2>3, <3>1, FirstHasNoneAbove
  <2>6. CASE g.nodes[n].above = 0
    BY <2>2, <2>4, <2>5, <2>6
  <2>7. CASE g.nodes[n].above # 0
    <3>1. PICK m \in S : g.nodes[n].above = m
      BY <2>2, <2>3, <2>7 DEF InPositions
    <3>2. position[n] = position[m] + 1 /\ position[m] \in 1..k
      BY <2>2, <2>3, <3>1 DEF InPositions
    <3>3. rank[n] = position[n] - 1 /\ rank[m] = position[m] - 1
      BY <2>2, <2>4, <3>1
    <3>4. rank[n] = rank[m] + 1
      BY <3>2, <3>3
    <3> QED
      BY <2>7, <3>1, <3>4
  <2> QED
    BY <2>6, <2>7
<1>2. RankedAbove(g, rank)
  <2> HIDE DEF P
  <2>1. rank = [n \in DOMAIN g.nodes |-> rank[n]]
    OBVIOUS
  <2> HIDE DEF rank
  <2> QED
    BY <1>1, <2>1 DEF RankedAbove
<1> HIDE DEF rank
<1> QED
  BY <1>2

(* The ranks of a column number it from the top.                            *)
Ranks(g, S, k, rank) ==
    /\ \A n \in S : rank[n] \in Nat /\ rank[n] < k
    /\ \A n \in S : {g.nodes[n].above, g.nodes[n].below} \subseteq S \union {0}
    /\ \A m, n \in S :
          /\ rank[m] = rank[n] => m = n
          /\ g.nodes[m].below = n <=> rank[n] = rank[m] + 1
          /\ g.nodes[n].above = m <=> rank[n] = rank[m] + 1

LEMMA ColumnIsRanked ==
    ASSUME NEW g, IsGraph(g), \A n \in DOMAIN g.nodes : IsLinkedList(g, InColumn(g, n)),
           NEW rank, rank = Rank(g), NEW n \in DOMAIN g.nodes, NEW S, S = InColumn(g, n)
    PROVE  \E k \in Nat : Ranks(g, S, k, rank)
<1>1. RankedAbove(g, rank)
  <2>1. PICK other : RankedAbove(g, other)
    BY RanksExist
  <2>2. rank = CHOOSE r : RankedAbove(g, r)
    BY DEF Rank, RankedAbove
  <2> QED
    BY <2>1, <2>2
<1>2. \A m \in DOMAIN g.nodes : rank[m] = IF g.nodes[m].above = 0 THEN 0 ELSE rank[g.nodes[m].above] + 1
  BY <1>1 DEF RankedAbove
<1>3. PICK k, position : /\ InPositions(g, S, k, position) /\ k = Cardinality(S) /\ k \in Nat
                         /\ IsFiniteSet(S) /\ 0 \notin S /\ S \subseteq DOMAIN g.nodes
  BY ColumnPositions
<1>4. /\ \A m \in S : position[m] \in 1..k /\ g.nodes[m].above \in S \union {0}
      /\ \A m \in S : g.nodes[m].above = 0 <=> position[m] = 1
      /\ \A l, m \in S : g.nodes[m].above = l <=> position[m] = position[l] + 1
  BY <1>3, FirstHasNoneAbove DEF InPositions
<1> DEFINE T == {p \in Nat : \A m \in S : position[m] = p + 1 => rank[m] = p}
<1>5. 0 \in T
  BY <1>2, <1>3, <1>4
<1>6. ASSUME NEW p \in T PROVE p + 1 \in T
  <2>1. p \in Nat /\ \A m \in S : position[m] = p + 1 => rank[m] = p
    OBVIOUS
  <2>2. ASSUME NEW m \in S, position[m] = (p + 1) + 1 PROVE rank[m] = p + 1
    <3>1. g.nodes[m].above \in S
      <4>1. position[m] # 1
        BY <2>1, <2>2
      <4> QED
        BY <1>4, <4>1
    <3>2. PICK l \in S : l = g.nodes[m].above
      BY <3>1
    <3>3. position[m] = position[l] + 1 /\ position[l] \in 1..k
      BY <1>4, <3>2
    <3>4. position[l] = p + 1
      BY <2>1, <2>2, <3>3
    <3>5. rank[l] = p
      BY <2>1, <3>4
    <3>6. l # 0 /\ m \in DOMAIN g.nodes
      BY <1>3
    <3> QED
      BY <1>2, <3>2, <3>5, <3>6
  <2> QED
    BY <2>1, <2>2
<1>7. T = Nat
  BY <1>5, <1>6, Induction
<1>8. ASSUME NEW m \in S PROVE rank[m] = position[m] - 1 /\ position[m] \in Nat /\ position[m] >= 1 /\ position[m] <= k
  <2>1. PICK p : p = position[m] - 1
    OBVIOUS
  <2>2. position[m] \in 1..k
    BY <1>4
  <2>3. p \in Nat /\ position[m] = p + 1
    BY <2>1, <2>2
  <2>4. p \in T
    BY <1>7, <2>3
  <2>5. rank[m] = p
    BY <2>3, <2>4
  <2> HIDE DEF T
  <2> QED
    BY <1>3, <2>1, <2>2, <2>5
<1> HIDE DEF T
<1>9. \A l, m \in S : /\ rank[m] = rank[l] <=> position[m] = position[l]
                      /\ rank[m] = rank[l] + 1 <=> position[m] = position[l] + 1
  BY <1>8
<1>10. \A m \in S : rank[m] \in Nat /\ rank[m] < k
  BY <1>3, <1>8
<1> QED
  BY <1>3, <1>9, <1>10 DEF Ranks, InPositions

(* What hangs below a node in an unbroken row is all there is in between.   *)
LEMMA RowBelow ==
    ASSUME NEW g, NEW S, NEW k \in Nat, NEW rank, Ranks(g, S, k, rank), NEW next \in S,
           NEW A \in SUBSET S, \A n \in A : g.nodes[n].above \in {next} \union A
    PROVE  \A n \in A : /\ rank[next] < rank[n]
                        /\ \A m \in S : rank[next] < rank[m] /\ rank[m] < rank[n] => m \in A
<1> DEFINE Row(n) == /\ rank[next] < rank[n]
                     /\ \A m \in S : rank[next] < rank[m] /\ rank[m] < rank[n] => m \in A
           T == {p \in Nat : \A n \in A : rank[n] < p => Row(n)}
<1>1. /\ \A n \in S : rank[n] \in Nat /\ rank[n] < k
      /\ \A m, n \in S : /\ rank[m] = rank[n] => m = n
                         /\ g.nodes[n].above = m => rank[n] = rank[m] + 1
  BY DEF Ranks
<1>2. 0 \in T
  <2>1. \A n \in A : ~(rank[n] < 0)
    BY <1>1
  <2> HIDE DEF Row
  <2> QED
    BY <2>1
<1>3. ASSUME NEW p \in T PROVE p + 1 \in T
  <2>1. p \in Nat /\ \A n \in A : rank[n] < p => Row(n)
    OBVIOUS
  <2>2. ASSUME NEW n \in A, rank[n] < p + 1 PROVE Row(n)
    <3>1. PICK a \in S : a = g.nodes[n].above /\ a \in {next} \union A
      OBVIOUS
    <3>2. rank[n] = rank[a] + 1 /\ rank[a] \in Nat /\ rank[a] < p
      BY <1>1, <2>1, <2>2, <3>1
    <3>3. CASE a = next
      BY <1>1, <3>2, <3>3
    <3>4. CASE a \in A
      <4>1. Row(a)
        BY <2>1, <3>2, <3>4
      <4>2. ASSUME NEW m \in S, rank[next] < rank[m], rank[m] < rank[n] PROVE m \in A
        <5>1. rank[m] < rank[a] \/ rank[m] = rank[a]
          BY <1>1, <3>2, <4>2
        <5> QED
          BY <1>1, <3>4, <4>1, <4>2, <5>1
      <4>3. rank[next] < rank[n]
        BY <1>1, <3>2, <4>1
      <4> QED
        BY <4>2, <4>3
    <3> QED
      BY <3>1, <3>3, <3>4
  <2> HIDE DEF Row
  <2> QED
    BY <2>1, <2>2
<1>4. T = Nat
  BY <1>2, <1>3, Induction
<1>5. \A n \in A : rank[n] < k
  BY <1>1
<1>6. \A n \in A : Row(n)
  <2> HIDE DEF Row
  <2> QED
    BY <1>4, <1>5
<1> QED
  BY <1>6

LEMMA RowAbove ==
    ASSUME NEW g, NEW S, NEW k \in Nat, NEW rank, Ranks(g, S, k, rank), NEW next \in S,
           NEW A \in SUBSET S, \A n \in A : g.nodes[n].below \in {next} \union A
    PROVE  \A n \in A : /\ rank[n] < rank[next]
                        /\ \A m \in S : rank[n] < rank[m] /\ rank[m] < rank[next] => m \in A
<1> DEFINE Row(n) == /\ rank[n] < rank[next]
                     /\ \A m \in S : rank[n] < rank[m] /\ rank[m] < rank[next] => m \in A
           T == {p \in Nat : \A n \in A : k <= rank[n] + p => Row(n)}
<1>1. /\ \A n \in S : rank[n] \in Nat /\ rank[n] < k
      /\ \A m, n \in S : /\ rank[m] = rank[n] => m = n
                         /\ g.nodes[m].below = n => rank[n] = rank[m] + 1
  BY DEF Ranks
<1>2. 0 \in T
  <2>1. \A n \in A : ~(k <= rank[n] + 0)
    BY <1>1
  <2> HIDE DEF Row
  <2> QED
    BY <2>1
<1>3. ASSUME NEW p \in T PROVE p + 1 \in T
  <2>1. p \in Nat /\ \A n \in A : k <= rank[n] + p => Row(n)
    OBVIOUS
  <2>2. ASSUME NEW n \in A, k <= rank[n] + (p + 1) PROVE Row(n)
    <3>1. PICK a \in S : a = g.nodes[n].below /\ a \in {next} \union A
      OBVIOUS
    <3>2. rank[a] = rank[n] + 1 /\ rank[a] \in Nat /\ k <= rank[a] + p
      BY <1>1, <2>1, <2>2, <3>1
    <3>3. CASE a = next
      BY <1>1, <3>2, <3>3
    <3>4. CASE a \in A
      <4>1. Row(a)
        BY <2>1, <3>2, <3>4
      <4>2. ASSUME NEW m \in S, rank[n] < rank[m], rank[m] < rank[next] PROVE m \in A
        <5>1. rank[a] < rank[m] \/ rank[m] = rank[a]
          BY <1>1, <3>2, <4>2
        <5> QED
          BY <1>1, <3>4, <4>1, <4>2, <5>1
      <4>3. rank[n] < rank[next]
        BY <1>1, <3>2, <4>1
      <4> QED
        BY <4>2, <4>3
    <3> QED
      BY <3>1, <3>3, <3>4
  <2> HIDE DEF Row
  <2> QED
    BY <2>1, <2>2
<1>4. T = Nat
  BY <1>2, <1>3, Induction
<1>5. \A n \in A : k <= rank[n] + k
  BY <1>1
<1>6. \A n \in A : Row(n)
  <2> HIDE DEF Row
  <2> QED
    BY <1>4, <1>5
<1> QED
  BY <1>6

(* Data that was put beside a node is still beside it.                      *)
LEMMA LoneDataIsBeside ==
    ASSUME CrossingInv, UndoInv, LoneDataInv
    PROVE  LoneDataBesideNeighbour
<1> SUFFICES ASSUME Done PROVE LoneDataBesideNeighbour
  BY DEF LoneDataBesideNeighbour
<1>1. phase \in CrossingPhases
  BY DEF Done, CrossingPhases
<1>2. /\ IsGraph(graph) /\ IsGraph(before) /\ EndsExist(before)
      /\ DOMAIN graph.nodes = DOMAIN before.nodes
      /\ LinkedIn(graph, phase, at) = DOMAIN graph.nodes
      /\ \A n \in DOMAIN graph.nodes : IsLinkedList(graph, InColumn(graph, n))
  BY DoneColumns
<1>3. NodesStay(graph, before) /\ LoneAt(graph, before, phase, at, saved)
  BY <1>1, UndoInvIn, LoneDataInvIn DEF UndoAt
<1>4. /\ LoneBesideOthers(before)
      /\ \A n \in DOMAIN before.nodes : IsLoneData(before.nodes[n]) => IsBesideAlike(graph, before, n)
  BY <1>2, <1>3 DEF LoneAt
<1>5. \A n \in DOMAIN before.nodes : Column(graph, n) = Column(before, n)
  BY <1>3 DEF NodesStay, Column
<1>6. PICK rank : rank = Rank(graph)
  OBVIOUS
<1>7. ASSUME NEW n \in DOMAIN before.nodes, IsLoneData(before.nodes[n]),
             NEW next, next = OnlyNeighbour(before, n)
      PROVE  /\ Column(graph, n) = Column(graph, next)
             /\ IsOutput(before, n) <=> rank[n] > rank[next]
             /\ \A m \in DOMAIN graph.nodes :
                   /\ Column(graph, m) = Column(graph, n)
                   /\ rank[m] \in (rank[n] + 1)..(rank[next] - 1) \union (rank[next] + 1)..(rank[n] - 1)
                   => IsLoneData(before.nodes[m]) /\ OnlyNeighbour(before, m) = next
  <2>1. /\ next \in DOMAIN before.nodes /\ ~IsLoneData(before.nodes[next])
        /\ Column(graph, next) = Column(graph, n)
    BY <1>4, <1>5, <1>7 DEF LoneBesideOthers
  <2>2. PICK S, A : S = InColumn(graph, n) /\ A = Alike(before, n)
    OBVIOUS
  <2>3. PICK k \in Nat : Ranks(graph, S, k, rank)
    BY <1>2, <1>6, <2>2, ColumnIsRanked
  <2>4. next \in S /\ n \in S /\ n \in A
    BY <1>2, <1>7, <2>1, <2>2 DEF InColumn, Alike
  <2>5. ASSUME NEW m \in A
        PROVE  /\ m \in S /\ m \in DOMAIN before.nodes /\ IsLoneData(before.nodes[m])
               /\ OnlyNeighbour(before, m) = next /\ (IsOutput(before, m) <=> IsOutput(before, n))
               /\ (IF IsOutput(before, n) THEN graph.nodes[m].above ELSE graph.nodes[m].below)
                     \in {next} \union A
    <3>1. /\ m \in DOMAIN before.nodes /\ IsLoneData(before.nodes[m])
          /\ OnlyNeighbour(before, m) = next /\ (IsOutput(before, m) <=> IsOutput(before, n))
      BY <1>7, <2>2 DEF Alike
    <3>2. Column(before, m) = Column(before, next)
      BY <1>4, <3>1 DEF LoneBesideOthers
    <3>3. m \in S
      BY <1>2, <1>5, <2>1, <2>2, <3>1, <3>2 DEF InColumn
    <3>4. Alike(before, m) = A
      BY <1>7, <2>2, <3>1 DEF Alike
    <3>5. IsBesideAlike(graph, before, m)
      BY <1>4, <3>1
    <3> QED
      BY <3>1, <3>3, <3>4, <3>5 DEF IsBesideAlike
  <2>6. A \in SUBSET S
    BY <2>5
  <2>7. \A m \in S : rank[m] \in Nat
    BY <2>3 DEF Ranks
  <2>8. \A m \in DOMAIN graph.nodes : Column(graph, m) = Column(graph, n) => m \in S
    BY <2>2 DEF InColumn
  <2>9. CASE IsOutput(before, n)
    <3>1. \A m \in A : graph.nodes[m].above \in {next} \union A
      BY <2>5, <2>9
    <3>2. \A i \in A : /\ rank[next] < rank[i]
                       /\ \A m \in S : rank[next] < rank[m] /\ rank[m] < rank[i] => m \in A
      BY ONLY <2>3, <2>4, <2>6, <3>1, RowBelow
    <3>3. rank[next] < rank[n] /\ rank[next] \in Nat /\ rank[n] \in Nat
      BY <2>4, <2>7, <3>2
    <3>4. \A m \in S : rank[m] \in (rank[n] + 1)..(rank[next] - 1) \union (rank[next] + 1)..(rank[n] - 1) => m \in A
      BY <2>4, <2>7, <3>2, <3>3
    <3> QED
      BY <2>1, <2>5, <2>8, <2>9, <3>3, <3>4
  <2>10. CASE ~IsOutput(before, n)
    <3>1. \A m \in A : graph.nodes[m].below \in {next} \union A
      BY <2>5, <2>10
    <3>2. \A i \in A : /\ rank[i] < rank[next]
                       /\ \A m \in S : rank[i] < rank[m] /\ rank[m] < rank[next] => m \in A
      BY ONLY <2>3, <2>4, <2>6, <3>1, RowAbove
    <3>3. rank[n] < rank[next] /\ rank[next] \in Nat /\ rank[n] \in Nat
      BY <2>4, <2>7, <3>2
    <3>4. \A m \in S : rank[m] \in (rank[n] + 1)..(rank[next] - 1) \union (rank[next] + 1)..(rank[n] - 1) => m \in A
      BY <2>4, <2>7, <3>2, <3>3
    <3>5. ~(rank[n] > rank[next])
      BY <3>3
    <3> QED
      BY <2>1, <2>5, <2>8, <2>10, <3>4, <3>5
  <2> QED
    BY <2>9, <2>10
<1> QED
  BY <1>2, <1>6, <1>7 DEF LoneDataBesideNeighbour

-----------------------------------------------------------------------------
(* What panics *)

(* What is known of one flow.                                               *)
IsKnown(b, e) ==
    /\ b.edges[e].flow = "message" => b.edges[e].type = "Regular"
    /\ b.edges[e].type = "Regular" => (b.edges[e].flow = "message" <=> ~SamePool(b, e))
    /\ b.edges[e].type = "Dummy" => To(b, e).layer = From(b, e).layer + 1

(* Splitting an edge leaves flows that are known.                           *)
LEMMA SplitKnown ==
    ASSUME NEW e, Splittable(e), graph.edges[e].flow # "message", KnownFlows(graph), NEW r, r = Split(e)
    PROVE  KnownFlows(r)
<1>1. PICK k : k = To(graph, e).layer - From(graph, e).layer - 1
  OBVIOUS
<1>2. IsSplit(r, e, k) /\ k \in Nat /\ k >= 1
  BY <1>1, SplitEffect
<1>3. PICK N \in Nat : N = Len(graph.edges) /\ DOMAIN graph.edges = 1..N
  BY GraphParts DEF Splittable
<1>4. DOMAIN r.edges = 1..(N + k + 1)
  BY <1>2, <1>3 DEF IsSplit
<1>5. PICK L \in Nat : L = From(graph, e).layer
  BY SplittableTypes
<1>6. e \in 1..N /\ IsGraph(graph)
  BY <1>3 DEF Splittable
<1> SUFFICES ASSUME NEW d \in 1..(N + k + 1)
             PROVE  IsKnown(r, d)
  BY <1>4 DEF KnownFlows, IsKnown
<1>7. CASE d \in 1..N
  <2>1. SplitLeaves(r, e, d)
    BY <1>2, <1>3, <1>7, SplitLeavesEdges
  <2>2. /\ From(r, d).pool = From(graph, d).pool /\ To(r, d).pool = To(graph, d).pool
        /\ From(r, d).layer = From(graph, d).layer /\ To(r, d).layer = To(graph, d).layer
    BY <2>1 DEF SplitLeaves, SamePlacement
  <2>3. IsKnown(graph, d)
    BY <1>3, <1>7 DEF KnownFlows, IsKnown
  <2>4. CASE d # e
    <3>1. r.edges[d] = graph.edges[d]
      BY <2>1, <2>4 DEF SplitLeaves
    <3> QED
      BY <2>2, <2>3, <3>1 DEF IsKnown, SamePool
  <2>5. CASE d = e
    <3>1. r.edges[d].type = "Replaced"
      BY <2>1, <2>5 DEF SplitLeaves
    <3>2. r.edges[d].flow = graph.edges[e].flow
      <4>1. r.edges[d] = Replaced(e).edges[e]
        BY <1>2, <1>3, <1>7, <2>5 DEF IsSplit
      <4>2. Replaced(e).edges = [graph.edges EXCEPT ![e] = [@ EXCEPT !.type = "Replaced",
                                                                     !.first = Len(graph.edges) + 1]]
        BY ChainBegins
      <4>3. graph.edges[e] \in GraphEdges
        BY <1>3, <1>6, GraphParts
      <4> QED
        BY <1>3, <1>6, <4>1, <4>2, <4>3 DEF GraphEdges
    <3> QED
      BY <3>1, <3>2 DEF IsKnown
  <2> QED
    BY <2>4, <2>5
<1>8. CASE d \notin 1..N
  <2>1. PICK j \in 1..(k + 1) : d = N + j
    <3>1. d - N \in 1..(k + 1) /\ d = N + (d - N)
      BY <1>2, <1>8
    <3> QED
      BY <3>1
  <2>2. SplitHop(r, e, k, j)
    BY <1>1, <1>2, SplitHops
  <2>3. From(r, d).layer = L + j - 1 /\ To(r, d).layer = L + j /\ r.edges[d].type = "Dummy"
    BY <1>3, <1>5, <2>1, <2>2 DEF SplitHop
  <2>4. j \in Nat /\ j >= 1
    BY <1>2
  <2>5. L + j = (L + j - 1) + 1
    BY <2>4
  <2>6. r.edges[d].flow = graph.edges[e].flow
    <3>1. CASE j = k + 1
      <4>1. r.edges[d] = LastHop(e, j)
        BY <1>2, <1>3, <2>1, <3>1 DEF IsSplit
      <4> QED
        BY <2>4, <4>1, HopIsEdge DEF IsDummyEdge
    <3>2. CASE j # k + 1
      <4>1. j \in 1..k
        BY <1>2, <3>2
      <4>2. r.edges[d] = Hop(e, j)
        BY <1>2, <1>3, <2>1, <4>1 DEF IsSplit
      <4> QED
        BY <2>4, <4>2, HopIsEdge DEF IsDummyEdge
    <3> QED
      BY <3>1, <3>2
  <2> QED
    BY <2>3, <2>5, <2>6 DEF IsKnown
<1> QED
  BY <1>7, <1>8

(* ShortInv once the phase of the crossings has begun.                      *)
ShortAt(g, b, ph, i) ==
    /\ KnownFlows(b) /\ \A e \in DOMAIN b.edges : IsShort(b, e)
    /\ ph \in {"crossings", "order"} =>
          \A e \in DOMAIN g.edges :
              \/ IsSettled(g, b, e)
              \/ ph = "crossings" /\ e \in i..Len(b.edges)

LEMMA ShortInvIn ==
    /\ ShortInv /\ phase \in CrossingPhases => ShortAt(graph, before, phase, at)
    /\ phase' \in CrossingPhases /\ ShortAt(graph', before', phase', at') => ShortInv'
<1>1. \A ph \in CrossingPhases : ph \notin {"layers", "data", "panic"}
  BY DEF CrossingPhases
<1>2. ShortInv /\ phase \in CrossingPhases => ShortAt(graph, before, phase, at)
  BY <1>1 DEF ShortInv, ShortAt
<1>3. KnownFlows(before)' <=> KnownFlows(before')
  BY DEF KnownFlows, SamePool, From, To
<1>4. \A e : IsShort(before, e)' <=> IsShort(before', e)
  BY DEF IsShort, SamePool, From, To
<1>5. \A e : IsSettled(graph, before, e)' <=> IsSettled(graph', before', e)
  BY DEF IsSettled, HasLoneEnd, From, To, IsLoneData, IsData
<1>6. phase' \in CrossingPhases /\ ShortAt(graph', before', phase', at') => ShortInv'
  BY <1>1, <1>3, <1>4, <1>5 DEF ShortInv, ShortAt
<1> QED
  BY <1>2, <1>6

(* The layout up to the phase leaves short flows, which are known.          *)
LEMMA LayOutShort ==
    ASSUME CrossingInv, ShortInv, LayOut
    PROVE  ShortInv'
<1>1. Work /\ before' = graph' /\ saved' = saved
  BY DEF LayOut
<1>2. phase \in Phases
  BY <1>1 DEF Work, SolveLayers, PlaceDataNode, SplitEdge, SortLanes, Phases
<1>3. LayersInv /\ before = graph
  BY <1>2 DEF CrossingInv, StartInv
<1>4. LayersInv'
  BY <1>1, <1>3, LayersStep DEF Next
<1>5. IsGraph(graph) /\ at \in Nat
  BY <1>3, LayersInvParts
<1>6. phase = "data" => KnownFlows(graph)
  <2>1. ASSUME phase = "data", NEW e \in DOMAIN graph.edges
        PROVE  IsKnown(graph, e)
    <3>1. FlowFits(graph, e)
      BY <1>3, <2>1, LayersInvParts
    <3> QED
      BY <3>1 DEF FlowFits, IsKnown
  <2> QED
    BY <2>1 DEF KnownFlows, IsKnown
<1>7. phase \in {"dummies", "sort"} => KnownFlows(graph)
  BY <1>3 DEF ShortInv
<1>8. phase' \notin {"layers", "data", "panic"} => KnownFlows(graph')
  <2> SUFFICES ASSUME phase' \notin {"layers", "data", "panic"} PROVE KnownFlows(graph')
    OBVIOUS
  <2>1. CASE SolveLayers
    BY <2>1 DEF SolveLayers, Panic
  <2>2. CASE PlaceDataNode
    BY <1>6, <2>2 DEF PlaceDataNode
  <2>3. CASE SplitEdge
    <3>1. KnownFlows(graph) /\ phase = "dummies"
      BY <1>7, <2>3 DEF SplitEdge
    <3>2. CASE graph' = graph
      BY <3>1, <3>2
    <3>3. CASE at <= Len(parsed.edges) /\ IsLong(at) /\ graph' = Split(at)
      <4>1. Splittable(at) /\ graph.edges[at].flow # "message"
        BY <1>3, <3>1, <3>3, LongIsSplittable
      <4>2. PICK r : r = Split(at)
        OBVIOUS
      <4>3. KnownFlows(r)
        BY <3>1, <4>1, <4>2, SplitKnown
      <4> QED
        BY <3>3, <4>2, <4>3
    <3> QED
      BY <2>3, <3>2, <3>3 DEF SplitEdge, Panic
  <2>4. CASE SortLanes
    <3>1. graph'.edges = graph.edges /\ graph'.nodes = graph.nodes /\ phase = "sort"
      <4>1. graph \in [nodes : Seq(GraphNodes), edges : Seq(GraphEdges),
                       lanes : [DOMAIN graph.lanes -> Seq(Nat)], numLayers : Nat]
        BY <1>5 DEF IsGraph
      <4> QED
        BY <2>4, <4>1 DEF SortLanes
    <3> QED
      BY <1>7, <3>1 DEF KnownFlows, SamePool, From, To
  <2> QED
    BY <1>1, <2>1, <2>2, <2>3, <2>4 DEF Work
<1>9. phase' \in Phases \union {"crossings", "panic"}
  BY <1>4 DEF LayersInv, TypeOK, Phases
<1>10. CASE phase' = "crossings"
  <2>1. phase' \in CrossingPhases
    BY <1>10 DEF CrossingPhases
  <2>2. PICK g : g = graph'
    OBVIOUS
  <2>3. KnownFlows(g)
    BY <1>8, <1>10, <2>2
  <2>4. at' = 1 /\ \A e \in DOMAIN g.edges : ShortOrChainIn(g, e)
    BY <1>4, <1>10, <2>2, IsShortOrChainIn DEF LayersInv, SplitInv
  <2>5. DOMAIN g.edges = 1..Len(g.edges)
    <3>1. IsGraph(graph)' <=> IsGraph(graph')
      BY DEF IsGraph
    <3>2. IsGraph(g)
      BY <1>4, <2>2, <3>1 DEF LayersInv, TypeOK
    <3> QED
      BY <3>2, GraphParts
  <2>6. ShortAt(g, g, "crossings", at')
    BY <2>3, <2>4, <2>5 DEF ShortAt, ShortOrChainIn, IsShort
  <2> QED
    BY <1>1, <1>10, <2>1, <2>2, <2>6, ShortInvIn
<1>11. CASE phase' # "crossings"
  <2>1. phase' \notin CrossingPhases /\ phase' \notin {"crossings", "order"}
    BY <1>9, <1>11 DEF Phases, CrossingPhases
  <2>2. KnownFlows(before)' <=> KnownFlows(before')
    BY DEF KnownFlows, SamePool, From, To
  <2> QED
    BY <1>1, <1>8, <2>1, <2>2 DEF ShortInv
<1> QED
  BY <1>10, <1>11

(* An edge that is not rerouted is over one layer, or out of the program.   *)
LEMMA UnreroutedIsSettled ==
    ASSUME NEW g, NEW b, IsGraph(b), EndsExist(b), NodesStay(g, b), NEW e \in DOMAIN b.edges,
           g.edges[e] = b.edges[e], KnownFlows(b), IsShort(b, e), LoneListsKept(g, b),
           g.edges[e].type # "Replaced" /\ SamePool(g, e) /\ From(g, e).layer = To(g, e).layer
              => IsLoneData(From(g, e)) \/ IsLoneData(To(g, e))
    PROVE  IsSettled(g, b, e)
<1>1. PICK from, to : /\ from = b.edges[e].from /\ to = b.edges[e].to
                      /\ from \in DOMAIN b.nodes /\ to \in DOMAIN b.nodes
  BY DEF EndsExist
<1>2. /\ From(b, e) = b.nodes[from] /\ To(b, e) = b.nodes[to]
      /\ From(g, e) = g.nodes[from] /\ To(g, e) = g.nodes[to]
  BY <1>1 DEF From, To
<1>3. /\ g.nodes[from].layer = b.nodes[from].layer /\ g.nodes[to].layer = b.nodes[to].layer
      /\ g.nodes[from].pool = b.nodes[from].pool /\ g.nodes[to].pool = b.nodes[to].pool
  BY <1>1 DEF NodesStay, Place
<1>4. /\ IsLoneData(g.nodes[from]) <=> IsLoneData(b.nodes[from])
      /\ IsLoneData(g.nodes[to]) <=> IsLoneData(b.nodes[to])
  BY <1>1, LoneInBoth
<1>5. PICK x \in Nat, y \in Nat : x = b.nodes[from].layer /\ y = b.nodes[to].layer
  <2>1. b.nodes[from] \in GraphNodes /\ b.nodes[to] \in GraphNodes
    BY <1>1, GraphParts
  <2>2. PICK L : L = Seq(Nat)
    OBVIOUS
  <2> QED
    BY <2>1, <2>2 DEF GraphNodes
<1>6. CASE g.edges[e].flow = "message" \/ g.edges[e].type = "Replaced"
  BY <1>6 DEF IsSettled
<1>7. CASE g.edges[e].flow # "message" /\ g.edges[e].type # "Replaced" /\ ~SamePool(b, e)
  <2>1. b.edges[e].type \in {"Regular", "Replaced", "Dummy"}
    <3>1. b.edges[e] \in GraphEdges
      BY GraphParts
    <3> QED
      BY <3>1 DEF GraphEdges
  <2>2. b.edges[e].type = "Dummy"
    BY <1>7, <2>1 DEF KnownFlows
  <2>3. To(b, e).layer = From(b, e).layer + 1
    BY <2>2 DEF KnownFlows
  <2> QED
    BY <1>2, <1>3, <1>7, <2>3 DEF IsSettled
<1>8. CASE g.edges[e].flow # "message" /\ g.edges[e].type # "Replaced" /\ SamePool(b, e)
  <2>1. y - x \in {0, 1}
    BY <1>2, <1>5, <1>8 DEF IsShort
  <2>2. y = x + 1 \/ y = x
    BY <2>1
  <2>3. CASE y = x + 1
    BY <1>2, <1>3, <1>5, <1>8, <2>3 DEF IsSettled
  <2>4. CASE y = x
    <3>1. SamePool(g, e)
      BY <1>2, <1>3, <1>8 DEF SamePool
    <3>2. IsLoneData(b.nodes[from]) \/ IsLoneData(b.nodes[to])
      BY <1>2, <1>3, <1>4, <1>5, <1>8, <2>4, <3>1
    <3>3. HasLoneEnd(b, b.edges[e])
      BY <1>1, <3>2 DEF HasLoneEnd
    <3> QED
      BY <1>8, <3>3 DEF IsSettled
  <2> QED
    BY <2>2, <2>3, <2>4
<1> QED
  BY <1>6, <1>7, <1>8

(* Nor does rerouting an edge unsettle another.                             *)
LEMMA ReroutedIsSettled ==
    ASSUME NEW g, NEW b, NEW a, NEW from, NEW to, NEW flow, NEW layer,
           IsWithin(g, a, from, to, flow, layer), flow # "message",
           NEW left, NEW k, NEW l, NEW r, Overlaid(r, g, a, from, to, left, flow, k, l),
           NEW m, \A d \in DOMAIN g.edges : IsSettled(g, b, d) \/ d \in a..m,
           a \in Nat, m \in Nat
    PROVE  \A d \in DOMAIN r.edges : IsSettled(r, b, d) \/ d \in (a + 1)..m
<1>1. IsGraph(g) /\ EndsExist(g) /\ a \in DOMAIN g.edges
  BY DEF IsWithin
<1>2. Extended(r, g, a) /\ k = Len(g.edges) /\ Len(r.edges) = l /\ IsGraph(r)
  BY DEF Overlaid, HasRight, Extended
<1>3. PICK j \in Nat : j = Len(g.edges) /\ DOMAIN g.edges = 1..j
  BY <1>1, GraphParts
<1>4. PICK i \in Nat : i = Len(r.edges) /\ DOMAIN r.edges = 1..i
  BY <1>2, GraphParts
<1>5. /\ r.edges[a].flow = flow /\ LeadsRight(r, a)
      /\ \A d \in (k + 1)..l : r.edges[d].flow = flow /\ LeadsRight(r, d)
  BY DEF Overlaid
<1>6. ASSUME NEW d, r.edges[d].flow = flow, LeadsRight(r, d)
      PROVE  IsSettled(r, b, d)
  BY <1>6 DEF IsSettled, LeadsRight, From, To
<1>7. ASSUME NEW d \in 1..j, d # a
      PROVE  IsSettled(r, b, d) \/ d \in (a + 1)..m
  <2>1. r.edges[d] = g.edges[d] /\ \A n \in DOMAIN g.nodes : SameNode(r.nodes[n], g.nodes[n])
    BY <1>2, <1>3, <1>7 DEF Extended
  <2>2. g.edges[d].from \in DOMAIN g.nodes /\ g.edges[d].to \in DOMAIN g.nodes
    BY <1>1, <1>3, <1>7 DEF EndsExist
  <2>3. From(r, d).layer = From(g, d).layer /\ To(r, d).layer = To(g, d).layer
    BY <2>1, <2>2 DEF From, To, SameNode
  <2>4. IsSettled(g, b, d) => IsSettled(r, b, d)
    BY <2>1, <2>3 DEF IsSettled
  <2>5. d \in a..m => d \in (a + 1)..m
    BY <1>7
  <2> QED
    BY <1>3, <1>7, <2>4, <2>5
<1>8. \A d \in 1..i : d \in 1..j \/ d \in (k + 1)..l
  BY <1>2, <1>3, <1>4
<1> QED
  BY <1>4, <1>5, <1>6, <1>7, <1>8

LEMMA RerouteKeepsShort ==
    ASSUME CrossingInv, UndoInv, LoneDataInv, ShortInv, Reroute
    PROVE  ShortInv'
<1>1. phase = "crossings" /\ InvAt(graph, before, "crossings", at, saved) /\ phase \in CrossingPhases
  BY CrossingInvIn DEF Reroute, CrossingPhases
<1>2. /\ UndoAt(graph, before, "crossings", at, saved) /\ LoneAt(graph, before, "crossings", at, saved)
      /\ ShortAt(graph, before, "crossings", at)
  BY <1>1, UndoInvIn, LoneDataInvIn, ShortInvIn
<1>3. IsGraph(graph) /\ IsGraph(before) /\ EndsExist(before) /\ at \in Nat /\ at >= 1
  BY <1>1, BeforeWithin
<1>4. NodesStay(graph, before) /\ LoneListsKept(graph, before)
  BY <1>2 DEF UndoAt, LoneAt
<1>5. PICK m \in Nat : m = Len(before.edges) /\ DOMAIN before.edges = 1..m
  BY <1>3, GraphParts
<1>6. /\ KnownFlows(before) /\ \A e \in DOMAIN before.edges : IsShort(before, e)
      /\ \A e \in DOMAIN graph.edges : IsSettled(graph, before, e) \/ e \in at..m
  BY <1>2, <1>5 DEF ShortAt
<1>7. CASE at > Len(before.edges) /\ phase' = "order" /\ at' = 1 /\ UNCHANGED <<parsed, graph, before, saved>>
  <2>1. \A e \in at..m : FALSE
    BY <1>3, <1>5, <1>7
  <2>2. ShortAt(graph, before, "order", 1)
    BY <1>6, <2>1 DEF ShortAt
  <2>3. phase' \in CrossingPhases
    BY <1>7 DEF CrossingPhases
  <2> QED
    BY <1>7, <2>2, <2>3, ShortInvIn
<1>8. CASE /\ at <= Len(before.edges) /\ ~IsRerouted(at) /\ at' = at + 1
           /\ UNCHANGED <<parsed, graph, phase, before, saved>>
  <2>1. at \in DOMAIN before.edges
    BY <1>3, <1>5, <1>8
  <2>2. graph.edges[at] = before.edges[at]
    <3>1. at \in at..Len(before.edges)
      BY <1>3, <1>5, <1>8
    <3> QED
      BY <1>1, <3>1 DEF InvAt, ReroutingAt
  <2>3. IsSettled(graph, before, at)
    <3>1. SamePool(graph, at) /\ From(graph, at).layer = To(graph, at).layer
             => IsLoneData(From(graph, at)) \/ IsLoneData(To(graph, at))
      BY <1>8 DEF IsRerouted
    <3> QED
      BY <1>3, <1>4, <1>6, <2>1, <2>2, <3>1, UnreroutedIsSettled
  <2>4. \A e \in at..m : e = at \/ e \in (at + 1)..m
    BY <1>3
  <2>5. ShortAt(graph, before, "crossings", at + 1)
    BY <1>5, <1>6, <2>3, <2>4 DEF ShortAt
  <2> QED
    BY <1>1, <1>8, <2>5, ShortInvIn
<1>9. CASE /\ at <= Len(before.edges) /\ IsRerouted(at) /\ at' = at + 1
           /\ saved' = Append(saved, [id |-> at, edge |-> graph.edges[at]])
           /\ graph' = Rerouted(graph, at) /\ UNCHANGED <<parsed, phase, before>>
  <2>1. PICK from, to, flow, layer : ReroutesEdge(graph, before, at, m, from, to, flow, layer)
    BY <1>1, <1>2, <1>5, <1>9, ReroutedIsWithin
  <2>2. /\ IsWithin(graph, at, from, to, flow, layer) /\ RunsWithin(before, at)
        /\ graph.edges[at] = before.edges[at]
    BY <2>1 DEF ReroutesEdge
  <2>3. flow # "message"
    <3>1. at \in DOMAIN before.edges
      BY <1>3, <1>5, <1>9
    <3>2. flow = before.edges[at].flow
      BY <2>2 DEF IsWithin
    <3> QED
      BY <1>6, <2>2, <3>1, <3>2 DEF KnownFlows, RunsWithin
  <2>4. PICK r, k, left : r = Rerouted(graph, at) /\ k = Len(graph.edges) /\ left = (layer # 0)
    OBVIOUS
  <2>5. k \in Nat
    BY <1>3, <2>4, GraphParts
  <2>6. PICK l : Overlaid(r, graph, at, from, to, left, flow, k, l)
    BY <2>2, <2>4, <2>5, ReroutedEffect
  <2>7. \A d \in DOMAIN r.edges : IsSettled(r, before, d) \/ d \in (at + 1)..m
    BY <1>3, <1>6, <2>2, <2>3, <2>6, ReroutedIsSettled
  <2>8. ShortAt(r, before, "crossings", at + 1)
    BY <1>5, <1>6, <2>7 DEF ShortAt
  <2> QED
    BY <1>1, <1>9, <2>4, <2>8, ShortInvIn
<1> QED
  BY <1>1, <1>7, <1>8, <1>9 DEF Reroute

(* Linking nodes does not move edges.                                       *)
LEMMA OrderLayerKeepsShort ==
    ASSUME CrossingInv, ShortInv, OrderLayer
    PROVE  ShortInv' \/ CrossingPanic
<1>1. phase = "order" /\ InvAt(graph, before, "order", at, saved) /\ phase \in CrossingPhases
  BY CrossingInvIn DEF OrderLayer, CrossingPhases
<1>2. ShortAt(graph, before, "order", at)
  BY <1>1, ShortInvIn
<1>3. IsGraph(graph) /\ EndsExist(graph) /\ LanesComplete(graph) /\ at \in Nat
  BY <1>1, BeforeWithin DEF InvAt, Whole
<1>4. /\ KnownFlows(before) /\ \A e \in DOMAIN before.edges : IsShort(before, e)
      /\ \A e \in DOMAIN graph.edges : IsSettled(graph, before, e)
  BY <1>2 DEF ShortAt
<1>5. CASE phase' = "lone" /\ UNCHANGED before
  <2>1. ShortAt(graph', before, "lone", at')
    BY <1>4 DEF ShortAt
  <2>2. phase' \in CrossingPhases
    BY <1>5 DEF CrossingPhases
  <2> QED
    BY <1>5, <2>1, <2>2, ShortInvIn
<1>6. ASSUME NEW order \in Orders(at - 1), graph' = Linked(order), UNCHANGED <<phase, before>>
      PROVE  ShortInv'
  <2>1. PICK r, D : r = Linked(order) /\ D = InLayer(at - 1)
    OBVIOUS
  <2>2. r.edges = graph.edges /\ \A n \in DOMAIN graph.nodes : r.nodes[n].layer = graph.nodes[n].layer
    <3>1. SameButLinks(r, graph)
      BY <1>3, <1>6, <2>1, LinkedEffect
    <3> QED
      BY <3>1 DEF SameButLinks
  <2>3. ASSUME NEW e \in DOMAIN r.edges
        PROVE  IsSettled(r, before, e)
    <3>1. e \in DOMAIN graph.edges /\ IsSettled(graph, before, e)
      BY <1>4, <2>2, <2>3
    <3>2. From(r, e).layer = From(graph, e).layer /\ To(r, e).layer = To(graph, e).layer
      BY <1>3, <2>2, <3>1 DEF EndsExist, From, To
    <3> QED
      BY <2>2, <3>1, <3>2 DEF IsSettled
  <2>4. ShortAt(r, before, "order", at')
    BY <1>4, <2>3 DEF ShortAt
  <2> QED
    BY <1>1, <1>6, <2>1, <2>4, ShortInvIn
<1> QED
  BY <1>5, <1>6 DEF OrderLayer

(* What the phase began with is left alone, and what has panicked has ended.*)
LEMMA OthersKeepShort ==
    ASSUME ShortInv,
           \/ CrossingPanic \/ UNCHANGED crossingVars
           \/ /\ phase \in {"lone", "undo", "edges"} /\ phase' \in {"lone", "undo", "edges", "ports"}
              /\ UNCHANGED before
    PROVE  ShortInv'
<1>1. CASE CrossingPanic
  <2>1. phase' = "panic" /\ phase' \notin CrossingPhases
    BY <1>1 DEF CrossingPanic, Panic, CrossingPhases
  <2> QED
    BY <2>1 DEF ShortInv
<1>2. CASE UNCHANGED crossingVars
  <2>1. UNCHANGED <<parsed, graph, phase, at, before, saved>>
    BY <1>2 DEF crossingVars
  <2>2. CASE phase \in CrossingPhases
    <3>1. ShortAt(graph', before', phase', at')
      BY <2>1, <2>2, ShortInvIn
    <3> QED
      BY <2>1, <2>2, <3>1, ShortInvIn
  <2>3. CASE phase \notin CrossingPhases
    <3>1. KnownFlows(before)' <=> KnownFlows(before')
      BY DEF KnownFlows, SamePool, From, To
    <3>2. phase' \notin {"crossings", "order"}
      BY <2>1, <2>3 DEF CrossingPhases
    <3> QED
      BY <2>1, <2>3, <3>1, <3>2 DEF ShortInv
  <2> QED
    BY <2>2, <2>3
<1>3. CASE /\ phase \in {"lone", "undo", "edges"} /\ phase' \in {"lone", "undo", "edges", "ports"}
           /\ UNCHANGED before
  <2>1. phase \in CrossingPhases /\ phase' \in CrossingPhases /\ phase' \notin {"crossings", "order"}
    BY <1>3 DEF CrossingPhases
  <2>2. ShortAt(graph, before, phase, at)
    BY <2>1, ShortInvIn
  <2>3. ShortAt(graph', before', phase', at')
    BY <1>3, <2>1, <2>2 DEF ShortAt
  <2> QED
    BY <2>1, <2>3, ShortInvIn
<1> QED
  BY <1>1, <1>2, <1>3

LEMMA ShortStep ==
    ASSUME CrossingInv, UndoInv, LoneDataInv, ShortInv, [CrossingNext]_crossingVars
    PROVE  ShortInv'
<1>1. CASE LayOut
  BY <1>1, LayOutShort
<1>2. CASE Reroute
  BY <1>2, RerouteKeepsShort
<1>3. CASE OrderLayer
  BY <1>3, OrderLayerKeepsShort, OthersKeepShort
<1>4. CASE PlaceLoneData
  <2>1. \/ CrossingPanic
        \/ phase = "lone" /\ phase' \in {"lone", "undo"} /\ UNCHANGED before
    BY <1>4 DEF PlaceLoneData
  <2> QED
    BY <2>1, OthersKeepShort
<1>5. CASE Undo
  <2>1. phase = "undo" /\ phase' \in {"undo", "edges"} /\ UNCHANGED before
    BY <1>5 DEF Undo
  <2> QED
    BY <2>1, OthersKeepShort
<1>6. CASE SortEdges
  <2>1. \/ CrossingPanic
        \/ phase = "edges" /\ phase' \in {"edges", "ports"} /\ UNCHANGED before
    BY <1>6 DEF SortEdges
  <2> QED
    BY <2>1, OthersKeepShort
<1>7. CASE CrossingTerminated \/ UNCHANGED crossingVars
  BY <1>7, OthersKeepShort DEF CrossingTerminated
<1> QED
  BY <1>1, <1>2, <1>3, <1>4, <1>5, <1>6, <1>7 DEF CrossingNext, CrossingWork

(* The neighbours a and b in one column are at message flows d and e to r.   *)
JoinsIn(g, e, a, r) ==
    /\ e \in DOMAIN g.edges /\ g.edges[e].flow = "message"
    /\ \/ g.edges[e].from = a /\ g.edges[e].to = r
       \/ g.edges[e].to = a /\ g.edges[e].from = r

SharesIn(g, d, e, a, b, r) ==
    /\ JoinsIn(g, d, a, r) /\ JoinsIn(g, e, b, r)
    /\ a # b /\ g.nodes[a].layer = g.nodes[b].layer /\ Place(g.nodes[a]) = Place(g.nodes[b])

LEMMA SharedIsShared ==
    ASSUME NEW g, NEW d, NEW e, NEW a, NEW b, NEW r, SharesIn(g, d, e, a, b, r)
    PROVE  SharedRemote(g)
<1>1. <<a, r>> \in {<<g.edges[d].from, g.edges[d].to>>, <<g.edges[d].to, g.edges[d].from>>}
  BY DEF SharesIn, JoinsIn
<1>2. <<b, r>> \in {<<g.edges[e].from, g.edges[e].to>>, <<g.edges[e].to, g.edges[e].from>>}
  BY DEF SharesIn, JoinsIn
<1>3. PICK x, y : x = <<a, r>> /\ y = <<b, r>>
  OBVIOUS
<1>4. x[1] = a /\ x[2] = r /\ y[1] = b /\ y[2] = r
  BY <1>3
<1>5. /\ d \in {z \in DOMAIN g.edges : g.edges[z].flow = "message"}
      /\ e \in {z \in DOMAIN g.edges : g.edges[z].flow = "message"}
  BY DEF SharesIn, JoinsIn
<1>6. /\ x[2] = y[2] /\ x[1] # y[1] /\ g.nodes[x[1]].layer = g.nodes[y[1]].layer
      /\ Place(g.nodes[x[1]]) = Place(g.nodes[y[1]])
  BY <1>4 DEF SharesIn
<1>7. \E p \in {<<g.edges[d].from, g.edges[d].to>>, <<g.edges[d].to, g.edges[d].from>>},
         q \in {<<g.edges[e].from, g.edges[e].to>>, <<g.edges[e].to, g.edges[e].from>>} :
         p[2] = q[2] /\ (/\ p[1] # q[1] /\ g.nodes[p[1]].layer = g.nodes[q[1]].layer
                        /\ Place(g.nodes[p[1]]) = Place(g.nodes[q[1]]))
  BY <1>1, <1>2, <1>3, <1>6
<1> QED
  BY <1>5, <1>7, Zenon DEF SharedRemote

LEMMA SharedShares ==
    ASSUME NEW g, SharedRemote(g)
    PROVE  \E d, e, a, b, r : SharesIn(g, d, e, a, b, r)
<1>1. PICK d, e \in {e \in DOMAIN g.edges : g.edges[e].flow = "message"} :
         \E p \in {<<g.edges[d].from, g.edges[d].to>>, <<g.edges[d].to, g.edges[d].from>>},
            q \in {<<g.edges[e].from, g.edges[e].to>>, <<g.edges[e].to, g.edges[e].from>>} :
            p[2] = q[2] /\ (/\ p[1] # q[1] /\ g.nodes[p[1]].layer = g.nodes[q[1]].layer
                           /\ Place(g.nodes[p[1]]) = Place(g.nodes[q[1]]))
  BY Zenon DEF SharedRemote
<1>2. PICK p \in {<<g.edges[d].from, g.edges[d].to>>, <<g.edges[d].to, g.edges[d].from>>},
           q \in {<<g.edges[e].from, g.edges[e].to>>, <<g.edges[e].to, g.edges[e].from>>} :
           /\ p[2] = q[2] /\ p[1] # q[1] /\ g.nodes[p[1]].layer = g.nodes[q[1]].layer
           /\ Place(g.nodes[p[1]]) = Place(g.nodes[q[1]])
  BY <1>1
<1>3. JoinsIn(g, d, p[1], p[2])
  <2>1. CASE p = <<g.edges[d].from, g.edges[d].to>>
    BY <1>1, <2>1 DEF JoinsIn
  <2>2. CASE p = <<g.edges[d].to, g.edges[d].from>>
    BY <1>1, <2>2 DEF JoinsIn
  <2> QED
    BY <1>2, <2>1, <2>2
<1>4. JoinsIn(g, e, q[1], q[2])
  <2>1. CASE q = <<g.edges[e].from, g.edges[e].to>>
    BY <1>1, <2>1 DEF JoinsIn
  <2>2. CASE q = <<g.edges[e].to, g.edges[e].from>>
    BY <1>1, <2>2 DEF JoinsIn
  <2> QED
    BY <1>2, <2>1, <2>2
<1>5. SharesIn(g, d, e, p[1], q[1], p[2])
  BY <1>2, <1>3, <1>4 DEF SharesIn
<1> QED
  BY <1>5

(* The edges of the integer program are over one layer, and message flows   *)
(* are as they were: it fails only if two nodes have one remote end.        *)
LEMMA ProgramPanics ==
    ASSUME CrossingInv, UndoInv, LoneDataInv, ShortInv, phase = "order",
           VariableMissing \/ SharedRemote(graph)
    PROVE  SharedRemote(before)
<1>1. phase \in CrossingPhases
  BY DEF CrossingPhases
<1>2. /\ InvAt(graph, before, "order", at, saved) /\ UndoAt(graph, before, "order", at, saved)
      /\ LoneAt(graph, before, "order", at, saved) /\ ShortAt(graph, before, "order", at)
  BY <1>1, CrossingInvIn, UndoInvIn, LoneDataInvIn, ShortInvIn
<1>3. EndsExist(before) /\ EndsExist(graph) /\ NodesStay(graph, before) /\ LoneListsKept(graph, before)
  BY <1>2, BeforeWithin DEF InvAt, Whole, UndoAt, LoneAt
<1>4. \A e \in DOMAIN graph.edges : IsSettled(graph, before, e)
  BY <1>2 DEF ShortAt
<1>5. ASSUME NEW e \in ProgramEdges
      PROVE  To(graph, e).layer = From(graph, e).layer + 1
  <2>1. /\ e \in DOMAIN graph.edges /\ graph.edges[e].type # "Replaced" /\ graph.edges[e].flow # "message"
        /\ ~IsLoneData(graph.nodes[graph.edges[e].from]) /\ ~IsLoneData(graph.nodes[graph.edges[e].to])
    BY DEF ProgramEdges, InProgram
  <2> SUFFICES ASSUME e \in DOMAIN before.edges, graph.edges[e] = before.edges[e],
                      HasLoneEnd(before, before.edges[e])
               PROVE  FALSE
    BY <1>4, <2>1 DEF IsSettled
  <2>2. PICK from, to : /\ from = before.edges[e].from /\ to = before.edges[e].to
                        /\ from \in DOMAIN before.nodes /\ to \in DOMAIN before.nodes
    BY <1>3 DEF EndsExist
  <2>3. ~IsLoneData(before.nodes[from]) /\ ~IsLoneData(before.nodes[to])
    BY <1>3, <2>1, <2>2, LoneInBoth
  <2> QED
    BY <2>2, <2>3 DEF HasLoneEnd
<1>6. ~VariableMissing
  BY <1>5 DEF VariableMissing
<1>7. ASSUME NEW e \in DOMAIN graph.edges, graph.edges[e].flow = "message"
      PROVE  /\ e \in DOMAIN before.edges /\ graph.edges[e] = before.edges[e]
             /\ graph.edges[e].from \in DOMAIN before.nodes /\ graph.edges[e].to \in DOMAIN before.nodes
  <2>1. e \in DOMAIN before.edges /\ graph.edges[e] = before.edges[e]
    BY <1>4, <1>7 DEF IsSettled
  <2> QED
    BY <1>3, <2>1 DEF EndsExist
<1>8. PICK d, e, a, b, r : SharesIn(graph, d, e, a, b, r)
  BY <1>6, SharedShares
<1>9. a \in DOMAIN before.nodes /\ b \in DOMAIN before.nodes
  BY <1>7, <1>8 DEF SharesIn, JoinsIn
<1>10. /\ before.nodes[a].layer = before.nodes[b].layer
       /\ Place(before.nodes[a]) = Place(before.nodes[b])
  BY <1>3, <1>8, <1>9 DEF NodesStay, SharesIn
<1>11. JoinsIn(before, d, a, r) /\ JoinsIn(before, e, b, r)
  BY <1>7, <1>8 DEF SharesIn, JoinsIn
<1>12. SharesIn(before, d, e, a, b, r)
  BY <1>8, <1>10, <1>11 DEF SharesIn
<1> QED
  BY <1>12, SharedIsShared

(* Lone data always fits in: the neighbours in the list name each other.    *)
LEMMA LoneDataCanBePlaced ==
    ASSUME CrossingInv, phase = "lone", at \in DOMAIN graph.nodes, IsLoneData(graph.nodes[at])
    PROVE  CanInsert(graph, at, Spot(at))
<1>1. phase \in CrossingPhases
  BY DEF CrossingPhases
<1>2. InvAt(graph, before, "lone", at, saved)
  BY <1>1, CrossingInvIn
<1>3. PICK r, spot, L : spot = Spot(at) /\ r = Inserted(graph, at, spot) /\ L = LinkedIn(graph, "lone", at)
  OBVIOUS
<1>4. \E S, ref : SpotFits(r, at, L, S, ref, spot.above, spot.below)
  <2>1. Whole(graph) /\ KeptAt(graph, before, "lone") /\ LinksHold(graph, L)
    BY <1>2, <1>3 DEF InvAt
  <2>2. IsGraph(graph) /\ IsGraph(before)
    BY <1>2, BeforeWithin
  <2> QED
    BY <1>3, <2>1, <2>2, LoneDataSpot
<1>5. PICK S, ref, a, b : a = spot.above /\ b = spot.below /\ SpotFits(r, at, L, S, ref, a, b)
  BY <1>4
<1>6. /\ (a = ref /\ b = graph.nodes[ref].below) \/ (b = ref /\ a = graph.nodes[ref].above)
      /\ ref \in S /\ at \notin S /\ 0 \notin S /\ IsLinkedList(graph, S)
      /\ a \in S \union {0} /\ b \in S \union {0}
  BY <1>5 DEF SpotFits, IsBeside
<1>7. \A m, n \in S : graph.nodes[m].below = n <=> graph.nodes[n].above = m
  BY <1>6 DEF IsLinkedList
<1>8. at # 0
  <2>1. IsGraph(graph)
    BY <1>2, BeforeWithin
  <2> QED
    BY <2>1, GraphParts
<1>9. a # 0 => graph.nodes[a].below = b
  BY <1>6, <1>7
<1>10. b # 0 => graph.nodes[b].above = a
  BY <1>6, <1>7
<1> QED
  BY <1>3, <1>5, <1>6, <1>8, <1>9, <1>10 DEF CanInsert

-----------------------------------------------------------------------------
(* Every edge has its place around a node, if its ends are different nodes  *)
(* and it goes no further than to the next layer.                           *)

(* A pair is before another one in the order of keys.                       *)
LEMMA PairLess ==
    ASSUME NEW x \in Nat, NEW y, NEW u \in Nat, NEW v, x < u \/ (x = u /\ y < v)
    PROVE  KeyLess(<<x, y>>, <<u, v>>)
<1>1. PICK k, l : k = <<x, y>> /\ l = <<u, v>>
  OBVIOUS
<1>2. DOMAIN k = 1..2 /\ k[1] = x /\ k[2] = y /\ l[1] = u /\ l[2] = v
  BY <1>1
<1>3. CASE x < u
  <2>1. 1 \in DOMAIN k /\ k[1] < l[1] /\ \A j \in 1..(1 - 1) : k[j] = l[j]
    BY <1>2, <1>3
  <2> QED
    BY <1>1, <2>1 DEF KeyLess
<1>4. CASE x = u /\ y < v
  <2>1. 2 \in DOMAIN k /\ k[2] < l[2]
    BY <1>2, <1>4
  <2>2. ASSUME NEW j \in 1..(2 - 1) PROVE k[j] = l[j]
    BY <1>2, <1>4, <2>2
  <2> QED
    BY <1>1, <2>1, <2>2 DEF KeyLess
<1> QED
  BY <1>3, <1>4

(* Of two nodes in a layer of a pool one is above the other.                *)
LEMMA OneIsAbove ==
    ASSUME CrossingInv, Done, NEW rank, rank = Rank(graph),
           NEW m \in DOMAIN graph.nodes, NEW n \in DOMAIN graph.nodes, m # n,
           graph.nodes[m].pool = graph.nodes[n].pool, graph.nodes[m].layer = graph.nodes[n].layer
    PROVE  Above(rank, m, n) \/ Above(rank, n, m)
<1>1. PICK l, k : l = graph.nodes[m].lane /\ k = graph.nodes[n].lane
  OBVIOUS
<1>2. IsGraph(graph) /\ \A x \in DOMAIN graph.nodes : IsLinkedList(graph, InColumn(graph, x))
  BY DoneColumns
<1>3. l \in Nat /\ k \in Nat
  <2>1. graph.nodes[m] \in GraphNodes /\ graph.nodes[n] \in GraphNodes
    BY <1>2, GraphParts
  <2> QED
    BY <1>1, <2>1 DEF GraphNodes
<1>4. PICK x, y : x = rank[m] /\ y = rank[n]
  OBVIOUS
<1>5. l = k => x \in Nat /\ y \in Nat /\ x # y
  <2> SUFFICES ASSUME l = k PROVE x \in Nat /\ y \in Nat /\ x # y
    OBVIOUS
  <2>1. PICK S : S = InColumn(graph, m)
    OBVIOUS
  <2>2. m \in S /\ n \in S
    BY <1>1, <2>1 DEF InColumn, Column, Place
  <2>3. PICK c \in Nat : Ranks(graph, S, c, rank)
    BY <1>2, <2>1, ColumnIsRanked
  <2> QED
    BY <1>4, <2>2, <2>3 DEF Ranks
<1>6. l < k \/ k < l \/ (l = k /\ x < y) \/ (k = l /\ y < x)
  BY <1>3, <1>5
<1>7. KeyLess(<<l, x>>, <<k, y>>) \/ KeyLess(<<k, y>>, <<l, x>>)
  BY <1>3, <1>6, PairLess
<1> QED
  BY <1>1, <1>4, <1>7 DEF Above

(* The groups of the two orders leave nothing out.                          *)
LEMMA KeyIsKnown ==
    ASSUME NEW rank, NEW e, NEW from, NEW to, from = From(graph, e), to = To(graph, e),
           from.pool \in Nat, to.pool \in Nat, from.layer \in Nat, to.layer \in Nat,
           \/ from.pool # to.pool
           \/ to.layer = from.layer + 1
           \/ /\ to.layer = from.layer
              /\ \/ Above(rank, graph.edges[e].from, graph.edges[e].to)
                 \/ Above(rank, graph.edges[e].to, graph.edges[e].from)
    PROVE  IncomingKey(rank, e)[1] # 8 /\ OutgoingKey(rank, e)[1] # 8
<1>1. PICK up, down : /\ up = Above(rank, graph.edges[e].from, graph.edges[e].to)
                      /\ down = Above(rank, graph.edges[e].to, graph.edges[e].from)
  OBVIOUS
<1>2. SamePool(graph, e) <=> from.pool = to.pool
  BY DEF SamePool
<1>3. IncomingKey(rank, e)[1] # 8
  BY <1>2 DEF IncomingKey
<1>4. OutgoingKey(rank, e)[1] # 8
  BY <1>2 DEF OutgoingKey
<1> QED
  BY <1>3, <1>4

(* Unless edges are entangled, the lists hold edges of the graph before it.  *)
LEMMA EdgeIsKnown ==
    ASSUME CrossingInv, UndoInv, ShortInv, phase = "edges", NEW rank, rank = Rank(graph),
           graph.edges = before.edges, NEW e \in DOMAIN before.edges, before.edges[e].type # "Replaced"
    PROVE  IncomingKey(rank, e)[1] # 8 /\ OutgoingKey(rank, e)[1] # 8
<1>1. Done /\ phase \in CrossingPhases
  BY DEF Done, CrossingPhases
<1>2. /\ IsGraph(graph) /\ IsGraph(before) /\ EndsExist(before)
      /\ DOMAIN graph.nodes = DOMAIN before.nodes
  BY <1>1, DoneColumns
<1>3. UndoAt(graph, before, "edges", at, saved) /\ ShortAt(graph, before, "edges", at)
  BY <1>1, UndoInvIn, ShortInvIn
<1>4. NodesStay(graph, before) /\ IsShort(before, e)
  BY <1>3 DEF UndoAt, ShortAt
<1>5. EndsDiffer(before)
  BY DEF UndoInv
<1>6. PICK m, n : m = before.edges[e].from /\ n = before.edges[e].to
  OBVIOUS
<1>7. m \in DOMAIN graph.nodes /\ n \in DOMAIN graph.nodes /\ m # n
  BY <1>2, <1>5, <1>6 DEF EndsExist, EndsDiffer
<1>8. PICK from, to : from = graph.nodes[m] /\ to = graph.nodes[n]
  OBVIOUS
<1>9. /\ from.pool \in Nat /\ to.pool \in Nat /\ from.layer \in Nat /\ to.layer \in Nat
  <2>1. from \in GraphNodes /\ to \in GraphNodes
    BY <1>2, <1>7, <1>8, GraphParts
  <2> QED
    BY <2>1 DEF GraphNodes
<1>10. from = From(graph, e) /\ to = To(graph, e)
  BY <1>6, <1>8 DEF From, To
<1>11. /\ before.nodes[m].layer = from.layer /\ before.nodes[n].layer = to.layer
       /\ before.nodes[m].pool = from.pool /\ before.nodes[n].pool = to.pool
  BY <1>2, <1>4, <1>7, <1>8 DEF NodesStay, Place
<1>12. from.pool = to.pool => to.layer - from.layer \in {0, 1}
  BY <1>4, <1>6, <1>11 DEF IsShort, SamePool, From, To
<1>13. from.pool # to.pool \/ to.layer = from.layer + 1 \/ (from.pool = to.pool /\ to.layer = from.layer)
  BY <1>9, <1>12
<1>14. from.pool = to.pool /\ to.layer = from.layer => Above(rank, m, n) \/ Above(rank, n, m)
  BY <1>1, <1>7, <1>8, OneIsAbove
<1>15. graph.edges[e].from = m /\ graph.edges[e].to = n
  BY <1>6
<1> QED
  BY <1>9, <1>10, <1>13, <1>14, <1>15, KeyIsKnown

LEMMA ListIsSortable ==
    ASSUME NEW s \in Seq(Nat), NEW t \in Seq(Nat), SameBag(s, t), NEW key, NEW E,
           \A e \in E : Count(t, e) # 0 => e \in DOMAIN key /\ key[e][1] # 8, ToSet(t) \subseteq E
    PROVE  ~Unsortable(s, key)
<1>1. ASSUME NEW i \in DOMAIN s PROVE s[i] \in DOMAIN key /\ key[s[i]][1] # 8
  <2>1. PICK e : e = s[i]
    OBVIOUS
  <2>2. e \in ToSet(s)
    BY <2>1 DEF ToSet
  <2>3. Count(s, e) # 0 /\ Count(s, e) = Count(t, e)
    BY <2>2, CountType, BagsCount
  <2>4. e \in ToSet(t)
    BY <2>3, CountType
  <2> QED
    BY <2>1, <2>3, <2>4
<1> QED
  BY <1>1 DEF Unsortable

LEMMA SortPanics ==
    ASSUME CrossingInv, UndoInv, ShortInv, phase = "edges", NEW n \in DOMAIN graph.nodes, ~Entangled,
           NEW rank, rank = Rank(graph),
           NEW in, in = [e \in DOMAIN graph.edges |-> IncomingKey(rank, e)],
           NEW out, out = [e \in DOMAIN graph.edges |-> OutgoingKey(rank, e)]
    PROVE  ~Unsortable(graph.nodes[n].incoming, in) /\ ~Unsortable(graph.nodes[n].outgoing, out)
<1>1. Done /\ phase \in CrossingPhases
  BY DEF Done, CrossingPhases
<1>2. /\ IsGraph(graph) /\ IsGraph(before) /\ EndsExist(before)
      /\ DOMAIN graph.nodes = DOMAIN before.nodes
  BY <1>1, DoneColumns
<1>3. Mirrored(before) /\ FinallyFits(graph, before, saved)
  <2>1. UndoAt(graph, before, "edges", at, saved)
    BY <1>1, UndoInvIn
  <2> QED
    BY <2>1 DEF UndoAt
<1>4. ~EntangledIn(before, saved)
  BY DEF Entangled, EntangledIn, HasLeftIn
<1>5. graph.edges = before.edges
  BY <1>3 DEF FinallyFits
<1>6. PICK E : E = DOMAIN before.edges
  OBVIOUS
<1>7. ASSUME NEW e \in E, before.edges[e].type # "Replaced"
      PROVE  /\ e \in DOMAIN in /\ in[e][1] # 8
             /\ e \in DOMAIN out /\ out[e][1] # 8
  BY <1>5, <1>6, <1>7, EdgeIsKnown
<1>8. PICK s1, s2, t1, t2 :
         /\ s1 = graph.nodes[n].incoming /\ s2 = graph.nodes[n].outgoing
         /\ t1 = before.nodes[n].incoming /\ t2 = before.nodes[n].outgoing
  OBVIOUS
<1>9. s1 \in Seq(Nat) /\ s2 \in Seq(Nat) /\ t1 \in Seq(Nat) /\ t2 \in Seq(Nat)
  BY <1>2, <1>8, NodeLists
<1>10. SameBag(s1, t1) /\ SameBag(s2, t2)
  BY <1>2, <1>3, <1>4, <1>8 DEF FinallyFits
<1>11. ToSet(t1) \subseteq E /\ ToSet(t2) \subseteq E
  BY <1>2, <1>3, <1>6, <1>8 DEF Mirrored
<1>12. \A e \in E : before.edges[e].type = "Replaced" => Count(t1, e) = 0 /\ Count(t2, e) = 0
  BY <1>2, <1>3, <1>6, <1>8 DEF Mirrored
<1>13. ~Unsortable(s1, in)
  BY <1>7, <1>9, <1>10, <1>11, <1>12, ListIsSortable
<1>14. ~Unsortable(s2, out)
  BY <1>7, <1>9, <1>10, <1>11, <1>12, ListIsSortable
<1> QED
  BY <1>8, <1>13, <1>14

(* What a panic is blamed on stays.                                         *)
LEMMA BlameStays ==
    ASSUME UNCHANGED <<before, saved>>, SharedRemote(before) \/ Entangled
    PROVE  SharedRemote(before)' \/ Entangled'
<1>1. before' = before /\ saved' = saved
  OBVIOUS
<1>2. SharedRemote(before) => SharedRemote(before)'
  <2>1. SharedRemote(before)' <=> SharedRemote(before')
    BY Zenon DEF SharedRemote, Place
  <2> QED
    BY <1>1, <2>1
<1>3. Entangled => Entangled'
  BY <1>1 DEF Entangled
<1> QED
  BY <1>2, <1>3

LEMMA AtIsNode ==
    ASSUME CrossingInv, phase \in CrossingPhases, at <= Len(graph.nodes)
    PROVE  at \in DOMAIN graph.nodes
<1>1. IsGraph(graph) /\ at \in Nat /\ at >= 1
  BY DEF CrossingInv, CrossingTypeOK, KeptInv
<1> QED
  BY <1>1, GraphParts

(* The integer program fails for neighbours with one remote end, the sort   *)
(* for entangled edges, and lone data never.                                *)
LEMMA CrossingPanics ==
    ASSUME CrossingInv, UndoInv, LoneDataInv, ShortInv, CrossingWork, phase' = "panic"
    PROVE  SharedRemote(before)' \/ Entangled'
<1>1. CASE OrderLayer
  <2>1. phase = "order" /\ (VariableMissing \/ SharedRemote(graph)) /\ CrossingPanic
    BY <1>1 DEF OrderLayer
  <2>2. SharedRemote(before)
    BY <2>1, ProgramPanics
  <2> QED
    BY <2>1, <2>2, BlameStays DEF CrossingPanic
<1>2. CASE PlaceLoneData
  <2>1. /\ phase = "lone" /\ at <= Len(graph.nodes) /\ IsLoneData(graph.nodes[at])
        /\ ~CanInsert(graph, at, Spot(at))
    BY <1>2 DEF PlaceLoneData
  <2>2. at \in DOMAIN graph.nodes
    BY <2>1, AtIsNode DEF CrossingPhases
  <2> QED
    BY <2>1, <2>2, LoneDataCanBePlaced
<1>3. CASE SortEdges
  <2>1. PICK rank : rank = Rank(graph)
    OBVIOUS
  <2>2. PICK in, out : /\ in = [e \in DOMAIN graph.edges |-> IncomingKey(rank, e)]
                       /\ out = [e \in DOMAIN graph.edges |-> OutgoingKey(rank, e)]
    OBVIOUS
  <2>3. /\ phase = "edges" /\ at <= Len(graph.nodes) /\ CrossingPanic
        /\ Unsortable(graph.nodes[at].incoming, in) \/ Unsortable(graph.nodes[at].outgoing, out)
    BY <1>3, <2>1, <2>2 DEF SortEdges
  <2>4. at \in DOMAIN graph.nodes
    BY <2>3, AtIsNode DEF CrossingPhases
  <2>5. Entangled
    BY <2>1, <2>2, <2>3, <2>4, SortPanics
  <2> QED
    BY <2>3, <2>5, BlameStays DEF CrossingPanic
<1>4. CASE Reroute \/ Undo
  BY <1>4 DEF Reroute, Undo
<1> QED
  BY <1>1, <1>2, <1>3, <1>4 DEF CrossingWork

LEMMA PanicsKnownStep ==
    ASSUME CrossingInv, UndoInv, LoneDataInv, ShortInv, PanicsAreKnown, [CrossingNext]_crossingVars
    PROVE  PanicsAreKnown'
<1> SUFFICES ASSUME phase' = "panic"
             PROVE  Cyclic(parsed)' \/ SharedRemote(before)' \/ Entangled'
  BY DEF PanicsAreKnown
<1>1. CASE LayOut
  <2>1. Work
    BY <1>1 DEF LayOut
  <2>2. phase \in Phases
    BY <2>1 DEF Work, SolveLayers, PlaceDataNode, SplitEdge, SortLanes, Phases
  <2>3. LayersInv
    BY <2>2 DEF CrossingInv, StartInv
  <2>4. LayersInv'
    BY <2>1, <2>3, LayersStep DEF Next
  <2> QED
    BY <2>4 DEF LayersInv, CyclesInv
<1>2. CASE CrossingWork
  BY <1>2, CrossingPanics
<1>3. CASE CrossingTerminated \/ UNCHANGED crossingVars
  <2>1. UNCHANGED <<phase, parsed, before, saved>>
    BY <1>3 DEF CrossingTerminated, crossingVars
  <2>2. Cyclic(parsed) \/ SharedRemote(before) \/ Entangled
    BY <2>1 DEF PanicsAreKnown
  <2>3. Cyclic(parsed) => Cyclic(parsed)'
    BY <2>1 DEF Cyclic
  <2> QED
    BY <2>1, <2>2, <2>3, BlameStays
<1> QED
  BY <1>1, <1>2, <1>3 DEF CrossingNext

-----------------------------------------------------------------------------
(* The theorems *)

LEMMA OutcomeStarts ==
    ASSUME CrossingInit
    PROVE  OutcomeInv
<1>1. CrossingInv
  BY CrossingStarts
<1>2. phase = "layers"
  BY DEF CrossingInit, Init
<1>3. phase \notin CrossingPhases
  BY <1>2 DEF CrossingPhases
<1> QED
  BY <1>1, <1>2, <1>3 DEF OutcomeInv, UndoInv, LoneDataInv, ShortInv, PanicsAreKnown

(* Every step keeps what the outcome rests on.                              *)
LEMMA OutcomeStep ==
    ASSUME OutcomeInv, [CrossingNext]_crossingVars
    PROVE  OutcomeInv'
<1>1. CrossingInv /\ UndoInv /\ LoneDataInv /\ ShortInv /\ PanicsAreKnown
  BY DEF OutcomeInv
<1>2. CrossingInv'
  BY <1>1, CrossingStep
<1>3. UndoInv'
  <2>1. CASE LayOut
    BY <1>1, <2>1, LayOutFits
  <2>2. CASE Reroute
    BY <1>1, <2>2, RerouteKeepsFit
  <2>3. CASE OrderLayer
    BY <1>1, <2>3, OrderLayerFits, NothingFits
  <2>4. CASE PlaceLoneData
    BY <1>1, <2>4, PlaceLoneDataFits, NothingFits
  <2>5. CASE Undo
    BY <1>1, <2>5, UndoKeepsFit
  <2>6. CASE SortEdges
    BY <1>1, <2>6, SortEdgesFits, NothingFits
  <2>7. CASE CrossingTerminated \/ UNCHANGED crossingVars
    <3>1. UNCHANGED crossingVars
      BY <2>7 DEF CrossingTerminated
    <3> QED
      BY <1>1, <3>1, NothingFits
  <2> QED
    BY <2>1, <2>2, <2>3, <2>4, <2>5, <2>6, <2>7 DEF CrossingNext, CrossingWork
<1>4. LoneDataInv'
  BY <1>1, LoneDataStep
<1>5. ShortInv'
  BY <1>1, ShortStep
<1>6. PanicsAreKnown'
  BY <1>1, PanicsKnownStep
<1> QED
  BY <1>2, <1>3, <1>4, <1>5, <1>6 DEF OutcomeInv

(* In every state the edges and their lists are what rerouting and undoing  *)
(* have made of them so far, and what is linked next to lone data on the    *)
(* side of its neighbour is the neighbour or other data put beside it, and  *)
(* what the integer program has to order is over one layer, whatever file   *)
(* is laid out.                                                             *)
THEOREM OutcomeInvariant == CrossingSpec => []OutcomeInv
<1>1. CrossingInit => OutcomeInv
  BY OutcomeStarts
<1>2. OutcomeInv /\ [CrossingNext]_crossingVars => OutcomeInv'
  BY OutcomeStep
<1> QED
  BY <1>1, <1>2, PTL DEF CrossingSpec

(* The undo gives back the edges and the lists if, and only if, no edge     *)
(* that is undone shares its end, right of layer 0, with one that is undone *)
(* later.                                                                   *)
LEMMA OutcomeOfUndo ==
    ASSUME OutcomeInv
    PROVE  OnlyEntangledEdgesAreLost
<1> SUFFICES ASSUME Done PROVE UndoRestores <=> ~Entangled
  BY DEF OnlyEntangledEdgesAreLost
<1>1. phase \in {"edges", "ports"} /\ phase \in CrossingPhases
  BY DEF Done, CrossingPhases
<1>2. InvAt(graph, before, phase, at, saved) /\ UndoAt(graph, before, phase, at, saved)
  BY <1>1, CrossingInvIn, UndoInvIn DEF OutcomeInv
<1>3. /\ IsGraph(graph) /\ IsGraph(before) /\ EndsExist(before)
      /\ DOMAIN before.nodes \subseteq DOMAIN graph.nodes
  BY <1>2, BeforeWithin
<1>4. Mirrored(before) /\ FinallyFits(graph, before, saved)
  BY <1>1, <1>2 DEF UndoAt
<1>5. ASSUME ~Entangled PROVE UndoRestores
  <2>1. ~EntangledIn(before, saved)
    BY <1>5 DEF Entangled, EntangledIn, HasLeftIn
  <2> QED
    BY <1>4, <2>1 DEF FinallyFits, UndoRestores
<1>6. ASSUME Entangled PROVE ~UndoRestores
  <2>1. PICK i, j \in DOMAIN saved :
           /\ i < j /\ before.nodes[saved[i].edge.to].layer > 0
           /\ saved[i].edge.to \in {saved[j].edge.from, saved[j].edge.to}
    BY <1>6 DEF Entangled
  <2>2. i \in WithLeftIn(before, saved)
    BY <2>1 DEF WithLeftIn, HasLeftIn
  <2>3. j \in LaterIn(saved, i)
    BY <2>1 DEF LaterIn
  <2>4. PICK id, to : id = saved[i].id /\ to = saved[i].edge.to
    OBVIOUS
  <2>5. Count(graph.nodes[to].incoming, id) = 0
    BY <1>4, <2>2, <2>3, <2>4 DEF FinallyFits
  <2>6. to \in DOMAIN before.nodes /\ Count(before.nodes[to].incoming, id) = 1
    <3>1. SavedFit(saved, before)
      BY <1>4 DEF FinallyFits
    <3> QED
      BY <1>3, <1>4, <2>4, <3>1, SavedEdgeFits
  <2>7. PICK in, old : in = graph.nodes[to].incoming /\ old = before.nodes[to].incoming
    OBVIOUS
  <2>8. in \in Seq(Nat) /\ old \in Seq(Nat)
    BY <1>3, <2>6, <2>7, NodeLists
  <2>9. ~SameBag(in, old)
    <3>1. SameBag(in, old) <=> \A x : Count(in, x) = Count(old, x)
      BY <2>8, BagsCount
    <3> QED
      BY <2>5, <2>6, <2>7, <3>1
  <2> QED
    BY <2>6, <2>7, <2>9 DEF UndoRestores
<1> QED
  BY <1>5, <1>6

(* Only entangled edges are lost, and they are: the undo works for a file   *)
(* if, and only if, it has none.                                            *)
THEOREM OnlyEntangledAreLost == CrossingSpec => []OnlyEntangledEdgesAreLost
<1>1. OutcomeInv => OnlyEntangledEdgesAreLost
  BY OutcomeOfUndo
<1> QED
  BY <1>1, OutcomeInvariant, PTL

(* A data node with one edge ends next to its neighbour: in its column, an  *)
(* input above and an output below it, with nothing but data of the same    *)
(* neighbour in between, whatever order the integer program chose.          *)
THEOREM LoneDataStaysBeside == CrossingSpec => []LoneDataBesideNeighbour
<1>1. OutcomeInv => LoneDataBesideNeighbour
  BY LoneDataIsBeside DEF OutcomeInv
<1> QED
  BY <1>1, OutcomeInvariant, PTL

(* The assertions, unwraps and indices of the layout up to the sorted lists  *)
(* fail for three kinds of files only: with sequence flows in a circle, with *)
(* neighbours that have one remote end, and with entangled edges. So lone    *)
(* data always finds a place, the integer program has all the variables it   *)
(* asks for, and all edges of a node can be sorted.                          *)
THEOREM PanicsKnown == CrossingSpec => []PanicsAreKnown
<1>1. OutcomeInv => PanicsAreKnown
  BY DEF OutcomeInv
<1> QED
  BY <1>1, OutcomeInvariant, PTL
=============================================================================
