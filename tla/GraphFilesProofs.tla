-------------------------- MODULE GraphFilesProofs --------------------------
(***************************************************************************)
(* Proofs about the graph store and its files, for any nodes, edges and    *)
(* branches.                                                               *)
(***************************************************************************)
EXTENDS GraphFiles, Induction, FiniteSetTheorems, TLAPS

-----------------------------------------------------------------------------
(* A bounded set of numbers has the maximum that Max chooses. *)
LEMMA BoundedMax ==
    ASSUME NEW S, S \subseteq Nat, S # {}, NEW b \in Nat, \A x \in S : x <= b
    PROVE  Max(S) \in S /\ \A x \in S : x <= Max(S)
  <1> DEFINE U == {u \in Nat : \A x \in S : x <= u}
  <1>1. U \subseteq Nat /\ b \in U
    OBVIOUS
  <1>2. PICK u \in U : \A v \in U : u <= v
    <2> HIDE DEF U
    <2> QED
      BY <1>1, NatLeast
  <1>3. u \in S
    <2> SUFFICES ASSUME u \notin S PROVE FALSE
      OBVIOUS
    <2>1. PICK x \in S : TRUE
      OBVIOUS
    <2>2. x <= u /\ x # u
      BY <1>2
    <2>3. u - 1 \in Nat
      BY <2>2, <1>2
    <2>4. \A y \in S : y <= u - 1
      BY <1>2
    <2> QED
      BY <2>3, <2>4, <1>2
  <1>4. \E m \in S : \A y \in S : m >= y
    BY <1>2, <1>3
  <1>5. Max(S) \in S /\ \A y \in S : Max(S) >= y
    BY <1>4 DEF Max
  <1> QED
    BY <1>5

-----------------------------------------------------------------------------
(* Lists of identifiers.                                                   *)

\* A list says exactly what the set says, each thing once.
Lists(q, ids) == q \in Seq(Nat) /\ ToSet(q) = ids /\ IsInjective(q)

LEMMA EmptyLists == Lists(<<>>, {})
  BY DEF Lists, ToSet, IsInjective

LEMMA AppendLists ==
    ASSUME NEW q, NEW ids, Lists(q, ids), NEW id \in Nat, id \notin ids
    PROVE  Lists(Append(q, id), ids \cup {id})
  <1> DEFINE r == Append(q, id)
             n == Len(q)
  <1>1. q \in Seq(Nat) /\ n \in Nat /\ DOMAIN q = 1 .. n
    BY DEF Lists
  <1>2. r \in Seq(Nat) /\ DOMAIN r = 1 .. n + 1 /\ r[n + 1] = id
    BY <1>1
  <1>3. \A i \in 1 .. n : r[i] = q[i]
    BY <1>1
  <1> HIDE DEF r, n
  <1>4. \A i \in 1 .. n : q[i] \in ids
    BY <1>1 DEF Lists, ToSet
  <1>5. ToSet(r) = ids \cup {id}
    <2>1. ASSUME NEW x \in ToSet(r) PROVE x \in ids \cup {id}
      <3>1. PICK i \in 1 .. n + 1 : r[i] = x
        BY <1>2, <2>1 DEF ToSet
      <3>2. CASE i = n + 1
        BY <3>1, <3>2, <1>2
      <3>3. CASE i # n + 1
        <4>1. i \in 1 .. n
          BY <3>3, <1>1
        <4> QED
          BY <4>1, <3>1, <1>3, <1>4
      <3> QED
        BY <3>2, <3>3
    <2>2. ASSUME NEW x \in ids PROVE x \in ToSet(r)
      <3>1. PICK i \in 1 .. n : q[i] = x
        BY <1>1 DEF Lists, ToSet
      <3>2. i \in DOMAIN r /\ r[i] = x
        BY <3>1, <1>1, <1>2, <1>3
      <3> QED
        BY <3>2 DEF ToSet
    <2>3. id \in ToSet(r)
      <3>1. n + 1 \in DOMAIN r
        BY <1>1, <1>2
      <3> QED
        BY <3>1, <1>2 DEF ToSet
    <2> QED
      BY <2>1, <2>2, <2>3
  <1>6. IsInjective(r)
    <2> SUFFICES ASSUME NEW a \in DOMAIN r, NEW b \in DOMAIN r, r[a] = r[b]
                 PROVE  a = b
      BY DEF IsInjective
    <2>1. CASE a \in 1 .. n /\ b \in 1 .. n
      BY <2>1, <1>1, <1>3 DEF Lists, IsInjective
    <2>2. CASE ~(a \in 1 .. n /\ b \in 1 .. n)
      BY <2>2, <1>1, <1>2, <1>3, <1>4
    <2> QED
      BY <2>1, <2>2
  <1> QED
    BY <1>2, <1>5, <1>6 DEF Lists, r

LEMMA PushLists ==
    ASSUME NEW index, NEW key, NEW id \in Nat, NEW k, NEW ids, Lists(At(index, k), ids), id \notin ids
    PROVE  Lists(At(Push(index, key, id), k), IF k = key THEN ids \cup {id} ELSE ids)
  <1>1. At(Push(index, key, id), k) = IF k = key THEN Append(At(index, k), id) ELSE At(index, k)
    BY DEF At, Push
  <1> QED
    BY <1>1, AppendLists

LEMMA PushAllLists ==
    ASSUME NEW index, NEW keys, IsInjective(keys), NEW id \in Nat, NEW k, NEW ids,
           Lists(At(index, k), ids), id \notin ids
    PROVE  Lists(At(PushAll(index, keys, id), k), IF k \in ToSet(keys) THEN ids \cup {id} ELSE ids)
  <1> DEFINE times == Cardinality({j \in DOMAIN keys : keys[j] = k})
             q == At(index, k)
             r == At(PushAll(index, keys, id), k)
  <1>1. q \in Seq(Nat)
    BY DEF Lists
  <1>2. CASE k \in ToSet(keys)
    <2>1. PICK j \in DOMAIN keys : keys[j] = k
      BY <1>2 DEF ToSet
    <2>2. {i \in DOMAIN keys : keys[i] = k} = {j}
      BY <2>1 DEF IsInjective
    <2>3. times = 1
      BY <2>2, FS_Singleton
    <2>4. r = q \o [i \in 1 .. times |-> id]
      BY <1>2 DEF PushAll, At
    <2>5. [i \in 1 .. times |-> id] = <<id>>
      BY <2>3
    <2>6. r = Append(q, id)
      <3> HIDE DEF r, q, times
      <3>1. r = q \o <<id>>
        BY <2>4, <2>5
      <3>2. q \o <<id>> = Append(q, id)
        BY <1>1
      <3> QED
        BY <3>1, <3>2
    <2> QED
      BY <2>6, <1>2, AppendLists
  <1>3. CASE k \notin ToSet(keys)
    <2>1. {i \in DOMAIN keys : keys[i] = k} = {}
      BY <1>3 DEF ToSet
    <2>2. times = 0
      BY <2>1, FS_EmptySet
    <2>3. [i \in 1 .. times |-> id] = <<>>
      <3>1. 1 .. times = {}
        BY <2>2
      <3>2. [i \in {} |-> id] = <<>>
        OBVIOUS
      <3> QED
        BY <3>1, <3>2
    <2>4. CASE k \in DOMAIN index
      <3>1. r = q \o [i \in 1 .. times |-> id]
        BY <2>4, <1>3 DEF PushAll, At
      <3>2. r = q
        <4> HIDE DEF r, q, times
        <4>1. r = q \o <<>>
          BY <3>1, <2>3
        <4>2. q \o <<>> = q
          BY <1>1
        <4> QED
          BY <4>1, <4>2
      <3> QED
        BY <3>2, <1>3
    <2>5. CASE k \notin DOMAIN index
      <3>1. r = q
        BY <2>5, <1>3 DEF PushAll, At
      <3> QED
        BY <3>1, <1>3
    <2> QED
      BY <2>4, <2>5
  <1> QED
    BY <1>2, <1>3

-----------------------------------------------------------------------------
(* A store whose indexes agree with its maps, and what entering a node or  *)
(* an edge does to it.                                                     *)

Ids == Nat \ {0}

Store(ns, es, ls, out, in, nn, ne) ==
    [nodes |-> ns, edges |-> es, labels |-> ls, out |-> out, in |-> in, nextNode |-> nn, nextEdge |-> ne]

IsStore(s) == s = Store(s.nodes, s.edges, s.labels, s.out, s.in, s.nextNode, s.nextEdge)

\* Identifiers lie below the next one; a node names each label once.
NodesBelow(ns, next) == next \in Ids /\ \A n \in DOMAIN ns : n \in Ids /\ n < next /\ IsInjective(ns[n].labels)
EdgesBelow(es, next) == next \in Ids /\ \A e \in DOMAIN es : e \in Ids /\ e < next

Labelled(ns, l) == {n \in DOMAIN ns : l \in ToSet(ns[n].labels)}
Leaving(es, n) == {e \in DOMAIN es : es[e].from = n}
Entering(es, n) == {e \in DOMAIN es : es[e].to = n}

LabelsAgree(s) == \A l : Lists(At(s.labels, l), Labelled(s.nodes, l))
EdgesAgree(s) ==
    \A n : Lists(At(s.out, n), Leaving(s.edges, n)) /\ Lists(At(s.in, n), Entering(s.edges, n))

StoreOK(s) ==
    /\ IsStore(s)
    /\ NodesBelow(s.nodes, s.nextNode) /\ EdgesBelow(s.edges, s.nextEdge)
    /\ LabelsAgree(s) /\ EdgesAgree(s)

LEMMA StoreAgrees == ASSUME NEW s, StoreOK(s) PROVE IndexesOf(s)
  BY DEF StoreOK, NodesBelow, EdgesBelow, LabelsAgree, EdgesAgree, Labelled, Leaving, Entering, Lists,
         IndexesOf, Exactly

LEMMA EmptyStoreOK == StoreOK(EmptyStore)
  <1> DEFINE s == EmptyStore
  <1>1. IsStore(s)
    BY DEF IsStore, Store, EmptyStore
  <1>2. DOMAIN s.nodes = {} /\ DOMAIN s.edges = {} /\ s.nextNode = 1 /\ s.nextEdge = 1
    BY DEF EmptyStore
  <1>3. \A k : At(s.labels, k) = <<>> /\ At(s.out, k) = <<>> /\ At(s.in, k) = <<>>
    BY DEF EmptyStore, At
  <1> HIDE DEF s
  <1>4. \A k : Labelled(s.nodes, k) = {} /\ Leaving(s.edges, k) = {} /\ Entering(s.edges, k) = {}
    BY <1>2 DEF Labelled, Leaving, Entering
  <1>5. LabelsAgree(s) /\ EdgesAgree(s)
    BY <1>3, <1>4, EmptyLists DEF LabelsAgree, EdgesAgree
  <1>6. NodesBelow(s.nodes, s.nextNode) /\ EdgesBelow(s.edges, s.nextEdge)
    BY <1>2 DEF NodesBelow, EdgesBelow, Ids
  <1>7. StoreOK(s)
    BY <1>1, <1>5, <1>6 DEF StoreOK
  <1> QED
    BY <1>7 DEF s

LEMMA InsertMap ==
    ASSUME NEW f, NEW id, NEW v, id \notin DOMAIN f
    PROVE  /\ DOMAIN Insert(f, id, v) = DOMAIN f \cup {id}
           /\ Insert(f, id, v)[id] = v
           /\ \A x \in DOMAIN f : Insert(f, id, v)[x] = f[x]
  BY DEF Insert

LEMMA PutNodeRecord ==
    ASSUME NEW ns, NEW es, NEW ls, NEW out, NEW in, NEW nn, NEW ne, NEW id, NEW n,
           NEW s, s = Store(ns, es, ls, out, in, nn, ne)
    PROVE  PutNode(s, id, n) =
             Store(Insert(ns, id, n), es, PushAll(ls, n.labels, id), out, in,
                   IF id >= nn THEN id + 1 ELSE nn, ne)
  <1> DEFINE v1 == Insert(ns, id, n)
             v2 == PushAll(ls, n.labels, id)
             v3 == IF id >= nn THEN id + 1 ELSE nn
             s1 == [s EXCEPT !.nodes = v1]
             s2 == [s1 EXCEPT !.labels = v2]
             s3 == [s2 EXCEPT !.nextNode = v3]
  <1> HIDE DEF v1, v2, v3
  <1>0. s.nodes = ns /\ s.labels = ls /\ s.nextNode = nn
    BY DEF Store
  <1>1. s1 = Store(v1, es, ls, out, in, nn, ne)
    BY DEF Store
  <1>2. s1.labels = ls
    BY <1>1 DEF Store
  <1> HIDE DEF s1
  <1>3. s2 = Store(v1, es, v2, out, in, nn, ne)
    BY <1>1 DEF Store
  <1>4. s2.nextNode = nn
    BY <1>3 DEF Store
  <1> HIDE DEF s2
  <1>5. s3 = Store(v1, es, v2, out, in, v3, ne)
    BY <1>3 DEF Store
  <1> HIDE DEF s3
  <1>6. PutNode(s, id, n) = s3
    BY <1>0, <1>2, <1>4, Zenon DEF PutNode, s1, v1, s2, v2, s3, v3
  <1> QED
    BY <1>5, <1>6 DEF v1, v2, v3

LEMMA PutEdgeRecord ==
    ASSUME NEW ns, NEW es, NEW ls, NEW out, NEW in, NEW nn, NEW ne, NEW id, NEW e,
           NEW s, s = Store(ns, es, ls, out, in, nn, ne)
    PROVE  PutEdge(s, id, e) =
             Store(ns, Insert(es, id, e), ls, Push(out, e.from, id), Push(in, e.to, id),
                   nn, IF id >= ne THEN id + 1 ELSE ne)
  <1> DEFINE v1 == Insert(es, id, e)
             v2 == Push(out, e.from, id)
             v3 == Push(in, e.to, id)
             v4 == IF id >= ne THEN id + 1 ELSE ne
             s1 == [s EXCEPT !.edges = v1]
             s2 == [s1 EXCEPT !.out = v2]
             s3 == [s2 EXCEPT !.in = v3]
             s4 == [s3 EXCEPT !.nextEdge = v4]
  <1> HIDE DEF v1, v2, v3, v4
  <1>0. s.edges = es /\ s.out = out /\ s.in = in /\ s.nextEdge = ne
    BY DEF Store
  <1>1. s1 = Store(ns, v1, ls, out, in, nn, ne)
    BY DEF Store
  <1>2. s1.out = out
    BY <1>1 DEF Store
  <1> HIDE DEF s1
  <1>3. s2 = Store(ns, v1, ls, v2, in, nn, ne)
    BY <1>1 DEF Store
  <1>4. s2.in = in
    BY <1>3 DEF Store
  <1> HIDE DEF s2
  <1>5. s3 = Store(ns, v1, ls, v2, v3, nn, ne)
    BY <1>3 DEF Store
  <1>6. s3.nextEdge = ne
    BY <1>5 DEF Store
  <1> HIDE DEF s3
  <1>7. s4 = Store(ns, v1, ls, v2, v3, nn, v4)
    BY <1>5 DEF Store
  <1> HIDE DEF s4
  <1>8. PutEdge(s, id, e) = s4
    BY <1>0, <1>2, <1>4, <1>6, Zenon DEF PutEdge, s1, v1, s2, v2, s3, v3, s4, v4
  <1> QED
    BY <1>7, <1>8 DEF v1, v2, v3, v4

LEMMA PutNodeParts ==
    ASSUME NEW s, IsStore(s), NEW id, NEW n
    PROVE  LET t == PutNode(s, id, n)
           IN  /\ IsStore(t)
               /\ t.nodes = Insert(s.nodes, id, n)
               /\ t.labels = PushAll(s.labels, n.labels, id)
               /\ t.nextNode = IF id >= s.nextNode THEN id + 1 ELSE s.nextNode
               /\ t.edges = s.edges /\ t.out = s.out /\ t.in = s.in /\ t.nextEdge = s.nextEdge
  <1>1. PutNode(s, id, n) =
          Store(Insert(s.nodes, id, n), s.edges, PushAll(s.labels, n.labels, id), s.out, s.in,
                IF id >= s.nextNode THEN id + 1 ELSE s.nextNode, s.nextEdge)
    BY PutNodeRecord DEF IsStore
  <1> QED
    BY <1>1 DEF IsStore, Store

LEMMA PutEdgeParts ==
    ASSUME NEW s, IsStore(s), NEW id, NEW e
    PROVE  LET t == PutEdge(s, id, e)
           IN  /\ IsStore(t)
               /\ t.edges = Insert(s.edges, id, e)
               /\ t.out = Push(s.out, e.from, id)
               /\ t.in = Push(s.in, e.to, id)
               /\ t.nextEdge = IF id >= s.nextEdge THEN id + 1 ELSE s.nextEdge
               /\ t.nodes = s.nodes /\ t.labels = s.labels /\ t.nextNode = s.nextNode
  <1>1. PutEdge(s, id, e) =
          Store(s.nodes, Insert(s.edges, id, e), s.labels, Push(s.out, e.from, id), Push(s.in, e.to, id),
                s.nextNode, IF id >= s.nextEdge THEN id + 1 ELSE s.nextEdge)
    BY PutEdgeRecord DEF IsStore
  <1> QED
    BY <1>1 DEF IsStore, Store

LEMMA PutNodeOK ==
    ASSUME NEW s, StoreOK(s), NEW id \in Ids, id \notin DOMAIN s.nodes, NEW n, IsInjective(n.labels)
    PROVE  StoreOK(PutNode(s, id, n))
  <1> DEFINE t == PutNode(s, id, n)
  <1>0. IsStore(s) /\ id \in Nat
    BY DEF StoreOK, Ids
  <1>1. /\ IsStore(t) /\ t.nodes = Insert(s.nodes, id, n) /\ t.labels = PushAll(s.labels, n.labels, id)
        /\ t.nextNode = IF id >= s.nextNode THEN id + 1 ELSE s.nextNode
        /\ t.edges = s.edges /\ t.out = s.out /\ t.in = s.in /\ t.nextEdge = s.nextEdge
    BY <1>0, PutNodeParts
  <1> HIDE DEF t
  <1>2. /\ DOMAIN t.nodes = DOMAIN s.nodes \cup {id} /\ t.nodes[id] = n
        /\ \A x \in DOMAIN s.nodes : t.nodes[x] = s.nodes[x]
    BY <1>1 DEF Insert
  <1>3. NodesBelow(t.nodes, t.nextNode)
    BY <1>1, <1>2, <1>0 DEF StoreOK, NodesBelow, Ids
  <1>4. LabelsAgree(t)
    <2> SUFFICES ASSUME NEW l PROVE Lists(At(t.labels, l), Labelled(t.nodes, l))
      BY DEF LabelsAgree
    <2>1. Lists(At(s.labels, l), Labelled(s.nodes, l)) /\ id \notin Labelled(s.nodes, l)
      BY DEF StoreOK, LabelsAgree, Labelled
    <2>2. Labelled(t.nodes, l) = IF l \in ToSet(n.labels) THEN Labelled(s.nodes, l) \cup {id}
                                                          ELSE Labelled(s.nodes, l)
      BY <1>2 DEF Labelled
    <2> QED
      BY <2>1, <2>2, <1>0, <1>1, PushAllLists
  <1>5. EdgesAgree(t) /\ EdgesBelow(t.edges, t.nextEdge)
    BY <1>1 DEF EdgesAgree, EdgesBelow, StoreOK
  <1>6. StoreOK(t)
    BY <1>1, <1>3, <1>4, <1>5 DEF StoreOK
  <1> QED
    BY <1>6 DEF t

LEMMA PutEdgeOK ==
    ASSUME NEW s, StoreOK(s), NEW id \in Ids, id \notin DOMAIN s.edges, NEW e
    PROVE  StoreOK(PutEdge(s, id, e))
  <1> DEFINE t == PutEdge(s, id, e)
  <1>0. IsStore(s) /\ id \in Nat
    BY DEF StoreOK, Ids
  <1>1. /\ IsStore(t) /\ t.edges = Insert(s.edges, id, e)
        /\ t.out = Push(s.out, e.from, id) /\ t.in = Push(s.in, e.to, id)
        /\ t.nextEdge = IF id >= s.nextEdge THEN id + 1 ELSE s.nextEdge
        /\ t.nodes = s.nodes /\ t.labels = s.labels /\ t.nextNode = s.nextNode
    BY <1>0, PutEdgeParts
  <1> HIDE DEF t
  <1>2. /\ DOMAIN t.edges = DOMAIN s.edges \cup {id} /\ t.edges[id] = e
        /\ \A x \in DOMAIN s.edges : t.edges[x] = s.edges[x]
    BY <1>1 DEF Insert
  <1>3. EdgesBelow(t.edges, t.nextEdge)
    BY <1>1, <1>2, <1>0 DEF StoreOK, EdgesBelow, Ids
  <1>4. EdgesAgree(t)
    <2> SUFFICES ASSUME NEW k
                 PROVE  Lists(At(t.out, k), Leaving(t.edges, k)) /\ Lists(At(t.in, k), Entering(t.edges, k))
      BY DEF EdgesAgree
    <2>1. /\ Lists(At(s.out, k), Leaving(s.edges, k)) /\ id \notin Leaving(s.edges, k)
          /\ Lists(At(s.in, k), Entering(s.edges, k)) /\ id \notin Entering(s.edges, k)
      BY DEF StoreOK, EdgesAgree, Leaving, Entering
    <2>2. /\ Leaving(t.edges, k) = IF k = e.from THEN Leaving(s.edges, k) \cup {id} ELSE Leaving(s.edges, k)
          /\ Entering(t.edges, k) = IF k = e.to THEN Entering(s.edges, k) \cup {id} ELSE Entering(s.edges, k)
      BY <1>2 DEF Leaving, Entering
    <2> QED
      BY <2>1, <2>2, <1>0, <1>1, PushLists
  <1>5. LabelsAgree(t) /\ NodesBelow(t.nodes, t.nextNode)
    BY <1>1 DEF LabelsAgree, NodesBelow, StoreOK
  <1>6. StoreOK(t)
    BY <1>1, <1>3, <1>4, <1>5 DEF StoreOK
  <1> QED
    BY <1>6 DEF t

-----------------------------------------------------------------------------
(* Reading a segment.                                                      *)

\* Reading the nodes of a segment is a sequence of steps: the store after each.
LEMMA LoadNodesLoop ==
    ASSUME NEW s, NEW ns, NEW next, NodesBelow(ns, next)
    PROVE  \E read : \E top \in Nat :
             /\ read[0] = s
             /\ \A k \in 1 .. top :
                  read[k] = IF k \in DOMAIN ns THEN PutNode(read[k - 1], k, ns[k]) ELSE read[k - 1]
             /\ LoadNodes(s, ns) = read[top]
             /\ \A x \in DOMAIN ns : x <= top
  <1> DEFINE Step(g, k) ==
               IF k = 0 THEN s ELSE IF k \in DOMAIN ns THEN PutNode(g[k - 1], k, ns[k]) ELSE g[k - 1]
             Good(n, g) == g = [k \in 0 .. n |-> Step(g, k)]
             S == {n \in Nat : \E g : Good(n, g)}
             top == Max(DOMAIN ns \cup {0})
             read == CHOOSE g : g = [k \in 0 .. top |-> Step(g, k)]
  <1>1. top \in Nat /\ \A x \in DOMAIN ns : x <= top
    <2> DEFINE D == DOMAIN ns \cup {0}
    <2>1. D \subseteq Nat /\ D # {} /\ next \in Nat /\ \A x \in D : x <= next
      BY DEF NodesBelow, Ids
    <2>2. DOMAIN ns \subseteq D
      OBVIOUS
    <2>3. Max(D) \in D /\ \A x \in D : x <= Max(D)
      <3> HIDE DEF D
      <3> QED
        BY <2>1, BoundedMax
    <2> HIDE DEF D
    <2>4. top = Max(D)
      BY DEF D
    <2> QED
      BY <2>1, <2>2, <2>3, <2>4
  <1> HIDE DEF top
  <1>2. Nat \subseteq S
    <2>1. 0 \in S
      <3> DEFINE g == [k \in {0} |-> s]
      <3>1. 0 .. 0 = {0}
        OBVIOUS
      <3>2. Good(0, g)
        BY <3>1
      <3> QED
        BY <3>2
    <2>2. ASSUME NEW n \in Nat, n \in S PROVE n + 1 \in S
      <3>1. PICK g : Good(n, g)
        BY <2>2
      <3> DEFINE h == [k \in 0 .. n + 1 |-> Step(g, k)]
      <3>2. \A k \in 0 .. n : g[k] = Step(g, k)
        BY <3>1
      <3> HIDE DEF Step
      <3>3. \A k \in 0 .. n : h[k] = g[k]
        BY <3>2
      <3>4. \A k \in 0 .. n + 1 : Step(h, k) = Step(g, k)
        <4> SUFFICES ASSUME NEW k \in 0 .. n + 1 PROVE Step(h, k) = Step(g, k)
          OBVIOUS
        <4>1. CASE k = 0
          BY <4>1 DEF Step
        <4>2. CASE k # 0
          <5>1. k - 1 \in 0 .. n
            BY <4>2
          <5>2. h[k - 1] = g[k - 1]
            BY <5>1, <3>3
          <5> HIDE DEF h
          <5> QED
            BY <5>2, <4>2 DEF Step
        <4> QED
          BY <4>1, <4>2
      <3>5. Good(n + 1, h)
        BY <3>4
      <3>6. n + 1 \in Nat
        OBVIOUS
      <3> HIDE DEF h, Good
      <3> QED
        BY <3>5, <3>6
    <2> HIDE DEF S
    <2> QED
      BY <2>1, <2>2, NatBySteps
  <1>3. read = [k \in 0 .. top |-> Step(read, k)]
    <2>1. \E g : g = [k \in 0 .. top |-> Step(g, k)]
      BY <1>1, <1>2
    <2> HIDE DEF Step
    <2> QED
      BY <2>1
  <1>4. LoadNodes(s, ns) = read[top]
    BY DEF LoadNodes, top
  <1> HIDE DEF read
  <1>5. \A k \in 0 .. top : read[k] = Step(read, k)
    <2> HIDE DEF Step
    <2> QED
      BY <1>3
  <1>6. read[0] = s
    BY <1>1, <1>5
  <1>7. \A k \in 1 .. top :
          read[k] = IF k \in DOMAIN ns THEN PutNode(read[k - 1], k, ns[k]) ELSE read[k - 1]
    BY <1>1, <1>5
  <1> QED
    BY <1>1, <1>4, <1>6, <1>7

\* Reading the nodes of a segment adds them, as they are, and keeps the indexes in step.
LEMMA LoadNodesOK ==
    ASSUME NEW s, StoreOK(s), NEW ns, NEW next, NodesBelow(ns, next), DOMAIN ns \cap DOMAIN s.nodes = {}
    PROVE  LET t == LoadNodes(s, ns)
           IN  /\ StoreOK(t)
               /\ DOMAIN t.nodes = DOMAIN s.nodes \cup DOMAIN ns
               /\ \A x \in DOMAIN s.nodes : t.nodes[x] = s.nodes[x]
               /\ \A x \in DOMAIN ns : t.nodes[x] = ns[x]
               /\ t.edges = s.edges /\ t.nextEdge = s.nextEdge
  <1>0. PICK read : \E top \in Nat :
             /\ read[0] = s
             /\ \A k \in 1 .. top :
                  read[k] = IF k \in DOMAIN ns THEN PutNode(read[k - 1], k, ns[k]) ELSE read[k - 1]
             /\ LoadNodes(s, ns) = read[top]
             /\ \A x \in DOMAIN ns : x <= top
    BY LoadNodesLoop
  <1>1. PICK top \in Nat :
             /\ read[0] = s
             /\ \A k \in 1 .. top :
                  read[k] = IF k \in DOMAIN ns THEN PutNode(read[k - 1], k, ns[k]) ELSE read[k - 1]
             /\ LoadNodes(s, ns) = read[top]
             /\ \A x \in DOMAIN ns : x <= top
    BY <1>0
  <1> DEFINE Upto(k) == {x \in DOMAIN ns : x <= k}
             Has(t, k) ==
               /\ StoreOK(t)
               /\ DOMAIN t.nodes = DOMAIN s.nodes \cup Upto(k)
               /\ \A x \in DOMAIN s.nodes : t.nodes[x] = s.nodes[x]
               /\ \A x \in Upto(k) : t.nodes[x] = ns[x]
               /\ t.edges = s.edges /\ t.nextEdge = s.nextEdge
             S == {k \in Nat : k <= top => Has(read[k], k)}
  <1>2. DOMAIN ns \subseteq Ids
    BY DEF NodesBelow
  <1>3. 0 \in S
    <2>1. Upto(0) = {}
      BY <1>2 DEF Ids
    <2>2. Has(s, 0)
      BY <2>1
    <2> HIDE DEF Has
    <2> QED
      BY <2>2, <1>1
  <1>4. ASSUME NEW n \in Nat, n \in S PROVE n + 1 \in S
    <2> DEFINE k == n + 1
               g == read[n]
    <2> SUFFICES ASSUME k <= top PROVE Has(read[k], k)
      OBVIOUS
    <2>1. Has(g, n)
      <3> HIDE DEF Has
      <3> QED
        BY <1>4
    <2>2. k \in 1 .. top /\ k - 1 = n
      BY <1>1
    <2>3. read[k] = IF k \in DOMAIN ns THEN PutNode(g, k, ns[k]) ELSE g
      BY <1>1, <2>2
    <2> HIDE DEF g
    <2>4. CASE k \notin DOMAIN ns
      <3>1. Upto(k) = Upto(n)
        BY <2>4, <1>2 DEF Ids
      <3>2. read[k] = g
        BY <2>3, <2>4
      <3> HIDE DEF k, Upto
      <3> QED
        BY <3>1, <3>2, <2>1
    <2>5. CASE k \in DOMAIN ns
      <3> DEFINE t == PutNode(g, k, ns[k])
      <3>1. Upto(k) = Upto(n) \cup {k} /\ k \notin Upto(n)
        BY <2>5, <1>2 DEF Ids
      <3>2. k \in Ids /\ k \notin DOMAIN s.nodes /\ IsInjective(ns[k].labels)
        BY <2>5 DEF NodesBelow
      <3>3. k \notin DOMAIN g.nodes /\ StoreOK(g) /\ IsStore(g)
        BY <2>1, <3>1, <3>2 DEF StoreOK
      <3>4. read[k] = t
        BY <2>3, <2>5
      <3> HIDE DEF k
      <3>5. StoreOK(t)
        BY <3>2, <3>3, PutNodeOK
      <3>6. t.nodes = Insert(g.nodes, k, ns[k]) /\ t.edges = g.edges /\ t.nextEdge = g.nextEdge
        BY <3>3, PutNodeParts
      <3> HIDE DEF t, Upto
      <3>7. /\ DOMAIN t.nodes = DOMAIN g.nodes \cup {k} /\ t.nodes[k] = ns[k]
            /\ \A x \in DOMAIN g.nodes : t.nodes[x] = g.nodes[x]
        BY <3>6, <3>3 DEF Insert
      <3>8. Has(t, k)
        BY <3>1, <3>3, <3>5, <3>6, <3>7, <2>1
      <3> QED
        BY <3>4, <3>8
    <2> QED
      BY <2>4, <2>5
  <1>5. Nat \subseteq S
    <2> HIDE DEF S
    <2> QED
      BY <1>3, <1>4, NatBySteps
  <1>6. Has(read[top], top)
    <2> HIDE DEF Has
    <2> QED
      BY <1>5, <1>1
  <1>7. Upto(top) = DOMAIN ns
    BY <1>1
  <1> HIDE DEF Upto
  <1> QED
    BY <1>1, <1>6, <1>7

\* Reading the edges of a segment is a sequence of steps: the store after each.
LEMMA LoadEdgesLoop ==
    ASSUME NEW s, NEW es, NEW next, EdgesBelow(es, next)
    PROVE  \E read : \E top \in Nat :
             /\ read[0] = s
             /\ \A k \in 1 .. top :
                  read[k] = IF k \in DOMAIN es THEN PutEdge(read[k - 1], k, es[k]) ELSE read[k - 1]
             /\ LoadEdges(s, es) = read[top]
             /\ \A x \in DOMAIN es : x <= top
  <1> DEFINE Step(g, k) ==
               IF k = 0 THEN s ELSE IF k \in DOMAIN es THEN PutEdge(g[k - 1], k, es[k]) ELSE g[k - 1]
             Good(n, g) == g = [k \in 0 .. n |-> Step(g, k)]
             S == {n \in Nat : \E g : Good(n, g)}
             top == Max(DOMAIN es \cup {0})
             read == CHOOSE g : g = [k \in 0 .. top |-> Step(g, k)]
  <1>1. top \in Nat /\ \A x \in DOMAIN es : x <= top
    <2> DEFINE D == DOMAIN es \cup {0}
    <2>1. D \subseteq Nat /\ D # {} /\ next \in Nat /\ \A x \in D : x <= next
      BY DEF EdgesBelow, Ids
    <2>2. DOMAIN es \subseteq D
      OBVIOUS
    <2>3. Max(D) \in D /\ \A x \in D : x <= Max(D)
      <3> HIDE DEF D
      <3> QED
        BY <2>1, BoundedMax
    <2> HIDE DEF D
    <2>4. top = Max(D)
      BY DEF D
    <2> QED
      BY <2>1, <2>2, <2>3, <2>4
  <1> HIDE DEF top
  <1>2. Nat \subseteq S
    <2>1. 0 \in S
      <3> DEFINE g == [k \in {0} |-> s]
      <3>1. 0 .. 0 = {0}
        OBVIOUS
      <3>2. Good(0, g)
        BY <3>1
      <3> QED
        BY <3>2
    <2>2. ASSUME NEW n \in Nat, n \in S PROVE n + 1 \in S
      <3>1. PICK g : Good(n, g)
        BY <2>2
      <3> DEFINE h == [k \in 0 .. n + 1 |-> Step(g, k)]
      <3>2. \A k \in 0 .. n : g[k] = Step(g, k)
        BY <3>1
      <3> HIDE DEF Step
      <3>3. \A k \in 0 .. n : h[k] = g[k]
        BY <3>2
      <3>4. \A k \in 0 .. n + 1 : Step(h, k) = Step(g, k)
        <4> SUFFICES ASSUME NEW k \in 0 .. n + 1 PROVE Step(h, k) = Step(g, k)
          OBVIOUS
        <4>1. CASE k = 0
          BY <4>1 DEF Step
        <4>2. CASE k # 0
          <5>1. k - 1 \in 0 .. n
            BY <4>2
          <5>2. h[k - 1] = g[k - 1]
            BY <5>1, <3>3
          <5> HIDE DEF h
          <5> QED
            BY <5>2, <4>2 DEF Step
        <4> QED
          BY <4>1, <4>2
      <3>5. Good(n + 1, h)
        BY <3>4
      <3>6. n + 1 \in Nat
        OBVIOUS
      <3> HIDE DEF h, Good
      <3> QED
        BY <3>5, <3>6
    <2> HIDE DEF S
    <2> QED
      BY <2>1, <2>2, NatBySteps
  <1>3. read = [k \in 0 .. top |-> Step(read, k)]
    <2>1. \E g : g = [k \in 0 .. top |-> Step(g, k)]
      BY <1>1, <1>2
    <2> HIDE DEF Step
    <2> QED
      BY <2>1
  <1>4. LoadEdges(s, es) = read[top]
    BY DEF LoadEdges, top
  <1> HIDE DEF read
  <1>5. \A k \in 0 .. top : read[k] = Step(read, k)
    <2> HIDE DEF Step
    <2> QED
      BY <1>3
  <1>6. read[0] = s
    BY <1>1, <1>5
  <1>7. \A k \in 1 .. top :
          read[k] = IF k \in DOMAIN es THEN PutEdge(read[k - 1], k, es[k]) ELSE read[k - 1]
    BY <1>1, <1>5
  <1> QED
    BY <1>1, <1>4, <1>6, <1>7

\* Reading the edges of a segment adds them, as they are, and keeps the indexes in step.
LEMMA LoadEdgesOK ==
    ASSUME NEW s, StoreOK(s), NEW es, NEW next, EdgesBelow(es, next), DOMAIN es \cap DOMAIN s.edges = {}
    PROVE  LET t == LoadEdges(s, es)
           IN  /\ StoreOK(t)
               /\ DOMAIN t.edges = DOMAIN s.edges \cup DOMAIN es
               /\ \A x \in DOMAIN s.edges : t.edges[x] = s.edges[x]
               /\ \A x \in DOMAIN es : t.edges[x] = es[x]
               /\ t.nodes = s.nodes /\ t.nextNode = s.nextNode
  <1>0. PICK read : \E top \in Nat :
             /\ read[0] = s
             /\ \A k \in 1 .. top :
                  read[k] = IF k \in DOMAIN es THEN PutEdge(read[k - 1], k, es[k]) ELSE read[k - 1]
             /\ LoadEdges(s, es) = read[top]
             /\ \A x \in DOMAIN es : x <= top
    BY LoadEdgesLoop
  <1>1. PICK top \in Nat :
             /\ read[0] = s
             /\ \A k \in 1 .. top :
                  read[k] = IF k \in DOMAIN es THEN PutEdge(read[k - 1], k, es[k]) ELSE read[k - 1]
             /\ LoadEdges(s, es) = read[top]
             /\ \A x \in DOMAIN es : x <= top
    BY <1>0
  <1> DEFINE Upto(k) == {x \in DOMAIN es : x <= k}
             Has(t, k) ==
               /\ StoreOK(t)
               /\ DOMAIN t.edges = DOMAIN s.edges \cup Upto(k)
               /\ \A x \in DOMAIN s.edges : t.edges[x] = s.edges[x]
               /\ \A x \in Upto(k) : t.edges[x] = es[x]
               /\ t.nodes = s.nodes /\ t.nextNode = s.nextNode
             S == {k \in Nat : k <= top => Has(read[k], k)}
  <1>2. DOMAIN es \subseteq Ids
    BY DEF EdgesBelow
  <1>3. 0 \in S
    <2>1. Upto(0) = {}
      BY <1>2 DEF Ids
    <2>2. Has(s, 0)
      BY <2>1
    <2> HIDE DEF Has
    <2> QED
      BY <2>2, <1>1
  <1>4. ASSUME NEW n \in Nat, n \in S PROVE n + 1 \in S
    <2> DEFINE k == n + 1
               g == read[n]
    <2> SUFFICES ASSUME k <= top PROVE Has(read[k], k)
      OBVIOUS
    <2>1. Has(g, n)
      <3> HIDE DEF Has
      <3> QED
        BY <1>4
    <2>2. k \in 1 .. top /\ k - 1 = n
      BY <1>1
    <2>3. read[k] = IF k \in DOMAIN es THEN PutEdge(g, k, es[k]) ELSE g
      BY <1>1, <2>2
    <2> HIDE DEF g
    <2>4. CASE k \notin DOMAIN es
      <3>1. Upto(k) = Upto(n)
        BY <2>4, <1>2 DEF Ids
      <3>2. read[k] = g
        BY <2>3, <2>4
      <3> HIDE DEF k, Upto
      <3> QED
        BY <3>1, <3>2, <2>1
    <2>5. CASE k \in DOMAIN es
      <3> DEFINE t == PutEdge(g, k, es[k])
      <3>1. Upto(k) = Upto(n) \cup {k} /\ k \notin Upto(n)
        BY <2>5, <1>2 DEF Ids
      <3>2. k \in Ids /\ k \notin DOMAIN s.edges
        BY <2>5 DEF EdgesBelow
      <3>3. k \notin DOMAIN g.edges /\ StoreOK(g) /\ IsStore(g)
        BY <2>1, <3>1, <3>2 DEF StoreOK
      <3>4. read[k] = t
        BY <2>3, <2>5
      <3> HIDE DEF k
      <3>5. StoreOK(t)
        BY <3>2, <3>3, PutEdgeOK
      <3>6. t.edges = Insert(g.edges, k, es[k]) /\ t.nodes = g.nodes /\ t.nextNode = g.nextNode
        BY <3>3, PutEdgeParts
      <3> HIDE DEF t, Upto
      <3>7. /\ DOMAIN t.edges = DOMAIN g.edges \cup {k} /\ t.edges[k] = es[k]
            /\ \A x \in DOMAIN g.edges : t.edges[x] = g.edges[x]
        BY <3>6, <3>3 DEF Insert
      <3>8. Has(t, k)
        BY <3>1, <3>3, <3>5, <3>6, <3>7, <2>1
      <3> QED
        BY <3>4, <3>8
    <2> QED
      BY <2>4, <2>5
  <1>5. Nat \subseteq S
    <2> HIDE DEF S
    <2> QED
      BY <1>3, <1>4, NatBySteps
  <1>6. Has(read[top], top)
    <2> HIDE DEF Has
    <2> QED
      BY <1>5, <1>1
  <1>7. Upto(top) = DOMAIN es
    BY <1>1
  <1> HIDE DEF Upto
  <1> QED
    BY <1>1, <1>6, <1>7

-----------------------------------------------------------------------------
(* What a write does to a store.                                           *)

Inside(es, ns) == \A e \in DOMAIN es : {es[e].from, es[e].to} \subseteq DOMAIN ns

\* t has what s has, indexes in step; and no loose edge unless s had one.
Grows(s, t) ==
    /\ StoreOK(t)
    /\ Covers(t.nodes, s.nodes) /\ Covers(t.edges, s.edges)
    /\ Inside(s.edges, s.nodes) => Inside(t.edges, t.nodes)

LEMMA SaveGrows ==
    ASSUME NEW s, StoreOK(s), NEW n \in NodeKinds
    PROVE  Grows(s, AddNode(s, n.labels, n.props))
  <1> DEFINE v == [labels |-> n.labels, props |-> n.props]
             id == s.nextNode
             t == PutNode(s, id, v)
  <1>1. IsStore(s) /\ id \in Ids /\ id \notin DOMAIN s.nodes
    BY DEF StoreOK, NodesBelow, Ids
  <1>2. IsInjective(v.labels)
    BY KindsAssumption
  <1> HIDE DEF v, id
  <1>3. StoreOK(t)
    BY <1>1, <1>2, PutNodeOK
  <1>4. t.nodes = Insert(s.nodes, id, v) /\ t.edges = s.edges
    BY <1>1, PutNodeParts
  <1> HIDE DEF t
  <1>5. DOMAIN t.nodes = DOMAIN s.nodes \cup {id} /\ \A x \in DOMAIN s.nodes : t.nodes[x] = s.nodes[x]
    BY <1>1, <1>4 DEF Insert
  <1>6. Grows(s, t)
    BY <1>3, <1>4, <1>5 DEF Grows, Covers, Inside
  <1> QED
    BY <1>6 DEF t, id, v, AddNode

LEMMA LinkGrows ==
    ASSUME NEW s, StoreOK(s), NEW from \in DOMAIN s.nodes, NEW to \in DOMAIN s.nodes, NEW type, NEW props
    PROVE  Grows(s, AddEdge(s, from, to, type, props))
  <1> DEFINE v == [from |-> from, to |-> to, type |-> type, props |-> props]
             id == s.nextEdge
             t == PutEdge(s, id, v)
  <1>1. IsStore(s) /\ id \in Ids /\ id \notin DOMAIN s.edges
    BY DEF StoreOK, EdgesBelow, Ids
  <1>2. v.from = from /\ v.to = to
    OBVIOUS
  <1> HIDE DEF v, id
  <1>3. StoreOK(t)
    BY <1>1, PutEdgeOK
  <1>4. t.edges = Insert(s.edges, id, v) /\ t.nodes = s.nodes
    BY <1>1, PutEdgeParts
  <1> HIDE DEF t
  <1>5. /\ DOMAIN t.edges = DOMAIN s.edges \cup {id} /\ t.edges[id] = v
        /\ \A x \in DOMAIN s.edges : t.edges[x] = s.edges[x]
    BY <1>1, <1>4 DEF Insert
  <1>6. Grows(s, t)
    BY <1>2, <1>3, <1>4, <1>5 DEF Grows, Covers, Inside
  <1> QED
    BY <1>6 DEF t, id, v, AddEdge

LEMMA CreatesGrows ==
    ASSUME NEW s, StoreOK(s), NEW t, Creates(s, t)
    PROVE  Grows(s, t)
  <1> DEFINE ns == Added(s.nodes, t.nodes)
             es == Added(s.edges, t.edges)
             m == LoadNodes(s, ns)
             nn == s.nextNode + t.nextNode
             ne == s.nextEdge + t.nextEdge
  <1>1. /\ t.nextNode \in Nat /\ t.nextEdge \in Nat
        /\ DOMAIN ns = s.nextNode .. t.nextNode - 1
        /\ DOMAIN es = s.nextEdge .. t.nextEdge - 1
        /\ \A n \in DOMAIN ns : DOMAIN ns[n].labels \subseteq {1}
        /\ \A e \in DOMAIN es : {es[e].from, es[e].to} \subseteq DOMAIN t.nodes
        /\ t = LoadEdges(m, es)
    BY DEF Creates
  <1>2. DOMAIN ns \cap DOMAIN s.nodes = {} /\ DOMAIN es \cap DOMAIN s.edges = {}
    BY DEF Added
  <1>3. s.nextNode \in Ids /\ s.nextEdge \in Ids
    BY DEF StoreOK, NodesBelow, EdgesBelow
  <1> HIDE DEF ns, es
  <1>4. NodesBelow(ns, nn)
    BY <1>1, <1>3 DEF NodesBelow, Ids, IsInjective
  <1>5. EdgesBelow(es, ne)
    BY <1>1, <1>3 DEF EdgesBelow, Ids
  <1> HIDE DEF nn, ne
  <1>6. /\ StoreOK(m)
        /\ DOMAIN m.nodes = DOMAIN s.nodes \cup DOMAIN ns
        /\ \A x \in DOMAIN s.nodes : m.nodes[x] = s.nodes[x]
        /\ m.edges = s.edges
    BY <1>2, <1>4, LoadNodesOK
  <1> HIDE DEF m
  <1>7. LET u == LoadEdges(m, es)
        IN  /\ StoreOK(u)
            /\ DOMAIN u.edges = DOMAIN m.edges \cup DOMAIN es
            /\ \A x \in DOMAIN m.edges : u.edges[x] = m.edges[x]
            /\ \A x \in DOMAIN es : u.edges[x] = es[x]
            /\ u.nodes = m.nodes
    BY <1>2, <1>5, <1>6, LoadEdgesOK
  <1>8. /\ StoreOK(t)
        /\ DOMAIN t.edges = DOMAIN s.edges \cup DOMAIN es
        /\ \A x \in DOMAIN s.edges : t.edges[x] = s.edges[x]
        /\ \A x \in DOMAIN es : t.edges[x] = es[x]
        /\ t.nodes = m.nodes
    BY <1>1, <1>6, <1>7
  <1> QED
    BY <1>1, <1>6, <1>8 DEF Grows, Covers, Inside

\* What load() makes of two files that fit in memory.
LEMMA LoadSegmentsOK ==
    ASSUME NEW ns, NEW nn, NodesBelow(ns, nn), NEW es, NEW ne, EdgesBelow(es, ne)
    PROVE  LET t == LoadSegments(ns, es)
           IN  /\ StoreOK(t)
               /\ DOMAIN t.nodes = DOMAIN ns /\ \A x \in DOMAIN ns : t.nodes[x] = ns[x]
               /\ DOMAIN t.edges = DOMAIN es /\ \A x \in DOMAIN es : t.edges[x] = es[x]
  <1> DEFINE z == EmptyStore
             m == LoadNodes(z, ns)
             u == LoadEdges(m, es)
  <1>1. StoreOK(z) /\ DOMAIN z.nodes = {} /\ DOMAIN z.edges = {}
    <2>1. DOMAIN z.nodes = {} /\ DOMAIN z.edges = {}
      BY DEF EmptyStore
    <2> QED
      BY <2>1, EmptyStoreOK
  <1>2. LoadSegments(ns, es) = u
    BY DEF LoadSegments
  <1> HIDE DEF z
  <1>3. /\ StoreOK(m) /\ DOMAIN m.nodes = DOMAIN z.nodes \cup DOMAIN ns
        /\ \A x \in DOMAIN ns : m.nodes[x] = ns[x]
        /\ m.edges = z.edges
    BY <1>1, LoadNodesOK
  <1> HIDE DEF m
  <1>4. /\ StoreOK(u) /\ DOMAIN u.edges = DOMAIN m.edges \cup DOMAIN es
        /\ \A x \in DOMAIN es : u.edges[x] = es[x]
        /\ u.nodes = m.nodes
    BY <1>1, <1>3, LoadEdgesOK
  <1> HIDE DEF u
  <1> QED
    BY <1>1, <1>2, <1>3, <1>4

-----------------------------------------------------------------------------
(* The inductive invariant.                                                *)

Shape ==
    /\ DOMAIN mem = Names /\ DOMAIN seg = Names
    /\ whole \in [Names -> BOOLEAN] /\ proper \in [Names -> BOOLEAN]
    /\ \A b \in Names : seg[b] = [nodes |-> seg[b].nodes, edges |-> seg[b].edges]

StoresOK == \A b \in Names : Opened(b) => StoreOK(mem[b])

FileOK(f) ==
    /\ (\E next : NodesBelow(f.nodes.data, next)) /\ (\E next : EdgesBelow(f.edges.data, next))
    /\ f.nodes.state = "missing" => DOMAIN f.nodes.data = {}
    /\ f.edges.state = "missing" => DOMAIN f.edges.data = {}

FilesOK == \A b \in Names : FileOK(seg[b])

NoLooseEdge == \A b \in Names : Opened(b) /\ proper[b] => Inside(mem[b].edges, mem[b].nodes)

\* A flush is of an open branch, and past its first file that file is as the store is.
FlushOK ==
    \A b \in Names :
      /\ (\E file : flushing = <<b, file>>) => Opened(b) /\ (proper[b] => whole[b])
      /\ flushing \in {<<b, "between">>, <<b, "edges">>} => seg[b].nodes.data = mem[b].nodes

FileInv == Shape /\ StoresOK /\ FilesOK /\ NoLooseEdge /\ FlushOK /\ SegmentsFit /\ FlushLosesNothing

LEMMA EmptyFile == NodesBelow(<<>>, 1) /\ EdgesBelow(<<>>, 1)
  <1>1. DOMAIN <<>> = {}
    OBVIOUS
  <1> DEFINE f == <<>>
  <1>2. DOMAIN f = {}
    BY <1>1
  <1> HIDE DEF f
  <1>3. NodesBelow(f, 1) /\ EdgesBelow(f, 1)
    BY <1>2 DEF NodesBelow, EdgesBelow, Ids
  <1> QED
    BY <1>3 DEF f

LEMMA EmptyDomain == DOMAIN Missing.data = {} /\ DOMAIN Torn.data = {}
  BY DEF Missing, Torn

LEMMA FileInvInit == FileInit => FileInv
  <1> SUFFICES ASSUME FileInit PROVE FileInv
    OBVIOUS
  <1>1. Shape
    BY DEF Shape, FileInit
  <1>2. \A b \in Names : ~Opened(b)
    BY DEF FileInit, Opened
  <1>3. \A b \in Names : seg[b].nodes = Missing /\ seg[b].edges = Missing
    BY DEF FileInit
  <1>4. \A b \in Names : DOMAIN seg[b].nodes.data = {} /\ DOMAIN seg[b].edges.data = {}
    BY <1>3, EmptyDomain
  <1>5. FilesOK
    BY <1>3, <1>4, EmptyFile DEF FilesOK, FileOK, Missing
  <1>6. SegmentsFit
    BY <1>4 DEF SegmentsFit
  <1>7. \A b \in Names : \A file : flushing # <<b, file>>
    BY DEF FileInit
  <1> QED
    BY <1>1, <1>2, <1>5, <1>6, <1>7 DEF FileInv, StoresOK, NoLooseEdge, FlushOK, FlushLosesNothing

LEMMA IdleFlush == Idle => \A b, file : flushing # <<b, file>>
  BY DEF Idle

\* A write of one branch.
LEMMA WriteKeeps ==
    ASSUME FileInv, Idle, NEW b \in Names, Opened(b), NEW t, Grows(mem[b], t),
           mem' = [mem EXCEPT ![b] = t], UNCHANGED <<seg, flushing, whole, proper>>
    PROVE  FileInv'
  <1>1. mem'[b] = t /\ \A c \in Names : c # b => mem'[c] = mem[c]
    BY DEF FileInv, Shape
  <1>2. Shape'
    BY DEF FileInv, Shape
  <1>3. StoresOK'
    BY <1>1 DEF FileInv, StoresOK, Opened, Grows
  <1>4. FilesOK' /\ SegmentsFit'
    BY DEF FileInv, FilesOK, SegmentsFit, Readable
  <1>5. NoLooseEdge'
    BY <1>1 DEF FileInv, NoLooseEdge, Opened, Grows
  <1>6. FlushOK'
    BY IdleFlush DEF FlushOK
  <1>7. FlushLosesNothing'
    <2> SUFFICES ASSUME NEW c \in Names, Opened(c)', whole[c], proper[c]
                 PROVE  Covers(mem'[c].nodes, seg[c].nodes.data) /\ Covers(mem'[c].edges, seg[c].edges.data)
      BY DEF FlushLosesNothing
    <2>1. CASE c = b
      <3>1. Covers(mem[b].nodes, seg[b].nodes.data) /\ Covers(mem[b].edges, seg[b].edges.data)
        BY <2>1 DEF FileInv, FlushLosesNothing
      <3>2. Covers(t.nodes, mem[b].nodes) /\ Covers(t.edges, mem[b].edges)
        BY DEF Grows
      <3>3. Covers(t.nodes, seg[b].nodes.data) /\ Covers(t.edges, seg[b].edges.data)
        BY <3>1, <3>2 DEF Covers
      <3> QED
        BY <2>1, <3>3, <1>1
    <2>2. CASE c # b
      BY <2>2, <1>1 DEF FileInv, FlushLosesNothing, Opened
    <2> QED
      BY <2>1, <2>2
  <1> QED
    BY <1>2, <1>3, <1>4, <1>5, <1>6, <1>7 DEF FileInv

\* Opening a branch.
LEMMA OpenKeeps ==
    ASSUME FileInv, Idle, NEW b \in Names, OpenBranch(b), UNCHANGED <<seg, flushing, proper>>
    PROVE  FileInv'
  <1>1. CASE Opened(b)
    <2>1. mem'[b] = mem[b] /\ \A c \in Names : mem'[c] = mem[c] /\ whole'[c] = whole[c]
      BY <1>1 DEF OpenBranch, Opened, FileInv, Shape
    <2>2. Shape'
      BY DEF OpenBranch, FileInv, Shape
    <2>3. (StoresOK /\ NoLooseEdge /\ FlushLosesNothing)'
      BY <2>1 DEF FileInv, StoresOK, NoLooseEdge, FlushLosesNothing, Opened
    <2>4. FilesOK' /\ SegmentsFit' /\ FlushOK'
      BY IdleFlush DEF FileInv, FilesOK, SegmentsFit, FlushOK, Readable
    <2> QED
      BY <2>2, <2>3, <2>4 DEF FileInv
  <1>2. CASE ~Opened(b)
    <2>1. /\ mem'[b] = EmptyStore
          /\ whole'[b] = (seg[b].nodes.state = "missing" /\ seg[b].edges.state = "missing")
          /\ \A c \in Names : c # b => mem'[c] = mem[c] /\ whole'[c] = whole[c]
      BY <1>2 DEF OpenBranch, Opened, FileInv, Shape
    <2>2. Shape'
      BY DEF OpenBranch, FileInv, Shape
    <2>3. DOMAIN EmptyStore.nodes = {} /\ DOMAIN EmptyStore.edges = {}
      BY DEF EmptyStore
    <2>4. StoresOK'
      BY <2>1, EmptyStoreOK DEF FileInv, StoresOK, Opened
    <2>5. NoLooseEdge'
      BY <2>1, <2>3 DEF FileInv, NoLooseEdge, Opened, Inside
    <2>6. FlushLosesNothing'
      <3> SUFFICES ASSUME NEW c \in Names, Opened(c)', whole'[c], proper[c]
                   PROVE  Covers(mem'[c].nodes, seg[c].nodes.data) /\ Covers(mem'[c].edges, seg[c].edges.data)
        BY DEF FlushLosesNothing
      <3>1. CASE c = b
        <4>1. DOMAIN seg[b].nodes.data = {} /\ DOMAIN seg[b].edges.data = {}
          BY <3>1, <2>1 DEF FileInv, FilesOK, FileOK
        <4> QED
          BY <4>1, <3>1 DEF Covers
      <3>2. CASE c # b
        BY <3>2, <2>1 DEF FileInv, FlushLosesNothing, Opened
      <3> QED
        BY <3>1, <3>2
    <2>7. FilesOK' /\ SegmentsFit' /\ FlushOK'
      BY IdleFlush DEF FileInv, FilesOK, SegmentsFit, FlushOK, Readable
    <2> QED
      BY <2>2, <2>4, <2>5, <2>6, <2>7 DEF FileInv
  <1> QED
    BY <1>1, <1>2

LEMMA LoadKeeps == ASSUME FileInv, NEW b \in Names, Load(b) PROVE FileInv'
  <1> DEFINE t == LoadSegments(seg[b].nodes.data, seg[b].edges.data)
  <1>1. /\ StoreOK(t)
        /\ DOMAIN t.nodes = DOMAIN seg[b].nodes.data
        /\ \A x \in DOMAIN seg[b].nodes.data : t.nodes[x] = seg[b].nodes.data[x]
        /\ DOMAIN t.edges = DOMAIN seg[b].edges.data
        /\ \A x \in DOMAIN seg[b].edges.data : t.edges[x] = seg[b].edges.data[x]
    <2>1. (\E next : NodesBelow(seg[b].nodes.data, next)) /\ (\E next : EdgesBelow(seg[b].edges.data, next))
      BY DEF FileInv, FilesOK, FileOK
    <2> QED
      BY <2>1, LoadSegmentsOK
  <1>2. /\ Idle /\ Readable(b) /\ mem'[b] = t /\ whole'[b]
        /\ \A c \in Names : c # b => mem'[c] = mem[c] /\ whole'[c] = whole[c]
        /\ UNCHANGED <<seg, flushing, proper>>
    BY DEF Load, FileInv, Shape
  <1>3. Shape'
    BY DEF Load, FileInv, Shape
  <1> HIDE DEF t
  <1>4. StoresOK'
    BY <1>1, <1>2 DEF FileInv, StoresOK, Opened
  <1>5. NoLooseEdge'
    <2>1. proper[b] => Inside(t.edges, t.nodes)
      BY <1>1, <1>2 DEF FileInv, SegmentsFit, Inside
    <2> QED
      BY <2>1, <1>2 DEF FileInv, NoLooseEdge, Opened
  <1>6. FlushLosesNothing'
    <2>1. Covers(t.nodes, seg[b].nodes.data) /\ Covers(t.edges, seg[b].edges.data)
      BY <1>1 DEF Covers
    <2> QED
      BY <2>1, <1>2 DEF FileInv, FlushLosesNothing, Opened
  <1>7. FilesOK' /\ SegmentsFit' /\ FlushOK'
    BY <1>2, IdleFlush DEF FileInv, FilesOK, SegmentsFit, FlushOK, Readable
  <1> QED
    BY <1>3, <1>4, <1>5, <1>6, <1>7 DEF FileInv

LEMMA CrashKeeps == ASSUME FileInv, Crash PROVE FileInv'
  <1>1. /\ \A b \in Names : ~Opened(b)'
        /\ flushing' = <<>> /\ UNCHANGED <<seg, proper>>
    BY DEF Crash, Opened
  <1>2. Shape'
    BY DEF Crash, FileInv, Shape
  <1>3. \A b \in Names : \A file : flushing' # <<b, file>>
    BY <1>1
  <1>4. FilesOK' /\ SegmentsFit'
    BY <1>1 DEF FileInv, FilesOK, SegmentsFit, Readable
  <1> QED
    BY <1>1, <1>2, <1>3, <1>4 DEF FileInv, StoresOK, NoLooseEdge, FlushOK, FlushLosesNothing

\* What writing one of the files changes on disk.
LEMMA NodesWritten ==
    ASSUME Shape, NEW b \in Names, NEW f, seg' = [seg EXCEPT ![b].nodes = f]
    PROVE  /\ seg'[b] = [nodes |-> f, edges |-> seg[b].edges]
           /\ \A c \in Names : c # b => seg'[c] = seg[c]
           /\ DOMAIN seg' = Names
           /\ \A c \in Names : seg'[c] = [nodes |-> seg'[c].nodes, edges |-> seg'[c].edges]
  <1>1. seg[b] = [nodes |-> seg[b].nodes, edges |-> seg[b].edges] /\ DOMAIN seg = Names
    BY DEF Shape
  <1>2. seg'[b] = [seg[b] EXCEPT !.nodes = f] /\ \A c \in Names : c # b => seg'[c] = seg[c]
    BY <1>1
  <1>3. [seg[b] EXCEPT !.nodes = f] = [nodes |-> f, edges |-> seg[b].edges]
    BY <1>1
  <1>4. seg'[b] = [nodes |-> f, edges |-> seg[b].edges]
    BY <1>2, <1>3
  <1>5. seg'[b] = [nodes |-> seg'[b].nodes, edges |-> seg'[b].edges]
    BY <1>4
  <1>6. DOMAIN seg' = Names
    BY <1>1
  <1> QED
    BY <1>2, <1>4, <1>5, <1>6 DEF Shape

LEMMA EdgesWritten ==
    ASSUME Shape, NEW b \in Names, NEW f, seg' = [seg EXCEPT ![b].edges = f]
    PROVE  /\ seg'[b] = [nodes |-> seg[b].nodes, edges |-> f]
           /\ \A c \in Names : c # b => seg'[c] = seg[c]
           /\ DOMAIN seg' = Names
           /\ \A c \in Names : seg'[c] = [nodes |-> seg'[c].nodes, edges |-> seg'[c].edges]
  <1>1. seg[b] = [nodes |-> seg[b].nodes, edges |-> seg[b].edges] /\ DOMAIN seg = Names
    BY DEF Shape
  <1>2. seg'[b] = [seg[b] EXCEPT !.edges = f] /\ \A c \in Names : c # b => seg'[c] = seg[c]
    BY <1>1
  <1>3. [seg[b] EXCEPT !.edges = f] = [nodes |-> seg[b].nodes, edges |-> f]
    BY <1>1
  <1>4. seg'[b] = [nodes |-> seg[b].nodes, edges |-> f]
    BY <1>2, <1>3
  <1>5. seg'[b] = [nodes |-> seg'[b].nodes, edges |-> seg'[b].edges]
    BY <1>4
  <1>6. DOMAIN seg' = Names
    BY <1>1
  <1> QED
    BY <1>2, <1>4, <1>5, <1>6 DEF Shape

LEMMA FlushBeginKeeps == ASSUME FileInv, NEW b \in Names, FlushBegin(b) PROVE FileInv'
  <1>1. /\ Idle /\ Opened(b) /\ flushing' = <<b, "nodes">> /\ UNCHANGED <<mem, whole>>
        /\ proper'[b] = (proper[b] /\ whole[b]) /\ \A c \in Names : c # b => proper'[c] = proper[c]
    BY DEF FlushBegin, FileInv, Shape
  <1>2. /\ seg'[b] = [nodes |-> Torn, edges |-> seg[b].edges]
        /\ \A c \in Names : c # b => seg'[c] = seg[c]
        /\ DOMAIN seg' = Names
        /\ \A c \in Names : seg'[c] = [nodes |-> seg'[c].nodes, edges |-> seg'[c].edges]
    BY NodesWritten DEF FlushBegin, FileInv
  <1>3. /\ seg'[b].nodes.state = "torn" /\ DOMAIN seg'[b].nodes.data = {} /\ seg'[b].nodes.data = <<>>
        /\ seg'[b].edges = seg[b].edges
    BY <1>2, EmptyDomain DEF Torn
  <1>4. Shape'
    <2>1. proper' \in [Names -> BOOLEAN]
      BY <1>1 DEF FlushBegin, FileInv, Shape
    <2> QED
      BY <1>1, <1>2, <2>1 DEF FileInv, Shape
  <1>5. StoresOK' /\ NoLooseEdge'
    BY <1>1 DEF FileInv, StoresOK, NoLooseEdge, Opened
  <1>6. FilesOK'
    <2>1. FileOK(seg'[b])
      BY <1>3, EmptyFile DEF FileInv, FilesOK, FileOK
    <2> QED
      BY <2>1, <1>2 DEF FileInv, FilesOK
  <1>7. FlushOK'
    BY <1>1 DEF FlushOK, Opened
  <1>8. SegmentsFit'
    BY <1>1, <1>2, <1>3 DEF FileInv, SegmentsFit, Readable
  <1>9. FlushLosesNothing'
    <2>1. ASSUME whole[b], proper[b]
          PROVE  Covers(mem[b].nodes, seg'[b].nodes.data) /\ Covers(mem[b].edges, seg'[b].edges.data)
      BY <2>1, <1>1, <1>3 DEF FileInv, FlushLosesNothing, Covers
    <2> QED
      BY <2>1, <1>1, <1>2 DEF FileInv, FlushLosesNothing, Opened
  <1> QED
    BY <1>4, <1>5, <1>6, <1>7, <1>8, <1>9 DEF FileInv

LEMMA FlushNodesKeeps == ASSUME FileInv, NEW b \in Names, FlushNodes(b) PROVE FileInv'
  <1>1. /\ flushing = <<b, "nodes">> /\ flushing' = <<b, "between">> /\ UNCHANGED <<mem, whole, proper>>
        /\ Opened(b) /\ (proper[b] => whole[b])
    BY DEF FlushNodes, FileInv, FlushOK
  <1>2. /\ seg'[b] = [nodes |-> Written(mem[b].nodes), edges |-> seg[b].edges]
        /\ \A c \in Names : c # b => seg'[c] = seg[c]
        /\ DOMAIN seg' = Names
        /\ \A c \in Names : seg'[c] = [nodes |-> seg'[c].nodes, edges |-> seg'[c].edges]
    BY NodesWritten DEF FlushNodes, FileInv
  <1>3. /\ seg'[b].nodes.state = "written" /\ seg'[b].nodes.data = mem[b].nodes
        /\ seg'[b].edges = seg[b].edges
    BY <1>2 DEF Written
  <1>4. Shape'
    BY <1>1, <1>2 DEF FileInv, Shape
  <1>5. StoresOK' /\ NoLooseEdge'
    BY <1>1 DEF FileInv, StoresOK, NoLooseEdge, Opened
  <1>6. FilesOK'
    <2>1. NodesBelow(mem[b].nodes, mem[b].nextNode)
      BY <1>1 DEF FileInv, StoresOK, StoreOK
    <2>2. FileOK(seg'[b])
      BY <1>3, <2>1 DEF FileInv, FilesOK, FileOK
    <2> QED
      BY <2>2, <1>2 DEF FileInv, FilesOK
  <1>7. FlushOK'
    BY <1>1, <1>3 DEF FlushOK, Opened
  <1>8. SegmentsFit'
    <2> SUFFICES ASSUME NEW c \in Names, proper[c], Readable(c)', NEW e \in DOMAIN seg'[c].edges.data
                 PROVE  {seg'[c].edges.data[e].from, seg'[c].edges.data[e].to} \subseteq DOMAIN seg'[c].nodes.data
      BY <1>1 DEF SegmentsFit
    <2>1. CASE c = b
      <3>1. Covers(mem[b].edges, seg[b].edges.data) /\ Inside(mem[b].edges, mem[b].nodes)
        BY <2>1, <1>1 DEF FileInv, FlushLosesNothing, NoLooseEdge
      <3> QED
        BY <2>1, <3>1, <1>3 DEF Covers, Inside
    <2>2. CASE c # b
      BY <2>2, <1>2 DEF FileInv, SegmentsFit, Readable
    <2> QED
      BY <2>1, <2>2
  <1>9. FlushLosesNothing'
    <2>1. ASSUME whole[b], proper[b]
          PROVE  Covers(mem[b].nodes, seg'[b].nodes.data) /\ Covers(mem[b].edges, seg'[b].edges.data)
      BY <2>1, <1>1, <1>3 DEF FileInv, FlushLosesNothing, Covers
    <2> QED
      BY <2>1, <1>1, <1>2 DEF FileInv, FlushLosesNothing, Opened
  <1> QED
    BY <1>4, <1>5, <1>6, <1>7, <1>8, <1>9 DEF FileInv

LEMMA FlushNextKeeps == ASSUME FileInv, NEW b \in Names, FlushNext(b) PROVE FileInv'
  <1>1. /\ flushing = <<b, "between">> /\ flushing' = <<b, "edges">> /\ UNCHANGED <<mem, whole, proper>>
        /\ Opened(b) /\ (proper[b] => whole[b]) /\ seg[b].nodes.data = mem[b].nodes
    BY DEF FlushNext, FileInv, FlushOK
  <1>2. /\ seg'[b] = [nodes |-> seg[b].nodes, edges |-> Torn]
        /\ \A c \in Names : c # b => seg'[c] = seg[c]
        /\ DOMAIN seg' = Names
        /\ \A c \in Names : seg'[c] = [nodes |-> seg'[c].nodes, edges |-> seg'[c].edges]
    BY EdgesWritten DEF FlushNext, FileInv
  <1>3. /\ seg'[b].edges.state = "torn" /\ DOMAIN seg'[b].edges.data = {} /\ seg'[b].edges.data = <<>>
        /\ seg'[b].nodes = seg[b].nodes
    BY <1>2, EmptyDomain DEF Torn
  <1>4. Shape'
    BY <1>1, <1>2 DEF FileInv, Shape
  <1>5. StoresOK' /\ NoLooseEdge'
    BY <1>1 DEF FileInv, StoresOK, NoLooseEdge, Opened
  <1>6. FilesOK'
    <2>1. FileOK(seg'[b])
      BY <1>3, EmptyFile DEF FileInv, FilesOK, FileOK
    <2> QED
      BY <2>1, <1>2 DEF FileInv, FilesOK
  <1>7. FlushOK'
    BY <1>1, <1>3 DEF FlushOK, Opened
  <1>8. SegmentsFit'
    BY <1>1, <1>2, <1>3 DEF FileInv, SegmentsFit, Readable
  <1>9. FlushLosesNothing'
    <2>1. ASSUME whole[b], proper[b]
          PROVE  Covers(mem[b].nodes, seg'[b].nodes.data) /\ Covers(mem[b].edges, seg'[b].edges.data)
      BY <2>1, <1>1, <1>3 DEF FileInv, FlushLosesNothing, Covers
    <2> QED
      BY <2>1, <1>1, <1>2 DEF FileInv, FlushLosesNothing, Opened
  <1> QED
    BY <1>4, <1>5, <1>6, <1>7, <1>8, <1>9 DEF FileInv

LEMMA FlushEdgesKeeps == ASSUME FileInv, NEW b \in Names, FlushEdges(b) PROVE FileInv'
  <1>1. /\ flushing = <<b, "edges">> /\ flushing' = <<>> /\ UNCHANGED <<mem, whole, proper>>
        /\ Opened(b) /\ (proper[b] => whole[b]) /\ seg[b].nodes.data = mem[b].nodes
    BY DEF FlushEdges, FileInv, FlushOK
  <1>2. /\ seg'[b] = [nodes |-> seg[b].nodes, edges |-> Written(mem[b].edges)]
        /\ \A c \in Names : c # b => seg'[c] = seg[c]
        /\ DOMAIN seg' = Names
        /\ \A c \in Names : seg'[c] = [nodes |-> seg'[c].nodes, edges |-> seg'[c].edges]
    BY EdgesWritten DEF FlushEdges, FileInv
  <1>3. /\ seg'[b].edges.state = "written" /\ seg'[b].edges.data = mem[b].edges
        /\ seg'[b].nodes = seg[b].nodes
    BY <1>2 DEF Written
  <1>4. Shape'
    BY <1>1, <1>2 DEF FileInv, Shape
  <1>5. StoresOK' /\ NoLooseEdge'
    BY <1>1 DEF FileInv, StoresOK, NoLooseEdge, Opened
  <1>6. FilesOK'
    <2>1. EdgesBelow(mem[b].edges, mem[b].nextEdge)
      BY <1>1 DEF FileInv, StoresOK, StoreOK
    <2>2. FileOK(seg'[b])
      BY <1>3, <2>1 DEF FileInv, FilesOK, FileOK
    <2> QED
      BY <2>2, <1>2 DEF FileInv, FilesOK
  <1>7. FlushOK'
    BY <1>1 DEF FlushOK, Opened
  <1>8. SegmentsFit'
    <2> SUFFICES ASSUME NEW c \in Names, proper[c], Readable(c)', NEW e \in DOMAIN seg'[c].edges.data
                 PROVE  {seg'[c].edges.data[e].from, seg'[c].edges.data[e].to} \subseteq DOMAIN seg'[c].nodes.data
      BY <1>1 DEF SegmentsFit
    <2>1. CASE c = b
      <3>1. Inside(mem[b].edges, mem[b].nodes)
        BY <2>1, <1>1 DEF FileInv, NoLooseEdge
      <3> QED
        BY <2>1, <3>1, <1>1, <1>3 DEF Inside
    <2>2. CASE c # b
      BY <2>2, <1>2 DEF FileInv, SegmentsFit, Readable
    <2> QED
      BY <2>1, <2>2
  <1>9. FlushLosesNothing'
    <2>1. ASSUME whole[b], proper[b]
          PROVE  Covers(mem[b].nodes, seg'[b].nodes.data) /\ Covers(mem[b].edges, seg'[b].edges.data)
      BY <2>1, <1>1, <1>3 DEF FileInv, FlushLosesNothing, Covers
    <2> QED
      BY <2>1, <1>1, <1>2 DEF FileInv, FlushLosesNothing, Opened
  <1> QED
    BY <1>4, <1>5, <1>6, <1>7, <1>8, <1>9 DEF FileInv

LEMMA FileInvStep == FileInv /\ [FileNext]_fileVars => FileInv'
  <1> SUFFICES ASSUME FileInv, [FileNext]_fileVars PROVE FileInv'
    OBVIOUS
  <1>0. "main" \in Names
    BY DEF Names
  <1>1. CASE Connect
    BY <1>0, <1>1, OpenKeeps DEF Connect
  <1>2. CASE Crash
    BY <1>2, CrashKeeps
  <1>3. ASSUME NEW b \in Names, CreateBranch(b) PROVE FileInv'
    BY <1>3, OpenKeeps DEF CreateBranch
  <1>4. ASSUME NEW b \in Names, SwitchTo(b) PROVE FileInv'
    BY <1>4, OpenKeeps DEF SwitchTo
  <1>5. ASSUME NEW b \in Names, Load(b) PROVE FileInv'
    BY <1>5, LoadKeeps
  <1>6. ASSUME NEW b \in Names, FlushBegin(b) \/ FlushNodes(b) \/ FlushNext(b) \/ FlushEdges(b) PROVE FileInv'
    BY <1>6, FlushBeginKeeps, FlushNodesKeeps, FlushNextKeeps, FlushEdgesKeeps
  <1>7. ASSUME NEW b \in Names, NEW n \in NodeKinds, Save(b, n) PROVE FileInv'
    <2>1. Grows(mem[b], AddNode(mem[b], n.labels, n.props))
      BY <1>7, SaveGrows DEF Save, FileInv, StoresOK
    <2> QED
      BY <1>7, <2>1, WriteKeeps DEF Save
  <1>8. ASSUME NEW b \in Names, NEW from \in DOMAIN mem[b].nodes, NEW to \in DOMAIN mem[b].nodes,
               NEW type \in EdgeKinds, Link(b, from, to, type)
        PROVE  FileInv'
    <2>1. Grows(mem[b], AddEdge(mem[b], from, to, type, <<>>))
      BY <1>8, LinkGrows DEF Link, FileInv, StoresOK
    <2> QED
      BY <1>8, <2>1, WriteKeeps DEF Link
  <1>9. ASSUME NEW b \in Names, Query(b) PROVE FileInv'
    <2>1. Grows(mem[b], mem'[b])
      BY <1>9, CreatesGrows DEF Query, FileInv, StoresOK
    <2> QED
      BY <1>9, <2>1, WriteKeeps DEF Query
  <1>10. CASE UNCHANGED fileVars
    BY <1>10 DEF fileVars, FileInv, Shape, StoresOK, FilesOK, NoLooseEdge, FlushOK, SegmentsFit,
                 FlushLosesNothing, Opened, Readable
  <1> QED
    BY <1>1, <1>2, <1>3, <1>4, <1>5, <1>6, <1>7, <1>8, <1>9, <1>10 DEF FileNext

LEMMA FileInvHolds == FileSpec => []FileInv
  BY FileInvInit, FileInvStep, PTL DEF FileSpec

-----------------------------------------------------------------------------
(* Every query goes through the label and adjacency indexes: after any run *)
(* of saves, links, CREATE queries (also failed ones), flushes, crashes    *)
(* and loads they say what the maps of nodes and edges say (index/mod.rs,  *)
(* index/persistence.rs).                                                  *)
THEOREM IndexesStayInStep == FileSpec => []IndexesAgree
  <1>1. FileInv => IndexesAgree
    BY StoreAgrees DEF FileInv, StoresOK, IndexesAgree
  <1> QED
    BY <1>1, FileInvHolds, PTL

(* Wherever a flush was cut off, no edge of two readable files has lost an *)
(* end, as long as every flush was of a store that had been loaded before  *)
(* (flush_all in persistence.rs writes the nodes first).                   *)
THEOREM CutFlushLeavesFit == FileSpec => []SegmentsFit
  <1>1. FileInv => SegmentsFit
    BY DEF FileInv
  <1> QED
    BY <1>1, FileInvHolds, PTL

(* The store of a branch that was loaded has every node and every edge of  *)
(* its files, as they are there: the next flush loses nothing, since no    *)
(* identifier of the files is given out again (next_node_id and            *)
(* next_edge_id, restored when a segment is read).                         *)
THEOREM NothingFlushedIsLost == FileSpec => []FlushLosesNothing
  <1>1. FileInv => FlushLosesNothing
    BY DEF FileInv
  <1> QED
    BY <1>1, FileInvHolds, PTL
=============================================================================
