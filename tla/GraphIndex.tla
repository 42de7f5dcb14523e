----------------------------- MODULE GraphIndex -----------------------------
(***************************************************************************)
(* The in-memory graph store of casys_engine (index/mod.rs) and the two    *)
(* segment files it is written to and read from (index/persistence.rs).    *)
(*                                                                         *)
(* A store is a record: the nodes and edges by identifier, and the indexes *)
(* over them that every query goes through instead.                        *)
(***************************************************************************)
EXTENDS Integers, Sequences, FiniteSets, SequencesExt

EmptyStore == [nodes |-> <<>>, edges |-> <<>>, labels |-> <<>>, out |-> <<>>, in |-> <<>>,
               nextNode |-> 1, nextEdge |-> 1]

(* HashMap::insert *)
Insert(map, key, value) == [k \in DOMAIN map \cup {key} |-> IF k = key THEN value ELSE map[k]]

At(index, key) == IF key \in DOMAIN index THEN index[key] ELSE <<>>

Push(index, key, id) ==
    [k \in DOMAIN index \cup {key} |-> IF k = key THEN Append(At(index, k), id) ELSE index[k]]

(* One push for every label of a node, two for a label it has twice. *)
PushAll(index, keys, id) ==
    [k \in DOMAIN index \cup ToSet(keys) |->
        At(index, k) \o [i \in 1 .. Cardinality({j \in DOMAIN keys : keys[j] = k}) |-> id]]

PutNodeStill(s, id, n) ==
    [s EXCEPT !.nodes = Insert(@, id, n),
              !.labels = PushAll(@, n.labels, id),
              !.nextNode = IF id > @ THEN id + 1 ELSE @]

(* Enter a node under an identifier: into the map and under every label.   *)
PutNode(s, id, n) ==
    [s EXCEPT !.nodes = Insert(@, id, n),
              !.labels = PushAll(@, n.labels, id),
              !.nextNode = IF id >= @ THEN id + 1 ELSE @]

PutEdge(s, id, e) ==
    [s EXCEPT !.edges = Insert(@, id, e),
              !.out = Push(@, e.from, id),
              !.in = Push(@, e.to, id),
              !.nextEdge = IF id >= @ THEN id + 1 ELSE @]

(* add_node and add_edge take the next identifier; neither looks whether   *)
(* the ends of an edge exist.                                              *)
AddNode(s, labels, props) == PutNode(s, s.nextNode, [labels |-> labels, props |-> props])
AddEdge(s, from, to, type, props) ==
    PutEdge(s, s.nextEdge, [from |-> from, to |-> to, type |-> type, props |-> props])

(* The nodes of a label in the order they were entered. *)
ScanByLabel(s, label) == SelectSeq(At(s.labels, label), LAMBDA n : n \in DOMAIN s.nodes)

(* All the nodes; a hash map lists them in an order of its own. *)
ScanAll(s) == SetToSortSeq(DOMAIN s.nodes, <)

(* What lies across the edges that leave and that enter a node: pairs of   *)
(* an edge and the node at its other end; an end that is missing is        *)
(* skipped.                                                                *)
Across(s, ids, Other(_)) ==
    LET known == SelectSeq(ids, LAMBDA e : e \in DOMAIN s.edges /\ Other(s.edges[e]) \in DOMAIN s.nodes)
    IN [i \in DOMAIN known |-> <<known[i], Other(s.edges[known[i]])>>]

Outgoing(s, n) == Across(s, At(s.out, n), LAMBDA e : e.to)
Incoming(s, n) == Across(s, At(s.in, n), LAMBDA e : e.from)

Neighbours(s, n, dir) ==
    CASE dir = "right" -> Outgoing(s, n)
      [] dir = "left" -> Incoming(s, n)
      [] dir = "both" -> Outgoing(s, n) \o Incoming(s, n)

(***************************************************************************)
(* Segment files.  A segment holds the nodes or the edges of a store; the  *)
(* indexes are built again when it is read, record by record (in the order *)
(* of the identifiers here, in that of a hash map in the file).            *)
(***************************************************************************)
LoadNodes(s, seg) ==
    LET top == Max(DOMAIN seg \cup {0})
        read[k \in 0 .. top] ==
            IF k = 0 THEN s
            ELSE IF k \in DOMAIN seg THEN PutNode(read[k - 1], k, seg[k]) ELSE read[k - 1]
    IN read[top]

LoadEdges(s, seg) ==
    LET top == Max(DOMAIN seg \cup {0})
        read[k \in 0 .. top] ==
            IF k = 0 THEN s
            ELSE IF k \in DOMAIN seg THEN PutEdge(read[k - 1], k, seg[k]) ELSE read[k - 1]
    IN read[top]

LoadSegmentsNodes(nodes, edges) == LoadNodes(EmptyStore, nodes)

LoadSegments(nodes, edges) == LoadEdges(LoadNodes(EmptyStore, nodes), edges)

(***************************************************************************)
(* What the indexes promise: they say of the nodes and edges neither more  *)
(* nor less than the maps do, each thing once.                             *)
(***************************************************************************)
Exactly(index, key, ids) ==
    /\ ToSet(At(index, key)) = ids
    /\ IsInjective(At(index, key))

IndexesOf(s) ==
    /\ \A l \in DOMAIN s.labels \cup UNION {ToSet(s.nodes[n].labels) : n \in DOMAIN s.nodes} :
          Exactly(s.labels, l, {n \in DOMAIN s.nodes : l \in ToSet(s.nodes[n].labels)})
    /\ \A n \in DOMAIN s.out \cup DOMAIN s.in \cup DOMAIN s.nodes :
          /\ Exactly(s.out, n, {e \in DOMAIN s.edges : s.edges[e].from = n})
          /\ Exactly(s.in, n, {e \in DOMAIN s.edges : s.edges[e].to = n})
    /\ \A n \in DOMAIN s.nodes : n < s.nextNode
    /\ \A e \in DOMAIN s.edges : e < s.nextEdge
=============================================================================
