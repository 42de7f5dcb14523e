----------------------------- MODULE GraphFiles -----------------------------
(***************************************************************************)
(* The branches of a casys_engine process: their stores in memory, their   *)
(* segment files on disk, and what changes them (casys_pyo3/src/lib.rs,    *)
(* casys_db/database.py, casys_db/session.py).                             *)
(*                                                                         *)
(* The binding keeps Python's interpreter lock through every call, so a    *)
(* call is one step, but for flush(), which a killed process leaves half   *)
(* done: each file is truncated, written and synced in turn.               *)
(*                                                                         *)
(* Of a query this module says what it may do to a store.  GraphStore adds *)
(* the queries themselves, and the bounds of the instances TLC explores.   *)
(***************************************************************************)
EXTENDS GraphIndex

CONSTANTS
    Branches,       \* the branches besides "main"
    NodeKinds,      \* the nodes a program saves: [labels, props]
    EdgeKinds,      \* the types of the edges it adds
    Closed          \* a branch that is not open

(* An entity class names each of its labels once. *)
ASSUME KindsAssumption == \A n \in NodeKinds : IsInjective(n.labels)

VARIABLES
    exists,     \* exists[b]: the branch has a manifest
    mem,        \* mem[b]: its store in this process, or Closed
    seg,        \* seg[b]: its files nodes and edges, [state, data]
    flushing,   \* <<>> or <<b, file>>: the file flush(b) has truncated
    whole,      \* whole[b]: mem[b] began as what is on disk (history)
    proper      \* proper[b]: every flush of b was of a store that did (history)

fileVars == <<exists, mem, seg, flushing, whole, proper>>

Names == Branches \cup {"main"}
Missing == [state |-> "missing", data |-> <<>>]
Torn == [state |-> "torn", data |-> <<>>]
Written(f) == [state |-> "written", data |-> f]

Idle == flushing = <<>>
Opened(b) == mem[b] # Closed

FileInit ==
    /\ exists = [b \in Names |-> FALSE]
    /\ mem = [b \in Names |-> Closed]
    /\ seg = [b \in Names |-> [nodes |-> Missing, edges |-> Missing]]
    /\ flushing = <<>>
    /\ whole = [b \in Names |-> FALSE]
    /\ proper = [b \in Names |-> TRUE]

(***************************************************************************)
(* Branches.  Opening one gives it an empty store unless this process has  *)
(* one already; nothing is read from disk.                                 *)
(***************************************************************************)
OpenBranch(b) ==
    /\ mem' = [mem EXCEPT ![b] = IF @ = Closed THEN EmptyStore ELSE @]
    /\ whole' = [whole EXCEPT ![b] = IF mem[b] = Closed
                                     THEN seg[b].nodes.state = "missing" /\ seg[b].edges.state = "missing"
                                     ELSE @]

(* Database(): main is created, or the failure to is passed over. *)
Connect ==
    /\ Idle /\ ~Opened("main")
    /\ exists' = [exists EXCEPT !["main"] = TRUE]
    /\ OpenBranch("main")
    /\ UNCHANGED <<seg, flushing, proper>>

(* Database.create_branch: the manifest of main is published for the new   *)
(* branch, the segment files are not copied; the branch is opened.         *)
CreateBranch(b) ==
    /\ Idle /\ Opened("main") /\ b # "main" /\ ~exists[b]
    /\ exists' = [exists EXCEPT ![b] = TRUE]
    /\ OpenBranch(b)
    /\ UNCHANGED <<seg, flushing, proper>>

(* Database.branch *)
SwitchTo(b) ==
    /\ Idle /\ Opened("main") /\ exists[b] /\ ~Opened(b)
    /\ OpenBranch(b)
    /\ UNCHANGED <<exists, seg, flushing, proper>>

(***************************************************************************)
(* Segment files.                                                          *)
(***************************************************************************)
Readable(b) == seg[b].nodes.state # "torn" /\ seg[b].edges.state # "torn"

(* load(): a file that does not parse is an error and leaves the store. *)
Load(b) ==
    /\ Idle /\ Opened(b) /\ Readable(b)
    /\ mem' = [mem EXCEPT ![b] = LoadSegments(seg[b].nodes.data, seg[b].edges.data)]
    /\ whole' = [whole EXCEPT ![b] = TRUE]
    /\ UNCHANGED <<exists, seg, flushing, proper>>

FlushBeginWithEdges(b) ==
    /\ Idle /\ Opened(b)
    /\ flushing' = <<b, "between">>
    /\ seg' = [seg EXCEPT ![b].edges = Written(mem[b].edges)]
    /\ proper' = [proper EXCEPT ![b] = @ /\ whole[b]]
    /\ UNCHANGED <<exists, mem, whole>>

(* flush(): nodes.seg is truncated, written and synced, then edges.seg. *)
FlushBegin(b) ==
    /\ Idle /\ Opened(b)
    /\ flushing' = <<b, "nodes">>
    /\ seg' = [seg EXCEPT ![b].nodes = Torn]
    /\ proper' = [proper EXCEPT ![b] = @ /\ whole[b]]
    /\ UNCHANGED <<exists, mem, whole>>

FlushNodes(b) ==
    /\ flushing = <<b, "nodes">>
    /\ flushing' = <<b, "between">>
    /\ seg' = [seg EXCEPT ![b].nodes = Written(mem[b].nodes)]
    /\ UNCHANGED <<exists, mem, whole, proper>>

FlushNext(b) ==
    /\ flushing = <<b, "between">>
    /\ flushing' = <<b, "edges">>
    /\ seg' = [seg EXCEPT ![b].edges = Torn]
    /\ UNCHANGED <<exists, mem, whole, proper>>

FlushEdges(b) ==
    /\ flushing = <<b, "edges">>
    /\ flushing' = <<>>
    /\ seg' = [seg EXCEPT ![b].edges = Written(mem[b].edges)]
    /\ UNCHANGED <<exists, mem, whole, proper>>

(* The process ends, or is killed in the middle of a flush. *)
Crash ==
    /\ \E b \in Names : Opened(b)
    /\ mem' = [b \in Names |-> Closed]
    /\ whole' = [b \in Names |-> FALSE]
    /\ flushing' = <<>>
    /\ UNCHANGED <<exists, seg, proper>>

(***************************************************************************)
(* Writes.                                                                 *)
(***************************************************************************)

(* Session.save *)
Save(b, n) ==
    /\ Idle /\ Opened(b)
    /\ mem' = [mem EXCEPT ![b] = AddNode(@, n.labels, n.props)]
    /\ UNCHANGED <<exists, seg, flushing, whole, proper>>

(* add_edge; a program gives it identifiers that save() returned. *)
Link(b, from, to, type) ==
    /\ Idle /\ Opened(b)
    /\ mem' = [mem EXCEPT ![b] = AddEdge(@, from, to, type, <<>>)]
    /\ UNCHANGED <<exists, seg, flushing, whole, proper>>

(* What t has and s has not. *)
Added(s, t) == [id \in DOMAIN t \ DOMAIN s |-> t[id]]

(* CREATE takes identifiers one after the other, for nodes that have one   *)
(* label at most and for edges between nodes that are there; a query that  *)
(* fails keeps what it had created.                                        *)
Creates(s, t) ==
    LET ns == Added(s.nodes, t.nodes)
        es == Added(s.edges, t.edges)
    IN /\ {t.nextNode, t.nextEdge} \subseteq Nat
       /\ DOMAIN ns = s.nextNode .. t.nextNode - 1
       /\ DOMAIN es = s.nextEdge .. t.nextEdge - 1
       /\ \A n \in DOMAIN ns : DOMAIN ns[n].labels \subseteq {1}
       /\ \A e \in DOMAIN es : {es[e].from, es[e].to} \subseteq DOMAIN t.nodes
       /\ t = LoadEdges(LoadNodes(s, ns), es)

(* A query of a branch. *)
Query(b) ==
    /\ Idle /\ Opened(b)
    /\ Creates(mem[b], mem'[b])
    /\ mem' = [mem EXCEPT ![b] = mem'[b]]
    /\ UNCHANGED <<exists, seg, flushing, whole, proper>>

FileNext ==
    \/ Connect \/ Crash
    \/ \E b \in Names :
         \/ CreateBranch(b) \/ SwitchTo(b) \/ Load(b)
         \/ FlushBegin(b) \/ FlushNodes(b) \/ FlushNext(b) \/ FlushEdges(b)
         \/ \E n \in NodeKinds : Save(b, n)
         \/ Opened(b) /\ \E from, to \in DOMAIN mem[b].nodes, type \in EdgeKinds : Link(b, from, to, type)
         \/ Query(b)

FileSpec == FileInit /\ [][FileNext]_fileVars

(***************************************************************************)
(* Properties.                                                             *)
(***************************************************************************)

(* Every query goes through the label and adjacency indexes: after any run *)
(* of saves, links, CREATE queries (also failed ones), flushes and loads   *)
(* they say what the maps of nodes and edges say (index/mod.rs,            *)
(* index/persistence.rs).                                                  *)
IndexesAgree == \A b \in Names : Opened(b) => IndexesOf(mem[b])

(* Wherever a flush was cut off: when both files of a branch can be read,  *)
(* no edge in them has lost an end, for nodes.seg is written first.  Only  *)
(* as long as every flush was of a store that had been loaded before.      *)
SegmentsFit ==
    \A b \in Names : proper[b] /\ Readable(b) =>
        \A e \in DOMAIN seg[b].edges.data :
            {seg[b].edges.data[e].from, seg[b].edges.data[e].to} \subseteq DOMAIN seg[b].nodes.data

Covers(f, g) == DOMAIN g \subseteq DOMAIN f /\ \A id \in DOMAIN g : f[id] = g[id]

(* A flush loses nothing: the store of a branch that was loaded has every  *)
(* node and every edge of its files, as they are there, whatever was added *)
(* since under new identifiers (next_node_id, next_edge_id in mod.rs and   *)
(* persistence.rs).                                                        *)
FlushLosesNothing ==
    \A b \in Names : Opened(b) /\ whole[b] /\ proper[b] =>
        Covers(mem[b].nodes, seg[b].nodes.data) /\ Covers(mem[b].edges, seg[b].edges.data)
=============================================================================
