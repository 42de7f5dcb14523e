----------------------------- MODULE GraphStore -----------------------------
(***************************************************************************)
(* A process that uses casys_engine through its Python binding: the        *)
(* branches of GraphFiles and the queries it asks of them.                 *)
(*                                                                         *)
(* Here and in the modules below a definition that nothing uses            *)
(* (FlushBeginWithEdges, OfTypesFirst, ToGqlBare, ...) is a faulty variant *)
(* of the one that follows it: with it some property below fails.          *)
(***************************************************************************)
EXTENDS CasysSdk, GraphFiles

CONSTANTS
    MaxNodes,       \* bound on the nodes of a store
    MaxEdges,       \* bound on the edges of a store
    MaxStored,      \* bound on the nodes and edges of a store that is flushed
    MaxCrashes,     \* bound on the times the process is killed
    Texts,          \* the query texts it passes to execute_raw
    Builders,       \* the query builders it makes
    Recounted,      \* those of them it also asks for first, count and update (bound)
    Relations,      \* the relations it follows with with_relations
    Classes         \* the names of its entity classes

VARIABLES
    crashes,    \* times the process was killed
    answer      \* the last question and its result, <<>> when none

vars == <<fileVars, crashes, answer>>

Size(s) == Cardinality(DOMAIN s.nodes) + Cardinality(DOMAIN s.edges)
Fits(s) == Cardinality(DOMAIN s.nodes) <= MaxNodes /\ Cardinality(DOMAIN s.edges) <= MaxEdges

(* Bound: one branch at a time has something in it, for the branches of a  *)
(* process share nothing; and the stores that meet a file are small ones.  *)
Unused(b) == mem[b] \in {Closed, EmptyStore} /\ seg[b].nodes = [state |-> "missing", data |-> <<>>]
Bounded(b, s) ==
    /\ \A c \in DOMAIN mem \ {b} : Unused(c)
    /\ Fits(s)
    /\ (b # "main" \/ seg[b].nodes.state # "missing" \/ crashes > 0) => Size(s) <= MaxStored

Init == FileInit /\ crashes = 0 /\ answer = <<>>

(***************************************************************************)
(* Between two questions the program opens branches, saves, links, flushes *)
(* and loads.                                                              *)
(***************************************************************************)
Quiet == answer = <<>>

Works ==
    /\ Quiet
    /\ \/ Connect
       \/ \E b \in Branches : CreateBranch(b)
       \/ \E b \in Names :
            \/ SwitchTo(b) \/ Load(b) \/ FlushNodes(b) \/ FlushNext(b) \/ FlushEdges(b)
            \/ FlushBegin(b) /\ Size(mem[b]) <= MaxStored
            \/ \E n \in NodeKinds : Save(b, n) /\ Bounded(b, mem'[b])
            \/ Opened(b) /\ \E from, to \in DOMAIN mem[b].nodes, type \in EdgeKinds :
                               Link(b, from, to, type) /\ Bounded(b, mem'[b])
    /\ UNCHANGED <<crashes, answer>>

Dies ==
    /\ crashes < MaxCrashes
    /\ crashes' = crashes + 1
    /\ Crash
    /\ answer' = <<>>

(***************************************************************************)
(* Queries.                                                                *)
(***************************************************************************)

(* What was asked, how, and what came back.  Questions are asked of main,  *)
(* before its first flush: no query looks at a file or at another branch   *)
(* (bound).                                                                *)
Answered(how, asked, r) ==
    /\ Quiet /\ Idle /\ Opened("main") /\ seg["main"].nodes.state = "missing" /\ crashes = 0
    /\ \A b \in Branches : ~exists[b]
    /\ Bounded("main", r.store)
    /\ answer' = [how |-> how, asked |-> asked, ok |-> r.ok, rows |-> r.rows, columns |-> r.columns]
    /\ mem' = [mem EXCEPT !["main"] = r.store]
    /\ UNCHANGED <<exists, seg, flushing, whole, proper, crashes>>

(* Session.execute_raw; a query that fails keeps what it had created. *)
Execute(text) == Answered("raw", text, ExecuteGql(text, <<>>, mem["main"]))

(* QueryBuilder.all, first, count and update. *)
AskAll(b) == Answered("all", b, All(b, mem["main"]))
AskFirst(b) == Answered("all", First(b), All(First(b), mem["main"]))
AskCount(b) == Answered("count", b, Count(b, mem["main"]))
AskUpdate(b, field, v) == Answered("update", b, Update(b, field, v, mem["main"]))

(* NodeEntity.with_relations, from an entity that was saved. *)
Follow(id, rel) ==
    /\ Opened("main") /\ id \in DOMAIN mem["main"].nodes
    /\ Answered("follow", <<id, rel>>, WithRelations(Classes, id, mem["main"].nodes[id].labels[1], rel, mem["main"]))

(* The program has read the answer. *)
Done ==
    /\ answer # <<>>
    /\ answer' = <<>>
    /\ UNCHANGED <<fileVars, crashes>>

Next ==
    \/ Works \/ Dies \/ Done
    \/ \E t \in Texts : Execute(t)
    \/ \E b \in Builders : AskAll(b)
    \/ \E b \in Recounted : AskFirst(b) \/ AskCount(b) \/ AskUpdate(b, "age", IntV(2))
    \/ \E id \in 1 .. MaxNodes, rel \in Relations : Follow(id, rel)

Spec == Init /\ [][Next]_vars

(***************************************************************************)
(* Properties.                                                             *)
(***************************************************************************)

(* The stores are open on branches that exist, a flush works on an open    *)
(* one, and the bounds hold.                                               *)
TypeOK ==
    /\ exists \in [Names -> BOOLEAN] /\ whole \in [Names -> BOOLEAN] /\ proper \in [Names -> BOOLEAN]
    /\ crashes \in 0 .. MaxCrashes
    /\ \A b \in Names :
          /\ Opened(b) => exists[b] /\ Fits(mem[b])
          /\ seg[b].nodes.state \in {"missing", "torn", "written"}
          /\ seg[b].edges.state \in {"missing", "torn", "written"}
    /\ flushing # <<>> => Opened(flushing[1])

(* What a query does to the stores is no more than GraphFiles says of it,  *)
(* whatever its text: a CREATE enters new nodes and edges under the next   *)
(* identifiers, and an edge between nodes that are there.  What is proved  *)
(* of GraphFiles holds of this module through it.                          *)
QueriesOnlyCreate == FileSpec

(***************************************************************************)
(* Reference answers.                                                      *)
(***************************************************************************)

(* The walks a chain of patterns matches, an undirected edge once in each  *)
(* of its two directions. *)
Hops(s, n, e) ==
    {<<d, s.edges[d].to>> : d \in {x \in DOMAIN s.edges : e.dir # "left" /\ s.edges[x].from = n}}
    \cup {<<-d, s.edges[d].from>> : d \in {x \in DOMAIN s.edges : e.dir # "right" /\ s.edges[x].to = n}}

TypeOf(s, hop) == s.edges[IF hop[1] < 0 THEN -hop[1] ELSE hop[1]].type

Walks(ps, s) ==
    LET start == {[nodes |-> <<n>>, hops |-> <<>>] :
                    n \in {m \in DOMAIN s.nodes : ps[1].label = "" \/ ps[1].label \in ToSet(s.nodes[m].labels)}}
        grow(ws, e) == UNION {{[nodes |-> Append(w.nodes, h[2]), hops |-> Append(w.hops, h[1])] :
                                 h \in {x \in Hops(s, w.nodes[Len(w.nodes)], e) :
                                          e.types = <<>> \/ TypeOf(s, x) \in ToSet(e.types)}} : w \in ws}
    IN FoldLeft(grow, start, Tail(ps))

VarsOf(ps) == <<ps[1].var>> \o [i \in DOMAIN Tail(ps) |-> Tail(ps)[i].to.var]

(* One chain of single hops over distinct named nodes, of which only the   *)
(* first has a label or properties: the engine looks at no others.         *)
PlainMatch(ps) ==
    /\ ps # <<>> /\ ps[1].kind = "node"
    /\ \A i \in DOMAIN Tail(ps) : LET e == Tail(ps)[i]
                                  IN e.kind = "edge" /\ e.to.label = "" /\ e.to.props = <<>> /\ e.props = <<>>
    /\ "" \notin ToSet(VarsOf(ps)) /\ IsInjective(VarsOf(ps))

Tuple(ps, w, s) ==
    FoldLeft(LAMBDA t, i : Bind(t, VarsOf(ps)[i], w.nodes[i], s), <<>>, [i \in DOMAIN w.nodes |-> i])

Found(q, s) ==
    LET db == [read |-> TRUE, write |-> FALSE, params |-> <<>>, store |-> s]
    IN {w \in Walks(q.match, s) : \/ q.where = <<>> \/ Eval(q.where, Tuple(q.match, w, s), db) = BoolV(TRUE)}

RowOf(q, w) ==
    LET vs == VarsOf(q.match)
    IN [k \in {<<vs[i], "">> : i \in DOMAIN vs} |-> IntV(w.nodes[CHOOSE i \in DOMAIN vs : <<vs[i], "">> = k])]

Times(x, seq) == Cardinality({i \in DOMAIN seq : seq[i] = x})

AnswerOf(how) == answer # <<>> /\ answer.how = how

(* The query of an execute_raw, when it parses. *)
Asked == {p.v : p \in {x \in {Parse(answer.asked)} : x.ok}}

SingleHops(q) == PlainMatch(q.match) /\ \A e \in ToSet(Tail(q.match)) : e.depth = <<>>

(* One row for every walk of ws; walks that look alike are as many rows. *)
RowsAre(rows, ws, row(_)) ==
    /\ Len(rows) = Cardinality(ws)
    /\ \A w \in ws : Times(row(w), rows) = Cardinality({x \in ws : row(x) = row(w)})

(* One row for every value of variable v in ws, with its number of walks. *)
CountsAre(rows, v, ws, at(_)) ==
    /\ Len(rows) = Cardinality({at(w) : w \in ws})
    /\ \A w \in ws : Times((<<v, "">> :> at(w)) @@
                            (<<"COUNT", "">> :> IntV(Cardinality({x \in ws : at(x) = at(w)}))), rows) = 1

(* A MATCH of one chain is answered with its matches, each as often as it  *)
(* occurs: no row is lost to the order of the planner's rules, none is     *)
(* doubled by a scan too many (planner.rs plan_match, executor.rs Expand). *)
MatchesAreFound ==
    AnswerOf("raw") => \A q \in Asked :
        /\ SingleHops(q) /\ q.create = <<>> /\ q.with = <<>> /\ q.order = <<>> /\ q.limit = <<>>
        /\ q.return = [i \in DOMAIN VarsOf(q.match) |-> Ident(VarsOf(q.match)[i])]
        => answer.ok /\ RowsAre(answer.rows, Found(q, mem["main"]), LAMBDA w : RowOf(q, w))

(* The nodes that n steps lead to and fewer do not. *)
RECURSIVE Shell(_, _, _, _)
Shell(s, from, e, n) ==
    IF n = 0 THEN {from}
    ELSE LET before == UNION {Shell(s, from, e, k) : k \in 0 .. n - 1}
         IN UNION {{h[2] : h \in {x \in Hops(s, m, e) : e.types = <<>> \/ TypeOf(s, x) \in ToSet(e.types)}} :
                     m \in Shell(s, from, e, n - 1)} \ before

(* A path of n to m hops finds each node whose shortest distance lies in   *)
(* the range, once, and never the start (executor.rs                       *)
(* traverse_variable_length): cycles and parallel edges add nothing.       *)
ReachedAtDistance ==
    AnswerOf("raw") => \A q \in Asked :
        LET s == mem["main"]
            e == q.match[2]
            starts == {n \in DOMAIN s.nodes : q.match[1].label = "" \/ q.match[1].label \in ToSet(s.nodes[n].labels)}
            pairs == UNION {{<<n, m>> : m \in UNION {Shell(s, n, e, k) : k \in e.depth[1] .. MaxNodes}
                                               \ (UNION {Shell(s, n, e, k) : k \in e.depth[2] + 1 .. MaxNodes} \cup {n})} :
                              n \in starts}
            row(x) == (<<q.match[1].var, "">> :> IntV(x[1])) @@ (<<e.to.var, "">> :> IntV(x[2]))
        IN /\ Len(q.match) = 2 /\ PlainMatch(q.match) /\ e.depth # <<>> /\ q.where = <<>>
           => /\ answer.ok /\ Len(answer.rows) = Cardinality(pairs)
              /\ \A x \in pairs : Times(row(x), answer.rows) = 1

(* RETURN of a variable beside COUNT makes one row for each of its values, *)
(* and the counts are those of the matches (executor.rs Aggregate).        *)
GroupsPartition ==
    AnswerOf("raw") => \A q \in Asked :
        LET v == q.return[1]
        IN /\ SingleHops(q) /\ Len(q.return) = 2 /\ v[1] = "id" /\ q.return[2][1] = "agg" /\ q.return[2][2] = "COUNT"
           => /\ answer.ok
              /\ CountsAre(answer.rows, v[2], Found(q, mem["main"]), LAMBDA w : RowOf(q, w)[<<v[2], "">>])

(***************************************************************************)
(* What a query builder was asked for.                                     *)
(***************************************************************************)
RECURSIVE Meant(_, _)
Meant(e, n) ==      \* what the lambda's author meant of node n; an absent property is no match
    CASE e[1] = "const" -> e[2]
      [] e[1] = "attr" -> IF e[3] \in DOMAIN n.props THEN n.props[e[3]] ELSE Error
      [] e[1] = "op" -> BinaryOp(Meant(e[2], n), e[3], Meant(e[4], n))
      [] e[1] = "and" -> BinaryOp(Meant(e[2], n), "AND", Meant(e[3], n))
      [] e[1] = "or" -> BinaryOp(Meant(e[2], n), "OR", Meant(e[3], n))
      [] e[1] = "not" -> LET v == Meant(e[2], n) IN IF v[1] = "bool" THEN BoolV(~v[2]) ELSE Error

Has(s, id, rel) ==
    \E e \in DOMAIN s.edges : s.edges[e].from = id /\ s.edges[e].type \in ToSet(rel.types)

Wanted(b, s) ==
    {id \in DOMAIN s.nodes :
       /\ b.label \in ToSet(s.nodes[id].labels)
       /\ \A e \in ToSet(b.where) : Meant(e, s.nodes[id]) = BoolV(TRUE)
       /\ \A x \in ToSet(b.exists) : Has(s, id, x.rel) = x.positive}

(* What the builder translates as it is meant: overloaded operators whose  *)
(* operands need no parentheses, properties that are not named like a      *)
(* keyword, numbers that are not negative, constants on the left of a      *)
(* comparison only, relations that lead outwards, no select and no order.  *)
RECURSIVE Overloaded(_)
Overloaded(e) ==
    CASE e[1] = "attr" -> e[3] \notin Keywords
      [] e[1] = "const" -> e[2][1] # "int" \/ e[2][2] >= 0
      [] e[1] = "op" -> /\ Overloaded(e[2]) /\ Overloaded(e[4])
                        /\ IF e[2][1] = "const" THEN e[3] \in DOMAIN Mirrored /\ e[4][1] # "const"
                           ELSE e[4][1] # "op" \/ e[3] \in {"AND", "OR"}
      [] OTHER -> FALSE

Translated(b) ==
    /\ b.select = <<>> /\ b.order = <<>> /\ b.joins = <<>>
    /\ \A e \in ToSet(b.where) : Overloaded(e)
    /\ \A x \in ToSet(b.exists) : x.rel.dir = "to" /\ x.rel.depth = <<>> /\ x.rel.target = ""

(* all() gives the wanted nodes, each once and no more than take() allows, *)
(* first() at most one, and count() their number when no EXISTS narrows it *)
(* (query.py _build_gql, _build_count_gql, Expr.to_gql).                   *)
BuilderAnswers ==
    /\ AnswerOf("all") /\ Translated(answer.asked) =>
         LET b == answer.asked
             ids == Wanted(b, mem["main"])
             n == Cardinality(ids)
         IN /\ answer.ok /\ Len(answer.rows) = IF b.limit # 0 /\ b.limit < n THEN b.limit ELSE n
            /\ \A i \in DOMAIN answer.rows : answer.rows[i][<<b.var, "">>][2] \in ids
            /\ IsInjective(answer.rows)
    /\ AnswerOf("count") /\ Translated(answer.asked) /\ answer.asked.exists = <<>> =>
         answer.ok /\ answer.rows = <<<<"COUNT", "">> :> IntV(Cardinality(Wanted(answer.asked, mem["main"])))>>

(* The docstrings of where() and of QueryBuilder filter with Python's      *)
(* "and": .where(lambda p: p.age > 20 and p.city.name == "Paris")          *)
WhereFilters ==
    AnswerOf("all") =>
        \A i \in DOMAIN answer.rows :
            LET b == answer.asked IN
            b.select = <<>> /\ b.joins = <<>> => answer.rows[i][<<b.var, "">>][2] \in Wanted(b, mem["main"])

(* with_relations gives one pair for every edge of the relation's types in *)
(* its direction, each with the type of that edge (orm.py with_relations). *)
(* A label without a class makes none (_hydrate_node).  Not for depth      *)
(* ranges, which name no edge, nor for incoming relations, whose pattern   *)
(* the parser refuses.                                                     *)
PairsAreEdges ==
    AnswerOf("follow") =>
        LET id == answer.asked[1]
            rel == answer.asked[2]
            s == mem["main"]
            hops == {h \in Hops(s, id, [dir |-> IF rel.dir = "to" THEN "right" ELSE "both"]) :
                       TypeOf(s, h) \in ToSet(rel.types)}
            row(h) == LET e == IF h[1] < 0 THEN -h[1] ELSE h[1]
                      IN (<<"r", "">> :> IntV(e)) @@ (<<"r", "edge_type">> :> StrV(s.edges[e].type))
                         @@ (<<"t", "">> :> IntV(h[2]))
        IN rel.dir # "from" /\ rel.depth = <<>> =>
             /\ answer.ok
             /\ Len(answer.rows) = IF rel.target \in Classes THEN Cardinality(hops) ELSE 0
             /\ rel.target \in Classes => \A h \in hops : \E i \in DOMAIN answer.rows : answer.rows[i] = row(h)
=============================================================================
