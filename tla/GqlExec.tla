------------------------------- MODULE GqlExec -------------------------------
(***************************************************************************)
(* How casys_engine answers a query: the plan made from the syntax tree    *)
(* (exec/planner.rs) and its execution over a graph store                  *)
(* (exec/executor.rs).                                                     *)
(*                                                                         *)
(* A plan is the row of operators its tree is made of, input first; only   *)
(* a product has a second branch.  A tuple maps <<variable, property>> to  *)
(* a value, <<variable, "">> being the variable itself.  Floats are        *)
(* fractions <<"float", n, d>>, so rounding is left out.                   *)
(***************************************************************************)
EXTENDS GqlSyntax, GraphIndex

CONSTANT Collation      \* the strings that are compared, in ascending order

(***************************************************************************)
(* Planner.                                                                *)
(***************************************************************************)
Filter(pred) == <<[op |-> "filter", pred |-> pred]>>
Scan(var, label) == <<[op |-> "scan", var |-> var, label |-> label]>>

PropsPred(var, props) ==
    LET eq(k) == Bin(Prop(var, k), "=", Lit(props[k]))
        ks == SetToSeq(DOMAIN props)
    IN FoldLeft(LAMBDA e, k : Bin(e, "AND", eq(k)), eq(Head(ks)), Tail(ks))

(* The inline properties of a node pattern, as a filter. *)
PropsFilter(var, props) == IF props = <<>> THEN <<>> ELSE Filter(PropsPred(var, props))

IsKind(ps, i, kind) == i \in DOMAIN ps /\ ps[i].kind = kind

(* The variable at the far end of edge i: its own, that of the node        *)
(* pattern that comes next, or a made-up one.                              *)
ToVar(ps, i) ==
    IF ps[i].to.var # "" THEN ps[i].to.var
    ELSE IF IsKind(ps, i + 1, "node") THEN ps[i + 1].var
    ELSE "__anon_to_" \o ToString(i)

ToVars(ps) ==
    {ToVar(ps, i) : i \in {j \in DOMAIN ps : ps[j].kind = "edge"
                                             /\ (ps[j].to.var # "" \/ IsKind(ps, j + 1, "node"))}} \ {""}

PlanNode(ps, st, i) ==
    LET n == ps[i]
        scan == Scan(n.var, n.label) \o PropsFilter(n.var, n.props)
    IN IF n.var # "" /\ n.var \in st.bound
       THEN [st EXCEPT !.plan = @ \o PropsFilter(n.var, n.props)]
       ELSE IF n.var # "" /\ n.var \in ToVars(ps) THEN st
       ELSE IF n.var # "" /\ st.plan # <<>> /\ IsKind(ps, i + 1, "edge") /\ ps[i + 1].from.var = n.var
       THEN st
       ELSE IF n.var = "" THEN [st EXCEPT !.ok = FALSE]
       ELSE [st EXCEPT !.bound = @ \cup {n.var},
                       !.plan = IF @ = <<>> THEN scan
                                ELSE Append(@, [op |-> "product", right |-> scan])]

PlanEdge(ps, st, i) ==
    LET e == ps[i]
        from == e.from.var
        to == ToVar(ps, i)
        near(j) == IF IsKind(ps, j, "node") /\ ps[j].var = to THEN PropsFilter(to, ps[j].props) ELSE <<>>
        differ == Bin(<<"call", "ID", <<Ident(from)>>>>, "!=", <<"call", "ID", <<Ident(to)>>>>)
    IN IF from = "" \/ to = "" THEN [st EXCEPT !.ok = FALSE]
       ELSE [st EXCEPT
         !.bound = @ \cup {to},
         !.plan = (IF @ = <<>> THEN Scan(from, e.from.label) ELSE @)
                  \o PropsFilter(from, e.from.props)
                  \o <<[op |-> "expand", from |-> from, edge |-> e.var, to |-> to,
                        types |-> e.types, dir |-> e.dir, depth |-> e.depth]>>
                  \o near(i - 1) \o near(i + 1) \o PropsFilter(from, e.from.props)
                  \o (IF e.depth # <<>> /\ e.depth[1] >= 1 THEN Filter(differ) ELSE <<>>)]

(* The patterns in order, then every inline property once more. *)
PlanMatch(ps) ==
    LET step(st, i) == IF ~st.ok THEN st
                       ELSE IF ps[i].kind = "node" THEN PlanNode(ps, st, i) ELSE PlanEdge(ps, st, i)
        end == FoldLeft(step, [ok |-> TRUE, plan |-> <<>>, bound |-> {}], [i \in DOMAIN ps |-> i])
        props == FoldLeft(LAMBDA fs, p : IF p.kind = "node" /\ p.var # ""
                                         THEN fs \o PropsFilter(p.var, p.props) ELSE fs, <<>>, ps)
    IN [ok |-> end.ok /\ end.plan # <<>>, plan |-> end.plan \o props]

RECURSIVE HasAggregate(_)
HasAggregate(e) == \/ e[1] = "agg"
                   \/ e[1] = "bin" /\ (HasAggregate(e[2]) \/ HasAggregate(e[4]))
                   \/ e[1] = "not" /\ HasAggregate(e[2])

Project(items) == <<[op |-> "project", items |-> items]>>

Plan(q) ==
    LET base == IF q.match = <<>> THEN [ok |-> TRUE, plan |-> <<[op |-> "create", patterns |-> q.create]>>]
                ELSE LET m == PlanMatch(q.match)
                     IN IF q.create = <<>> THEN m
                        ELSE [m EXCEPT !.plan = Append(@, [op |-> "matchcreate", patterns |-> q.create])]
        items == [i \in DOMAIN q.return |-> [expr |-> q.return[i], alias |-> ""]]
        aggregate == [op |-> "aggregate",
                      groups |-> SelectSeq(q.return, LAMBDA e : ~HasAggregate(e)),
                      aggs |-> SelectSeq(q.return, HasAggregate)]
        tail == IF q.return = <<>> THEN <<>>
                ELSE (IF \E i \in DOMAIN q.return : HasAggregate(q.return[i]) THEN <<aggregate>>
                      ELSE Project(items))
                     \o (IF q.order = <<>> THEN <<>> ELSE <<[op |-> "order", items |-> q.order]>>)
                     \o (IF q.limit = <<>> THEN <<>> ELSE <<[op |-> "limit", count |-> q.limit[1]]>>)
    IN [base EXCEPT !.plan = @ \o (IF q.with = <<>> THEN <<>> ELSE Project(q.with))
                               \o (IF q.where = <<>> THEN <<>> ELSE Filter(q.where)) \o tail]

(***************************************************************************)
(* Values.                                                                 *)
(***************************************************************************)
Error == <<"error", "">>
IsNum(v) == v[1] \in {"int", "float"}
Fraction(v) == IF v[1] = "int" THEN <<v[2], 1>> ELSE <<v[2], v[3]>>
Float(n, d) == IF d < 0 THEN <<"float", -n, -d>> ELSE <<"float", n, d>>

Compare(a, op, b) ==
    LET l == a[1] * b[2]
        r == b[1] * a[2]
    IN CASE op = "=" -> l = r [] op = "!=" -> l # r [] op = "<" -> l < r
         [] op = "<=" -> l <= r [] op = ">" -> l > r [] op = ">=" -> l >= r

(* Integer division in Rust drops the fraction, whatever the signs. *)
Quotient(l, r) == IF (l < 0) = (r < 0) THEN (IF l < 0 THEN -l ELSE l) \div (IF r < 0 THEN -r ELSE r)
                  ELSE -((IF l < 0 THEN -l ELSE l) \div (IF r < 0 THEN -r ELSE r))

NumOp(l, op, r) ==
    LET a == Fraction(l)
        b == Fraction(r)
        ints == l[1] = "int" /\ r[1] = "int"
    IN CASE op \in Comparisons -> BoolV(Compare(a, op, b))
         [] op \in {"AND", "OR"} -> Error
         [] op = "/" /\ b[1] = 0 -> Error
         [] op = "/" /\ b[1] # 0 -> IF ints THEN IntV(Quotient(l[2], r[2])) ELSE Float(a[1] * b[2], a[2] * b[1])
         [] op = "*" -> IF ints THEN IntV(l[2] * r[2]) ELSE Float(a[1] * b[1], a[2] * b[2])
         [] op \in {"+", "-"} ->
              LET n == IF op = "+" THEN a[1] * b[2] + b[1] * a[2] ELSE a[1] * b[2] - b[1] * a[2]
              IN IF ints THEN IntV(n) ELSE Float(n, a[2] * b[2])

(* Only values of one kind meet; NULL meets nothing. *)
BinaryOp(l, op, r) ==
    CASE IsNum(l) /\ IsNum(r) -> NumOp(l, op, r)
      [] l[1] = "bool" /\ r[1] = "bool" ->
           (CASE op = "AND" -> BoolV(l[2] /\ r[2]) [] op = "OR" -> BoolV(l[2] \/ r[2])
              [] op = "=" -> BoolV(l[2] = r[2]) [] op = "!=" -> BoolV(l[2] # r[2]) [] OTHER -> Error)
      [] l[1] = "str" /\ r[1] = "str" ->
           (CASE op = "=" -> BoolV(l[2] = r[2]) [] op = "!=" -> BoolV(l[2] # r[2]) [] OTHER -> Error)
      [] OTHER -> Error

(* What a value is once it has gone through JSON. *)
Json(v) == IF v[1] = "node" THEN IntV(v[2]) ELSE v

(***************************************************************************)
(* Executor.  "db" is the context of an execution: the store that is read  *)
(* ([read |-> FALSE] in a query with CREATE, whose expressions have none)  *)
(* and the parameters.                                                     *)
(***************************************************************************)
Bind(t, var, id, s) ==
    LET props == s.nodes[id].props
    IN [k \in {<<var, p>> : p \in DOMAIN props} |-> props[k[2]]] @@ (<<var, "">> :> <<"node", id>>) @@ t

BindEdge(t, var, id, s) ==
    IF var = "" THEN t
    ELSE LET e == s.edges[id]
         IN [k \in {<<var, p>> : p \in DOMAIN e.props} |-> e.props[k[2]]]
            @@ (<<var, "edge_type">> :> StrV(e.type)) @@ (<<var, "">> :> IntV(id)) @@ t

OfTypesFirst(pairs, types, s) ==
    IF types = <<>> THEN pairs ELSE SelectSeq(pairs, LAMBDA p : s.edges[p[1]].type = Head(types))

OfTypes(pairs, types, s) ==
    IF types = <<>> THEN pairs ELSE SelectSeq(pairs, LAMBDA p : s.edges[p[1]].type \in ToSet(types))

RECURSIVE TraverseUnmarked(_, _, _, _, _, _)
TraverseUnmarked(s, queue, visited, op, start, found) ==
    IF queue = <<>> THEN found
    ELSE LET at == Head(queue)
             pairs == IF at[2] >= op.depth[2] \/ at[2] >= 3 THEN <<>>
                      ELSE OfTypes(Neighbours(s, at[1], op.dir), op.types, s)
             new == [i \in DOMAIN pairs |-> pairs[i][2]]
         IN TraverseUnmarked(s, Tail(queue) \o [i \in DOMAIN new |-> <<new[i], at[2] + 1>>], visited, op, start,
                             IF at[2] + 1 >= op.depth[1] THEN found \o new ELSE found)

(* traverse_variable_length: breadth first, each node at its shortest      *)
(* depth, in the order it is reached; the start is never among them.       *)
RECURSIVE Traverse(_, _, _, _, _, _)
Traverse(s, queue, visited, op, start, found) ==
    IF queue = <<>> THEN found
    ELSE LET at == Head(queue)
             next == at[2] + 1
             pairs == IF at[2] >= op.depth[2] THEN <<>>
                      ELSE OfTypes(Neighbours(s, at[1], op.dir), op.types, s)
             new == FoldLeft(LAMBDA ns, p : IF p[2] \in visited \cup ToSet(ns) THEN ns ELSE Append(ns, p[2]),
                             <<>>, pairs)
         IN Traverse(s, Tail(queue) \o (IF next < op.depth[2] THEN [i \in DOMAIN new |-> <<new[i], next>>] ELSE <<>>),
                     visited \cup ToSet(new), op, start,
                     IF next >= op.depth[1] /\ next <= op.depth[2] THEN found \o new ELSE found)

(* A step from one node to the next: never back onto what the far variable *)
(* holds already, and any other node replaces it.                          *)
Expand(op, t, s) ==
    IF <<op.from, "">> \notin DOMAIN t \/ t[<<op.from, "">>][1] # "node" THEN <<>>
    ELSE LET from == t[<<op.from, "">>][2]
             far(n) == <<op.to, "">> \in DOMAIN t /\ t[<<op.to, "">>] = <<"node", n>>
             hops == SelectSeq(OfTypes(Neighbours(s, from, op.dir), op.types, s), LAMBDA p : ~far(p[2]))
             reached == SelectSeq(Traverse(s, <<<<from, 0>>>>, {from}, op, from, <<>>),
                                  LAMBDA n : n # from /\ ~far(n))
         IN IF op.depth = <<>>
            THEN [i \in DOMAIN hops |-> BindEdge(Bind(t, op.to, hops[i][2], s), op.edge, hops[i][1], s)]
            ELSE [i \in DOMAIN reached |-> Bind(t, op.to, reached[i], s)]

(* A scan, or in a correlated subquery the node that is bound already. *)
ScanRows(op, t, s) ==
    IF <<op.var, "">> \in DOMAIN t
    THEN LET v == t[<<op.var, "">>]
         IN IF v[1] = "node" /\ v[2] \in DOMAIN s.nodes
               /\ (op.label = "" \/ op.label \in ToSet(s.nodes[v[2]].labels))
            THEN <<Bind(t, op.var, v[2], s)>> ELSE <<>>
    ELSE LET ids == IF op.label = "" THEN ScanAll(s) ELSE ScanByLabel(s, op.label)
         IN [i \in DOMAIN ids |-> Bind(t, op.var, ids[i], s)]

Negated(v) == IF v[1] = "bool" THEN BoolV(~v[2]) ELSE Error
NullTest(v, null) == IF v = Error THEN v ELSE BoolV((v = Null) = null)
IdOf(v) == IF v[1] = "node" THEN IntV(v[2]) ELSE Error
NonEmpty(r) == IF r.ok THEN BoolV(r.rows # <<>>) ELSE Error

RECURSIVE Eval(_, _, _), Exists(_, _, _), Run(_, _, _, _)

Eval(e, t, db) ==
    CASE e[1] = "lit" -> e[2]
      [] e[1] = "id" -> IF <<e[2], "">> \in DOMAIN t THEN t[<<e[2], "">>] ELSE Error
      [] e[1] = "prop" -> IF <<e[2], e[3]>> \in DOMAIN t THEN t[<<e[2], e[3]>>] ELSE Error
      [] e[1] = "param" -> IF e[2] \in DOMAIN db.params THEN db.params[e[2]] ELSE Error
      [] e[1] = "bin" -> BinaryOp(Eval(e[2], t, db), e[3], Eval(e[4], t, db))
      [] e[1] = "not" -> Negated(Eval(e[2], t, db))
      [] e[1] \in {"isnull", "notnull"} -> NullTest(Eval(e[2], t, db), e[1] = "isnull")
      [] e[1] = "call" -> IF e[2] = "ID" /\ Len(e[3]) = 1 THEN IdOf(Eval(e[3][1], t, db)) ELSE Error
      [] e[1] = "exists" -> Exists(Plan(e[2]), t, db)
      [] e[1] = "agg" -> Error

(* A correlated subquery starts from the tuple; it reads, never creates.   *)
(* (The short cut for a pattern that begins with an edge is never taken:   *)
(* the parser begins every MATCH with a node.)                             *)
Exists(p, t, db) ==
    IF ~p.ok THEN Error ELSE IF ~db.read THEN BoolV(FALSE)
    ELSE NonEmpty(Run(p.plan, t, db.store, [db EXCEPT !.write = FALSE]))

(* The values of the expressions es in each of the tuples ts. *)
Values(es, ts, db) == [i \in DOMAIN ts |-> [k \in DOMAIN es |-> Eval(es[k], ts[i], db)]]

(* The column an expression goes to when it has no alias. *)
Column(e, otherwise) ==
    CASE e[1] = "id" -> <<e[2], "">> [] e[1] = "prop" -> <<e[2], e[3]>> [] OTHER -> <<otherwise, "">>

(* The row of a projection whose items have the values vs. *)
ProjectRow(items, vs) ==
    LET key(i) == IF items[i].alias # "" THEN <<items[i].alias, "">> ELSE Column(items[i].expr, "?")
        good == SelectSeq([i \in DOMAIN items |-> i], LAMBDA i : vs[i] # Error)
    IN FoldLeft(LAMBDA row, i : (key(i) :> vs[i]) @@ row, <<>>, good)

AggregateOfNumbers(a, vs) == IntV(Len(SelectSeq(vs, IsNum)))

(* An aggregate whose argument has the values vs in the rows of a group. *)
AggregateOf(a, vs) ==
    LET ns == SelectSeq(vs, IsNum)
        sum == FoldLeft(LAMBDA x, v : NumOp(x, "+", v), Float(0, 1), ns)
        best(op) == LET v == FoldLeft(LAMBDA x, w : IF Compare(Fraction(w), op, Fraction(x)) THEN w ELSE x,
                                      Head(ns), Tail(ns))
                    IN Float(Fraction(v)[1], Fraction(v)[2])
    IN CASE a[2] = "COUNT" -> IntV(Len(vs))
         [] a[2] = "SUM" -> sum
         [] a[2] = "AVG" -> IF ns = <<>> THEN Null ELSE NumOp(sum, "/", IntV(Len(ns)))
         [] a[2] = "MIN" -> IF ns = <<>> THEN Null ELSE best("<")
         [] a[2] = "MAX" -> IF ns = <<>> THEN Null ELSE best(">")

(* Rows are grouped by the JSON text of the other RETURN items; vals[i]    *)
(* are the values in row i of these items and of the aggregates'           *)
(* arguments.  The groups, and the columns of a row, come in the order of  *)
(* a hash map.                                                             *)
Aggregate(op, vals) ==
    LET n == Len(op.groups)
        text(i) == [k \in 1 .. n |-> Json(vals[i][k])]
        all == [i \in DOMAIN vals |-> i]
        firsts == SelectSeq(all, LAMBDA i : \A j \in 1 .. i - 1 : text(j) # text(i))
        groups == IF n = 0 THEN <<all>>
                  ELSE [g \in DOMAIN firsts |-> SelectSeq(all, LAMBDA i : text(i) = text(firsts[g]))]
        grouped(g) == FoldLeft(LAMBDA r, k : (Column(op.groups[k], "group_" \o ToString(k)) :> vals[g[1]][k]) @@ r,
                               <<>>, [k \in 1 .. n |-> k])
        row(g) == FoldLeft(LAMBDA r, k : (<<op.aggs[k][2], "">>
                                            :> AggregateOf(op.aggs[k], [i \in DOMAIN g |-> vals[g[i]][n + k]])) @@ r,
                           grouped(g), [k \in DOMAIN op.aggs |-> k])
        ok == /\ \A i \in DOMAIN vals : \A k \in 1 .. n : vals[i][k] # Error
              /\ \A k \in DOMAIN op.aggs : op.aggs[k][1] = "agg"
    IN [ok |-> ok, rows |-> IF ok THEN [g \in DOMAIN groups |-> row(groups[g])] ELSE <<>>]

StrLess(a, b) == \E i, j \in DOMAIN Collation : i < j /\ Collation[i] = a /\ Collation[j] = b

(* Two values of one kind are ordered; everything else ties. *)
Before(a, b) ==
    \/ a[1] = b[1] /\ IsNum(a) /\ Compare(Fraction(a), "<", Fraction(b))
    \/ a[1] = "str" /\ b[1] = "str" /\ StrLess(a[2], b[2])

(* A stable sort by the first item that tells two rows apart; vals[i] are  *)
(* the values of the items in row i.                                       *)
Sort(items, ts, vals) ==
    LET less(i, j, k) == IF items[k].desc THEN Before(vals[j][k], vals[i][k]) ELSE Before(vals[i][k], vals[j][k])
        first(i, j) == \E k \in DOMAIN items :
                          /\ less(i, j, k)
                          /\ \A h \in 1 .. k - 1 : ~less(i, j, h) /\ ~less(j, i, h)
        order == SortSeq([i \in DOMAIN ts |-> i], LAMBDA i, j : first(i, j) \/ (~first(j, i) /\ i < j))
    IN [i \in DOMAIN ts |-> ts[order[i]]]

(***************************************************************************)
(* CREATE: pattern by pattern; what was created before an error stays.     *)
(***************************************************************************)
EndOf(var, cr, parent) ==
    IF var \in DOMAIN cr.vars THEN cr.vars[var]
    ELSE IF var # "" /\ <<var, "">> \in DOMAIN parent /\ parent[<<var, "">>][1] = "node"
    THEN parent[<<var, "">>][2] ELSE 0

(* The types of an edge pattern are one text, A|B|C, until a query splits it. *)
Joined(types) == FoldLeft(LAMBDA a, b : a \o "|" \o b, Head(types), Tail(types))

EdgeRefusedUntyped(p, from, to) == p.types = <<>>

(* An edge needs its two ends, bound before, and a type. *)
EdgeRefused(p, from, to) == from = 0 \/ to = 0 \/ p.types = <<>>

CreatePattern(cr, p, parent) ==
    LET id == cr.store.nextNode
        named == IF p.kind = "node" THEN p.var # "" ELSE FALSE
        from == EndOf(p.from.var, cr, parent)
        to == EndOf(p.to.var, cr, parent)
    IN IF ~cr.ok THEN cr
       ELSE IF p.kind = "node"
       THEN [cr EXCEPT !.store = AddNode(@, IF p.label = "" THEN <<>> ELSE <<p.label>>, p.props),
                       !.vars = IF named THEN (p.var :> id) @@ @ ELSE @,
                       !.tuple = IF named THEN (<<p.var, "">> :> <<"node", id>>) @@ @ ELSE @]
       ELSE IF EdgeRefused(p, from, to) THEN [cr EXCEPT !.ok = FALSE]
       ELSE [cr EXCEPT !.store = AddEdge(@, from, to, Joined(p.types), p.props),
                       !.tuple = IF p.var = "" THEN @ ELSE (<<p.var, "">> :> IntV(cr.store.nextEdge)) @@ @]

Create(patterns, parent, s) ==
    FoldLeft(LAMBDA cr, p : CreatePattern(cr, p, parent),
             [ok |-> TRUE, store |-> s, vars |-> <<>>, tuple |-> parent], patterns)

(* CREATE once for every matched tuple. *)
CreateEach(patterns, ts, s) ==
    FoldLeft(LAMBDA r, t : IF ~r.ok THEN r
                           ELSE LET c == Create(patterns, t, r.store)
                                IN [ok |-> c.ok, store |-> c.store, rows |-> Append(r.rows, c.tuple)],
             [ok |-> TRUE, store |-> s, rows |-> <<>>], ts)

Product(left, right) ==
    [right EXCEPT !.rows = FoldLeft(LAMBDA ts, t : ts \o [j \in DOMAIN @ |-> @[j] @@ t], <<>>, left)]

(* The expressions an operator evaluates in each row it is given. *)
ExprsOf(op) ==
    CASE op.op = "filter" -> <<op.pred>>
      [] op.op \in {"project", "order"} -> [k \in DOMAIN op.items |-> op.items[k].expr]
      [] op.op = "aggregate" -> op.groups \o [k \in DOMAIN op.aggs |-> IF op.aggs[k][1] = "agg" THEN op.aggs[k][3]
                                                                      ELSE op.aggs[k]]
      [] OTHER -> <<>>

Step(op, r, vals, parent, db) ==
    LET rows(ts) == [r EXCEPT !.rows = ts]
        written(w) == IF db.write THEN w ELSE [r EXCEPT !.ok = FALSE]
        kept == SelectSeq([i \in DOMAIN r.rows |-> i], LAMBDA i : vals[i][1] = BoolV(TRUE))
    IN IF ~r.ok THEN r ELSE
       CASE op.op = "scan" -> rows(ScanRows(op, parent, r.store))
         [] op.op = "filter" -> rows([i \in DOMAIN kept |-> r.rows[kept[i]]])
         [] op.op = "product" -> Product(r.rows, Run(op.right, parent, r.store, db))
         [] op.op = "expand" -> rows(FoldLeft(LAMBDA ts, t : ts \o Expand(op, t, r.store), <<>>, r.rows))
         [] op.op \in {"create", "matchcreate"} ->
              written(CreateEach(op.patterns, IF op.op = "create" THEN <<parent>> ELSE r.rows, r.store))
         [] op.op = "project" -> rows([i \in DOMAIN r.rows |-> ProjectRow(op.items, vals[i])])
         [] op.op = "aggregate" -> Aggregate(op, vals) @@ r
         [] op.op = "order" -> rows(Sort(op.items, r.rows, vals))
         [] op.op = "limit" -> rows(SubSeq(r.rows, 1, IF op.count < Len(r.rows) THEN op.count ELSE Len(r.rows)))

Run(plan, parent, s, db) ==
    FoldLeft(LAMBDA r, op : Step(op, r, Values(ExprsOf(op), r.rows, db), parent, db),
             [ok |-> TRUE, rows |-> <<>>, store |-> s], plan)

(* The columns of the outermost projection; without one, hash map order. *)
ColumnsOf(plan) ==
    LET ps == SelectSeq(plan, LAMBDA op : op.op \notin {"order", "limit"})
        last == ps[Len(ps)]
    IN IF last.op # "project" THEN <<>>
       ELSE [i \in DOMAIN last.items |-> IF last.items[i].alias # "" THEN <<last.items[i].alias, "">>
                                         ELSE Column(last.items[i].expr, "?")]

Failed(s) == [ok |-> FALSE, columns |-> <<>>, rows |-> <<>>, store |-> s]

(* Rows have the columns of the projection, else those of the first row;   *)
(* what a tuple lacks is NULL.                                             *)
Reply(r, columns) ==
    LET keys == IF columns # <<>> THEN ToSet(columns) ELSE IF r.rows = <<>> THEN {} ELSE DOMAIN Head(r.rows)
    IN [ok |-> r.ok, columns |-> columns, store |-> r.store,
        rows |-> IF r.ok THEN [i \in DOMAIN r.rows |-> [k \in keys |->
                                  IF k \in DOMAIN r.rows[i] THEN Json(r.rows[i][k]) ELSE Null]]
                 ELSE <<>>]

(* A query with CREATE gets the store to write and none to read in its     *)
(* expressions.                                                            *)
ExecutePlan(p, write, params, s) ==
    IF ~p.ok THEN Failed(s)
    ELSE Reply(Run(p.plan, <<>>, s, [read |-> ~write, write |-> write, params |-> params, store |-> s]),
               ColumnsOf(p.plan))

ExecuteQuery(q, params, s) ==
    IF ~q.ok THEN Failed(s) ELSE ExecutePlan(Plan(q.v), q.v.create # <<>>, params, s)

(* execute_gql_on_store: parse, plan, run. *)
ExecuteGql(tokens, params, s) == ExecuteQuery(Parse(tokens), params, s)
=============================================================================
