------------------------------ MODULE CasysSdk ------------------------------
(***************************************************************************)
(* The Python SDK over the engine: the QueryBuilder that turns lambdas     *)
(* into a query text (casys_db/query.py) and the relation patterns of the  *)
(* object mapper (casys_db/orm.py).                                        *)
(*                                                                         *)
(* A lambda's body is a tree:                                              *)
(*   <<"name", v>>  <<"attr", v, k>>  <<"const", value>>                   *)
(*   <<"op", l, o, r>>   an operator the class Expr overloads; & and | are *)
(*                       written AND and OR, the operators they stand for  *)
(*   <<"and", l, r>> <<"or", l, r>> <<"not", e>>   Python's own            *)
(*   <<"any", relation>>   a call of any() on a declared relation          *)
(*   <<"any", relation, far, e>>   any() with a lambda over the far node;  *)
(*                         far is the first letter of its label, which the *)
(*                         text gives the lambda's parameter as a name     *)
(***************************************************************************)
EXTENDS GqlExec

T(k) == <<<<"t", k>>>>
W(w) == <<Word(w)>>
L(v) == <<<<"lit", v>>>>

(***************************************************************************)
(* What the lambda returns when it is called with a Var.  An Expr is true  *)
(* to Python, so "and" gives its right operand and "or" its left one;      *)
(* "not" gives False; any() raises.  Of a comparison with a constant on    *)
(* the left Python calls the mirrored method of the right operand; Expr    *)
(* has no such method for the other operators, and they raise.  No lambda  *)
(* combines two constants.                                                 *)
(***************************************************************************)
Raised == <<"raised">>
IsExpr(x) == x[1] \in {"name", "attr", "op"}
IsTrue(x) == IsExpr(x) \/ x[2] # BoolV(FALSE)

Mirrored ==
    [o \in {"=", "!=", "<", "<=", ">", ">="} |->
       CASE o = "<" -> ">" [] o = "<=" -> ">=" [] o = ">" -> "<" [] o = ">=" -> "<="
         [] OTHER -> o]

RECURSIVE Called(_)
Called(e) ==
    CASE e[1] \in {"name", "attr", "const"} -> e
      [] e[1] = "any" -> Raised
      [] e[1] = "not" -> LET x == Called(e[2])
                         IN IF x = Raised THEN x ELSE <<"const", BoolV(~IsTrue(x))>>
      [] e[1] = "and" -> LET x == Called(e[2])
                         IN IF x = Raised \/ ~IsTrue(x) THEN x ELSE Called(e[3])
      [] e[1] = "or" -> LET x == Called(e[2])
                        IN IF x = Raised \/ IsTrue(x) THEN x ELSE Called(e[3])
      [] e[1] = "op" -> LET l == Called(e[2])
                            r == Called(e[4])
                        IN CASE Raised \notin {l, r} /\ IsExpr(l) -> <<"op", l, e[3], r>>
                             [] l # Raised /\ ~IsExpr(l) /\ IsExpr(r) /\ e[3] \in DOMAIN Mirrored ->
                                  <<"op", r, Mirrored[e[3]], l>>
                             [] OTHER -> Raised

(* A negative number is written with its sign, which the lexer splits off. *)
ConstTokens(v) == IF v[1] = "int" /\ v[2] < 0 THEN T("-") \o L(IntV(-v[2]))
                  ELSE IF v = Null THEN W("None") ELSE L(v)

RECURSIVE ToGqlBare(_)
ToGqlBare(x) ==
    CASE x[1] = "name" -> W(x[2])
      [] x[1] = "attr" -> W(x[2]) \o T(".") \o W(x[3])
      [] x[1] = "const" -> ConstTokens(x[2])
      [] x[1] = "op" -> ToGqlBare(x[2]) \o T(x[3]) \o ToGqlBare(x[4])

(* Expr.to_gql: only AND and OR are put in parentheses. *)
RECURSIVE ToGql(_)
ToGql(x) ==
    CASE x[1] = "name" -> W(x[2])
      [] x[1] = "attr" -> W(x[2]) \o T(".") \o W(x[3])
      [] x[1] = "const" -> ConstTokens(x[2])
      [] x[1] = "op" -> LET ts == ToGql(x[2]) \o T(x[3]) \o ToGql(x[4])
                        IN IF x[3] \in {"AND", "OR"} THEN T("(") \o ts \o T(")") ELSE ts

(***************************************************************************)
(* Patterns.                                                               *)
(***************************************************************************)
NodeTokens(var, label) ==
    T("(") \o (IF var = "" THEN <<>> ELSE W(var))
           \o (IF label = "" THEN <<>> ELSE T(":") \o W(label)) \o T(")")

DepthTokens(d) ==
    IF d = <<>> THEN <<>>
    ELSE T("*") \o L(IntV(d[1])) \o (IF d[1] = d[2] THEN <<>> ELSE T("..") \o L(IntV(d[2])))

(* :A|B*min..max] *)
TypeTokens(rel) ==
    T(":") \o FoldLeft(LAMBDA ts, t : ts \o T("|") \o W(t), W(Head(rel.types)), Tail(rel.types))
      \o DepthTokens(rel.depth) \o T("]")

EdgeTokens(rel) == T("-") \o T("[") \o TypeTokens(rel)

(* where_exists_edge and _build_exists_for_relation: the outer variable,   *)
(* with its label in the latter, and a nameless far end.                   *)
ExistsTokens(var, label, rel) ==
    LET near == NodeTokens(var, label)
        far == NodeTokens("", rel.target)
    IN T("EXISTS") \o T("{") \o T("MATCH")
         \o (IF rel.dir = "from" THEN near \o T("<-") \o Tail(EdgeTokens(rel)) \o T("-") \o far
             ELSE near \o EdgeTokens(rel) \o T("->") \o far)
         \o T("RETURN") \o W(var) \o T("}")

(* any() with a predicate: the pattern starts at the source of the edge.   *)
AnyTokens(var, rel, far, predicate) ==
    LET near == NodeTokens(var, "")
        there == NodeTokens(far, rel.target)
        edge == EdgeTokens(rel) \o T("->")
    IN T("EXISTS") \o T("{") \o T("MATCH")
         \o (IF rel.dir = "from" THEN there \o edge \o near ELSE near \o edge \o there)
         \o T("WHERE") \o predicate \o T("RETURN") \o W(var) \o T("}")

(* When the call gives no Expr the source text of the lambda is rewritten. *)
(* & and | stay what they are in Python, which the lexer does not know.    *)
RECURSIVE Source(_, _)
Source(e, b) ==
    LET paren(x, tags) == IF x[1] \in tags THEN T("(") \o Source(x, b) \o T(")") ELSE Source(x, b)
        python(o) == IF o = "AND" THEN <<<<"bad", "&">>>> ELSE IF o = "OR" THEN T("|") ELSE T(o)
    IN CASE e[1] \in {"name", "attr", "const"} -> ToGql(e)
         [] e[1] = "op" -> paren(e[2], {"and", "or", "not", "op"}) \o python(e[3])
                             \o paren(e[4], {"and", "or", "not", "op"})
         [] e[1] = "and" -> paren(e[2], {"or"}) \o T("AND") \o paren(e[3], {"or"})
         [] e[1] = "or" -> Source(e[2], b) \o T("OR") \o Source(e[3], b)
         [] e[1] = "not" -> T("NOT") \o paren(e[2], {"and", "or"})
         [] e[1] = "any" /\ Len(e) = 2 -> T("(") \o ExistsTokens(b.var, b.label, b.relations[e[2]]) \o T(")")
         [] e[1] = "any" /\ Len(e) = 4 ->
              T("(") \o AnyTokens(b.var, b.relations[e[2]], e[3], Source(e[4], b)) \o T(")")

LambdaToGql(e, b) == LET x == Called(e) IN IF IsExpr(x) THEN ToGql(x) ELSE Source(e, b)

(* The attributes a lambda reads, as its bytecode names them; any() is one. *)
RECURSIVE Attributes(_)
Attributes(e) ==
    CASE e[1] = "attr" -> {<<e[2], e[3]>>}
      [] e[1] \in {"op", "and", "or"} -> Attributes(e[2]) \cup Attributes(e[Len(e)])
      [] e[1] = "not" -> Attributes(e[2])
      [] e[1] = "any" -> {<<"", e[2]>>, <<"", "any">>}
      [] OTHER -> {}

(* A projected lambda that gives no Expr: one that reads a single          *)
(* attribute stands for it, whatever else it says.                         *)
Projected(e, b) ==
    LET x == Called(e)
    IN IF IsExpr(x) THEN ToGql(x)
       ELSE IF Cardinality(Attributes(e)) = 1
            THEN LET a == CHOOSE a \in Attributes(e) : TRUE IN W(a[1]) \o T(".") \o W(a[2])
       ELSE Source(e, b)

(* The key of order_by is always read from the source: it is an attribute, *)
(* so nothing in it is rewritten but its variable.                         *)
SortKey(e, b) == Source(e, b)

(***************************************************************************)
(* The QueryBuilder.  A second where() replaces the first.                 *)
(***************************************************************************)
NewBuilder(label, var, relations) ==
    [label |-> label, var |-> var, relations |-> relations, where |-> <<>>, post |-> <<>>,
     exists |-> <<>>, joins |-> <<>>, select |-> <<>>, order |-> <<>>, limit |-> 0, params |-> <<>>]

Where(b, e) == IF b.select # <<>> THEN [b EXCEPT !.post = <<e>>] ELSE [b EXCEPT !.where = <<e>>]
OrderBy(b, e, desc) == [b EXCEPT !.order = Append(@, [e |-> e, desc |-> desc])]
Take(b, n) == [b EXCEPT !.limit = n]
WhereExistsEdge(b, rel) == [b EXCEPT !.exists = Append(@, [rel |-> rel, positive |-> TRUE])]
WhereNotExistsEdge(b, rel) == [b EXCEPT !.exists = Append(@, [rel |-> rel, positive |-> FALSE])]
Param(b, k, v) == [b EXCEPT !.params = (k :> v) @@ @]

(* select(alias = lambda, ...) *)
Select(b, items) == [b EXCEPT !.select = items]

(* select() of a lambda that returns a dict: the source is split at every  *)
(* colon and only what precedes the first colon of the dict is kept, where *)
(* no item is found; the projection is dropped.                            *)
SelectDict(b, items) == Select(b, <<>>)

(* join, join_out, join_in: a relation, its alias defaulting to the first  *)
(* letter of the target, and with_label.                                   *)
Join(b, rel, alias, label) == [b EXCEPT !.joins = Append(@, [rel |-> rel, alias |-> alias, label |-> label])]

(* join_rel takes the depth it is given, not the relation's own. *)
JoinRel(b, name, alias, depth) ==
    Join(b, [b.relations[name] EXCEPT !.depth = depth], alias, FALSE)

(* depth(): the range of hops, and the calls it refuses. *)
DepthOf(args, min, max) ==
    LET d == IF min # <<>> \/ max # <<>>
             THEN <<IF min = <<>> THEN 1 ELSE min[1], IF max = <<>> THEN Unbounded ELSE max[1]>>
             ELSE IF args = <<>> THEN <<1, Unbounded>>
             ELSE <<args[1], args[Len(args)]>>
    IN IF Len(args) <= 2 /\ d[1] >= 0 /\ d[1] <= d[2] THEN d ELSE <<>>

Conjoined(parts) == FoldLeft(LAMBDA ts, p : IF ts = <<>> THEN p ELSE ts \o T("AND") \o p, <<>>, parts)
Listed(parts) == FoldLeft(LAMBDA ts, p : IF ts = <<>> THEN p ELSE ts \o T(",") \o p, <<>>, parts)

(* An alias that is taken gets the first free number from 2 on. *)
Alias(used, a) ==
    IF a \notin used THEN a
    ELSE LET n == CHOOSE n \in 2 .. 2 + Cardinality(used) :
                    /\ a \o ToString(n) \notin used
                    /\ \A m \in 2 .. n - 1 : a \o ToString(m) \in used
         IN a \o ToString(n)

(* The joins in turn: an outgoing one goes on from the end of the pattern, *)
(* whatever that end is; an inverse one is put in front of it.             *)
JoinPattern(b) ==
    FoldLeft(LAMBDA st, j :
        LET a == Alias(st.used, j.alias)
            node == NodeTokens(a, IF j.label THEN j.rel.target ELSE "")
            edge == EdgeTokens(j.rel) \o T("->")
        IN [used |-> st.used \cup {a},
            ts |-> IF j.rel.dir = "from" THEN node \o edge \o st.ts ELSE st.ts \o edge \o node],
        [used |-> {b.var}, ts |-> NodeTokens(b.var, b.label)], b.joins).ts

(* _build_gql.  With select() every where() goes behind WITH, which then   *)
(* starts with the bare variable; EXISTS stays in front of it.             *)
BuildGql(b) ==
    LET post == IF b.select = <<>> THEN <<>> ELSE IF b.where # <<>> THEN b.where ELSE b.post
        exists == [i \in DOMAIN b.exists |->
                     LET ts == ExistsTokens(b.var, "", b.exists[i].rel)
                     IN IF b.exists[i].positive THEN ts ELSE T("NOT") \o T("(") \o ts \o T(")")]
        parts == (IF b.select = <<>> /\ b.where # <<>> THEN <<LambdaToGql(b.where[1], b)>> ELSE <<>>) \o exists
        with == (IF post = <<>> THEN <<>> ELSE <<W(b.var)>>)
                \o [i \in DOMAIN b.select |-> Projected(b.select[i][2], b) \o T("AS") \o W(b.select[i][1])]
        return == IF b.select = <<>> THEN <<W(b.var)>> ELSE [i \in DOMAIN b.select |-> W(b.select[i][1])]
        order == [i \in DOMAIN b.order |->
                    SortKey(b.order[i].e, b) \o T(IF b.order[i].desc THEN "DESC" ELSE "ASC")]
    IN T("MATCH") \o JoinPattern(b)
         \o (IF parts = <<>> THEN <<>> ELSE T("WHERE") \o Conjoined(parts))
         \o (IF b.select = <<>> THEN <<>> ELSE T("WITH") \o Listed(with))
         \o (IF post = <<>> THEN <<>> ELSE T("WHERE") \o LambdaToGql(post[1], b))
         \o T("RETURN") \o Listed(return)
         \o (IF order = <<>> THEN <<>> ELSE T("ORDER") \o T("BY") \o Listed(order))
         \o (IF b.limit = 0 THEN <<>> ELSE T("LIMIT") \o L(IntV(b.limit)))

(* _build_count_gql looks at where() only. *)
CountGql(b) ==
    T("MATCH") \o NodeTokens(b.var, b.label)
      \o (IF b.where = <<>> THEN <<>> ELSE T("WHERE") \o LambdaToGql(b.where[1], b))
      \o T("RETURN") \o W("COUNT") \o T("(") \o W(b.var) \o T(")")

(* update(): a SET clause, for which the parser has no rule; what follows  *)
(* WHERE is not looked at.                                                 *)
UpdateGql(b, field) ==
    T("MATCH") \o NodeTokens(b.var, b.label)
      \o (IF b.where = <<>> THEN <<>> ELSE T("WHERE") \o LambdaToGql(b.where[1], b))
      \o T("SET") \o W(b.var) \o T(".") \o W(field) \o T("=") \o T("$") \o W("u_" \o field)
      \o T("RETURN") \o W("COUNT") \o T("(") \o W(b.var) \o T(")")

Update(b, field, v, s) == ExecuteGql(UpdateGql(b, field), (("u_" \o field) :> v) @@ b.params, s)

All(b, s) == ExecuteGql(BuildGql(b), b.params, s)

(* first() is take(1) and all(); the limit stays on the builder. *)
First(b) == Take(b, 1)

Count(b, s) == ExecuteGql(CountGql(b), b.params, s)

(***************************************************************************)
(* The object mapper.  A relation is a record [types, target, dir, depth]; *)
(* a depth of <<>> is the one hop of a relation that was given none.       *)
(***************************************************************************)

(* Relation.to, from_, both and those of AnyOf(...), the union of types. *)
Relation(type, target, dir) == [types |-> <<type>>, target |-> target, dir |-> dir, depth |-> <<>>]
AnyOf(types, target, dir) == [types |-> types, target |-> target, dir |-> dir, depth |-> <<>>]

Deep(rel, d) == [rel EXCEPT !.depth = IF d = <<1, 1>> THEN <<>> ELSE d]

(* The metaclass: 'Self' is the class that declares the relation. *)
Declared(class, relations) ==
    [name \in DOMAIN relations |->
        [relations[name] EXCEPT !.target = IF @ = "Self" THEN class ELSE @]]

(* A far node becomes an instance of the class that is registered under    *)
(* its label; without one the pair is dropped.  A row makes one pair: an   *)
(* edge without its properties and a node without its identifier, for the  *)
(* engine returns neither.                                                 *)
HydrateNode(classes, label, r) == IF label \in classes THEN r ELSE [r EXCEPT !.rows = <<>>]

(* with_relations asks for the pairs of an edge and its far node. *)
RelationsGqlOneWay(label, rel) ==
    T("MATCH") \o NodeTokens("p", label) \o T("-") \o T("[") \o W("r") \o TypeTokens(rel) \o T("->")
      \o NodeTokens("t", rel.target)
      \o T("WHERE") \o W("ID") \o T("(") \o W("p") \o T(")") \o T("=") \o T("$") \o W("base_id")
      \o T("RETURN") \o W("r") \o T(",") \o W("r") \o T(".") \o W("edge_type") \o T(",") \o W("t")

RelationsGql(label, rel) ==
    LET near == NodeTokens("p", label)
        far == NodeTokens("t", rel.target)
        body == T("[") \o W("r") \o TypeTokens(rel)
    IN T("MATCH") \o near
         \o (CASE rel.dir = "to" -> T("-") \o body \o T("->")
               [] rel.dir = "from" -> T("<-") \o body \o T("-")
               [] rel.dir = "both" -> T("-") \o body \o T("-"))
         \o far \o T("WHERE") \o W("ID") \o T("(") \o W("p") \o T(")") \o T("=") \o T("$") \o W("base_id")
         \o T("RETURN") \o W("r") \o T(",") \o W("r") \o T(".") \o W("edge_type") \o T(",") \o W("t")

WithRelations(classes, id, label, rel, s) ==
    HydrateNode(classes, rel.target, ExecuteGql(RelationsGql(label, rel), ("base_id" :> IntV(id)), s))
=============================================================================
