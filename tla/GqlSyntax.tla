------------------------------ MODULE GqlSyntax ------------------------------
(***************************************************************************)
(* The syntax of the queries casys_engine accepts: its tokens, its syntax  *)
(* tree and its recursive descent parser (exec/parser.rs, exec/ast.rs).    *)
(*                                                                         *)
(* A query text is the sequence of its tokens.  A token is                 *)
(*   <<"t", k>>    a keyword or a punctuation mark,                        *)
(*   <<"id", n>>   an identifier,                                          *)
(*   <<"lit", v>>  a literal; v is a value <<type, data>>.                 *)
(* A parsing function takes the tokens that remain and returns             *)
(* [ok, v, rest]: whether it succeeded, what it read, what is left.        *)
(***************************************************************************)
EXTENDS Integers, Sequences, TLC

CONSTANT Unbounded      \* stands for u32::MAX, the depth of an open range

Ok(v, ts) == [ok |-> TRUE, v |-> v, rest |-> ts]
Fail == [ok |-> FALSE, v |-> <<>>, rest |-> <<>>]

(* The ? operator of Rust: go on with what was read, or give up. *)
Then(r, F(_, _)) == IF r.ok THEN F(r.v, r.rest) ELSE Fail

IntV(n) == <<"int", n>>
StrV(s) == <<"str", s>>
BoolV(b) == <<"bool", b>>
Null == <<"null", "">>

Keywords == {"MATCH", "CREATE", "SET", "DELETE", "WHERE", "WITH", "AS", "RETURN",
             "ORDER", "BY", "ASC", "DESC", "LIMIT", "AND", "OR", "NOT", "IS", "EXISTS"}

(* What the lexer makes of a word: a keyword wherever it stands, even as   *)
(* the name of a property.                                                 *)
Word(w) == IF w \in Keywords THEN <<"t", w>>
           ELSE IF w = "NULL" THEN <<"lit", Null>>
           ELSE <<"id", w>>

Is(ts, k) == ts # <<>> /\ Head(ts) = <<"t", k>>
IsId(ts) == ts # <<>> /\ Head(ts)[1] = "id"
IsLit(ts) == ts # <<>> /\ Head(ts)[1] = "lit"
IsInt(ts) == IsLit(ts) /\ Head(ts)[2][1] = "int"
Drop(ts, n) == SubSeq(ts, n + 1, Len(ts))

Expect(ts, k, v) == IF Is(ts, k) THEN Ok(v, Tail(ts)) ELSE Fail

(* The parts of the syntax tree that are records.  "" and <<>> stand for   *)
(* an absent name and an absent clause.                                    *)
Node(var, label, props) ==
    [kind |-> "node", var |-> var, label |-> label, props |-> props]
Edge(var, types, dir, props, from, to, depth) ==
    [kind |-> "edge", var |-> var, types |-> types, dir |-> dir, props |-> props,
     from |-> from, to |-> to, depth |-> depth]

(***************************************************************************)
(* Patterns.                                                               *)
(***************************************************************************)
RECURSIVE Properties(_, _)
Properties(ts, props) ==
    IF Is(ts, "}") THEN Ok(props, ts)
    ELSE IF ~(IsId(ts) /\ Is(Tail(ts), ":") /\ IsLit(Drop(ts, 2))) THEN Fail
    ELSE LET more == (Head(ts)[2] :> ts[3][2]) @@ props
         IN IF Is(Drop(ts, 3), ",") THEN Properties(Drop(ts, 4), more)
            ELSE Ok(more, Drop(ts, 3))

(* An optional {key: literal, ...}. *)
Braced(ts) ==
    IF ~Is(ts, "{") THEN Ok(<<>>, ts)
    ELSE Then(Properties(Tail(ts), <<>>), LAMBDA ps, r : Expect(r, "}", ps))

NodePattern(ts) ==
    IF ~Is(ts, "(") THEN Fail
    ELSE LET a == Tail(ts)
             b == IF IsId(a) THEN Tail(a) ELSE a
             c == IF Is(b, ":") THEN Drop(b, 2) ELSE b
         IN Then(Braced(c), LAMBDA ps, r :
                Expect(r, ")", Node(IF IsId(a) THEN Head(a)[2] ELSE "",
                                    IF Is(b, ":") /\ IsId(Tail(b)) THEN b[2][2] ELSE "",
                                    ps)))

(* *, *n, *n..m, *n.., *..m: a depth range, <<>> when there is none. *)
DepthRange(ts) ==
    LET a == Tail(ts)
    IN IF ~Is(ts, "*") THEN Ok(<<>>, ts)
       ELSE IF IsInt(a) THEN
              IF ~Is(Tail(a), "..") THEN Ok(<<a[1][2][2], a[1][2][2]>>, Tail(a))
              ELSE IF IsInt(Drop(a, 2)) THEN Ok(<<a[1][2][2], a[3][2][2]>>, Drop(a, 3))
              ELSE Ok(<<a[1][2][2], Unbounded>>, Drop(a, 2))
       ELSE IF Is(a, "..") THEN IF IsInt(Tail(a)) THEN Ok(<<0, a[2][2][2]>>, Drop(a, 2)) ELSE Fail
       ELSE Ok(<<1, Unbounded>>, a)

RECURSIVE EdgeTypes(_, _)
EdgeTypes(ts, types) ==
    IF ~IsId(ts) THEN Fail
    ELSE IF Is(Tail(ts), "|") THEN EdgeTypes(Drop(ts, 2), Append(types, Head(ts)[2]))
    ELSE Ok(Append(types, Head(ts)[2]), Tail(ts))

(* What stands between [ and ], and the range that may follow the ]. *)
EdgeBody(ts) ==
    LET a == IF IsId(ts) THEN Tail(ts) ELSE ts
        types == IF Is(a, ":") THEN EdgeTypes(Tail(a), <<>>) ELSE Ok(<<>>, a)
    IN Then(types, LAMBDA tys, r1 :
       Then(DepthRange(r1), LAMBDA inner, r2 :
       Then(Braced(r2), LAMBDA ps, r3 :
       Then(Expect(r3, "]", <<>>), LAMBDA u, r4 :
       Then(DepthRange(r4), LAMBDA outer, r5 :
            IF inner # <<>> /\ outer # <<>> THEN Fail
            ELSE Ok([var |-> IF IsId(ts) THEN Head(ts)[2] ELSE "", types |-> tys,
                     props |-> ps, depth |-> inner \o outer], r5))))))

(* After <- the direction is settled and no mark is read behind the ]. *)
EdgePattern(ts, from) ==
    LET left == Is(ts, "<-")
        body == IF Is(Tail(ts), "[") THEN EdgeBody(Drop(ts, 2))
                ELSE Ok([var |-> "", types |-> <<>>, props |-> <<>>, depth |-> <<>>], Tail(ts))
    IN Then(body, LAMBDA b, r :
         LET dir == IF left THEN "left" ELSE IF Is(r, "->") THEN "right" ELSE "both"
             q == IF ~left /\ (Is(r, "->") \/ Is(r, "-")) THEN Tail(r) ELSE r
         IN Then(NodePattern(q), LAMBDA to, s :
                 Ok(Edge(b.var, b.types, dir, b.props, from, to, b.depth), s)))

(* The edges that follow a node, in a row. *)
RECURSIVE Chain(_, _, _)
Chain(ts, from, edges) ==
    IF Is(ts, "-") \/ Is(ts, "<-")
    THEN Then(EdgePattern(ts, from), LAMBDA e, r : Chain(r, e.to, Append(edges, e)))
    ELSE Ok(edges, ts)

(* MATCH emits the first node of every chain; CREATE emits a node only     *)
(* when the last pattern so far is not an edge.                            *)
RECURSIVE Patterns(_, _, _)
Patterns(ts, create, before) ==
    Then(NodePattern(ts), LAMBDA n, r :
    Then(Chain(r, n, <<>>), LAMBDA es, q :
         LET all == IF ~create THEN before \o <<n>> \o es
                    ELSE LET s == before \o es
                         IN IF s = <<>> \/ s[Len(s)].kind # "edge" THEN Append(s, n) ELSE s
         IN IF Is(q, ",") THEN Patterns(Tail(q), create, all) ELSE Ok(all, q)))

(***************************************************************************)
(* Expressions.                                                            *)
(***************************************************************************)
Lit(v) == <<"lit", v>>
Ident(n) == <<"id", n>>
Prop(v, p) == <<"prop", v, p>>
Bin(l, op, r) == <<"bin", l, op, r>>
Not(e) == <<"not", e>>

Aggregates == {"COUNT", "SUM", "AVG", "MIN", "MAX"}
OperatorsAt == <<{"OR"}, {"AND"}, {}, {"+", "-"}, {"*", "/"}>>
Comparisons == {"=", "!=", "<", "<=", ">", ">="}

RECURSIVE Level(_, _), More(_, _, _), Primary(_), Items(_, _), ParseQuery(_)

ParseExpr(ts) == Level(1, ts)

(* IS [NOT] NULL, or one comparison: comparisons do not chain. *)
Comparison(ts) ==
    Then(Level(4, ts), LAMBDA l, r :
      CASE Is(r, "IS") /\ ~Is(Tail(r), "NOT") ->
             IF IsLit(Tail(r)) /\ r[2][2] = Null THEN Ok(<<"isnull", l>>, Drop(r, 2)) ELSE Fail
        [] Is(r, "IS") /\ Is(Tail(r), "NOT") ->
             IF IsLit(Drop(r, 2)) /\ r[3][2] = Null THEN Ok(<<"notnull", l>>, Drop(r, 3)) ELSE Fail
        [] \E c \in Comparisons : Is(r, c) ->
             Then(Level(4, Tail(r)), LAMBDA v, q : Ok(Bin(l, r[1][2], v), q))
        [] OTHER -> Ok(l, r))

(* The loops of OR, AND, + -, * /, each over operands of the next level. *)
Level(n, ts) ==
    CASE n = 3 -> Comparison(ts)
      [] n = 6 -> Primary(ts)
      [] OTHER -> Then(Level(n + 1, ts), LAMBDA v, r : More(n, v, r))

More(n, left, ts) ==
    IF \E op \in OperatorsAt[n] : Is(ts, op)
    THEN Then(Level(n + 1, Tail(ts)), LAMBDA v, r : More(n, Bin(left, ts[1][2], v), r))
    ELSE Ok(left, ts)

Primary(ts) ==
    CASE Is(ts, "$") -> IF IsId(Tail(ts)) THEN Ok(<<"param", ts[2][2]>>, Drop(ts, 2)) ELSE Fail
      [] IsId(ts) /\ Is(Tail(ts), "(") /\ ts[1][2] \in Aggregates ->
           Then(ParseExpr(Drop(ts, 2)), LAMBDA e, r : Expect(r, ")", <<"agg", ts[1][2], e>>))
      [] IsId(ts) /\ Is(Tail(ts), "(") /\ ts[1][2] \notin Aggregates ->
           Then(IF Is(Drop(ts, 2), ")") THEN Ok(<<>>, Drop(ts, 2)) ELSE Items("arg", Drop(ts, 2)),
                LAMBDA es, r : Expect(r, ")", <<"call", ts[1][2], es>>))
      [] IsId(ts) /\ Is(Tail(ts), ".") ->
           IF IsId(Drop(ts, 2)) THEN Ok(Prop(ts[1][2], ts[3][2]), Drop(ts, 3)) ELSE Fail
      [] IsId(ts) /\ ~Is(Tail(ts), "(") /\ ~Is(Tail(ts), ".") -> Ok(Ident(ts[1][2]), Tail(ts))
      [] IsLit(ts) -> Ok(Lit(ts[1][2]), Tail(ts))
      [] Is(ts, "NOT") -> Then(Primary(Tail(ts)), LAMBDA e, r : Ok(Not(e), r))
      [] Is(ts, "EXISTS") ->
           IF ~Is(Tail(ts), "{") THEN Fail
           ELSE Then(ParseQuery(Drop(ts, 2)), LAMBDA q, r : Expect(r, "}", <<"exists", q>>))
      [] Is(ts, "(") -> Then(ParseExpr(Tail(ts)), LAMBDA e, r : Expect(r, ")", e))
      [] OTHER -> Fail

(* One item of a comma-separated list: WITH wants AS alias, ORDER BY takes *)
(* ASC or DESC, RETURN and the arguments of a call are bare expressions.   *)
Item(kind, ts) ==
    Then(ParseExpr(ts), LAMBDA e, r :
      CASE kind = "WITH" -> IF Is(r, "AS") /\ IsId(Tail(r))
                            THEN Ok([expr |-> e, alias |-> r[2][2]], Drop(r, 2)) ELSE Fail
        [] kind = "ORDER" -> Ok([expr |-> e, desc |-> Is(r, "DESC")],
                                IF Is(r, "DESC") \/ Is(r, "ASC") THEN Tail(r) ELSE r)
        [] OTHER -> Ok(e, r))

Items(kind, ts) ==
    Then(Item(kind, ts), LAMBDA i, r :
      IF Is(r, ",") THEN Then(Items(kind, Tail(r)), LAMBDA is, q : Ok(<<i>> \o is, q))
      ELSE Ok(<<i>>, r))

(***************************************************************************)
(* A query: its clauses in this one order, each at most once.  Whatever    *)
(* follows the last clause is not looked at.                               *)
(***************************************************************************)
Clause(ts, k, F(_)) == IF Is(ts, k) THEN F(Tail(ts)) ELSE Ok(<<>>, ts)

ParseLimit(ts) == IF IsInt(ts) THEN Ok(<<ts[1][2][2]>>, Tail(ts)) ELSE Fail

ParseQuery(ts) ==
    Then(Clause(ts, "MATCH", LAMBDA r : Patterns(r, FALSE, <<>>)), LAMBDA match, r1 :
    Then(Clause(r1, "CREATE", LAMBDA r : Patterns(r, TRUE, <<>>)), LAMBDA create, r2 :
    IF match = <<>> /\ create = <<>> THEN Fail ELSE
    Then(Clause(r2, "WITH", LAMBDA r : Items("WITH", r)), LAMBDA with, r3 :
    Then(Clause(r3, "WHERE", LAMBDA r : ParseExpr(r)), LAMBDA where, r4 :
    Then(Clause(r4, "RETURN", LAMBDA r : Items("RETURN", r)), LAMBDA return, r5 :
    Then(Clause(r5, "ORDER", LAMBDA r : Then(Expect(r, "BY", <<>>),
                                             LAMBDA u, q : Items("ORDER", q))), LAMBDA order, r6 :
    Then(Clause(r6, "LIMIT", ParseLimit), LAMBDA limit, r7 :
         Ok([match |-> match, create |-> create, with |-> with, where |-> where,
             return |-> return, order |-> order, limit |-> limit], r7))))))))

(* The lexer runs first, and gives up on a character it does not know. *)
Parse(ts) == IF \E i \in DOMAIN ts : ts[i][1] = "bad" THEN Fail ELSE ParseQuery(ts)
=============================================================================
