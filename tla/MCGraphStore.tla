---------------------------- MODULE MCGraphStore ----------------------------
(* Instances of GraphStore for TLC: people who know each other and live in *)
(* cities, and the questions that are asked of them.                       *)
EXTENDS GraphStore

SomeCollation == <<"KNOWS", "LIVES">>

Person(age) == [labels |-> <<"Person">>, props |-> [age |-> IntV(age)]]
Kinds == {Person(1), Person(3)}       \* cities come from CREATE

A(k) == <<"attr", "p", k>>
C(n) == <<"const", IntV(n)>>
Op(l, o, r) == <<"op", l, o, r>>
Knows == Relation("KNOWS", "", "to")        \* of where_exists_edge, without a label
Friends == Declared("Person", [friends |-> Relation("KNOWS", "Self", "to")])

People == NewBuilder("Person", "p", Friends)
Adults == Where(People, Op(A("age"), ">", C(2)))

SomeRecounted ==
    {Adults,
     Where(People, Op(Op(C(3), ">", Op(A("age"), "+", C(1))), "OR", Op(A("age"), "=", C(3)))),
     Where(Adults, Op(Op(A("age"), ">=", C(0)), "AND", Op(A("age"), "!=", C(3)))),
     WhereNotExistsEdge(Adults, Knows)}

SomeBuilders == SomeRecounted \cup
    {People, Take(Adults, 1),
     Where(People, Op(A("age"), "=", Op(A("age"), "*", C(1)))),
     Where(People, <<"not", Op(A("age"), ">", C(2))>>),
     Where(People, Op(A("age"), ">", C(-1))),
     Where(People, <<"any", "friends">>),
     Where(People, Op(A("ORDER"), ">", C(0))),      \* a keyword in any case
     WhereExistsEdge(Where(People, Op(Op(A("age"), "<", C(2)), "OR", Op(A("age"), ">", C(2)))), Knows),
     WhereExistsEdge(People, Relation("KNOWS", "Person", "from")),
     Where(People, <<"any", "friends", "q", Op(<<"attr", "q", "age">>, ">", C(2))>>),
     JoinRel(People, "friends", "p", <<>>),
     Join(Join(People, Relation("LIVES", "City", "to"), "c", TRUE),
          Deep(Relation("KNOWS", "Person", "from"), <<1, 2>>), "q", FALSE),
     OrderBy(People, A("age"), TRUE),
     SelectDict(Adults, <<<<"years", A("age")>>>>),
     Select(People, <<<<"grown", <<"not", Op(A("age"), ">", C(2))>>>>>>), Where(Select(Adults, <<<<"years", A("age")>>>>), Op(<<"name", "years">>, ">", C(1)))}

DocBuilders == {Where(People, <<"and", Op(A("age"), ">", C(2)), Op(A("age"), "<", C(5))>>)}

N(v, l) == NodeTokens(v, l)
E(ts, d) == T("-") \o T("[") \o T(":") \o ts \o d \o T("]") \o T("->")
Ret(vs) == T("RETURN") \o Listed(vs)
K == W("KNOWS")

SomeTexts ==
    {T("MATCH") \o N("a", "Person") \o E(K, <<>>) \o N("b", "") \o Ret(<<W("a"), W("b")>>),
     T("MATCH") \o N("a", "") \o E(K \o T("|") \o W("LIVES"), <<>>) \o N("b", "") \o E(K, <<>>) \o N("c", "")
        \o T("WHERE") \o W("b") \o T(".") \o W("age") \o T("*") \o L(IntV(2)) \o T(">") \o W("a") \o T(".") \o W("age")
        \o Ret(<<W("a"), W("b"), W("c")>>),
     T("MATCH") \o N("a", "Person") \o T("-") \o T("-") \o N("b", "") \o Ret(<<W("a"), W("b")>>),
     T("MATCH") \o N("a", "Person") \o E(K, T("*") \o L(IntV(1)) \o T("..") \o L(IntV(2))) \o N("b", "") \o Ret(<<W("a"), W("b")>>),
     T("MATCH") \o N("a", "Person") \o E(K, T("*") \o L(IntV(2)) \o T("..")) \o N("b", "") \o Ret(<<W("a"), W("b")>>),
     T("MATCH") \o N("a", "Person") \o E(K, <<>>) \o N("b", "") \o Ret(<<W("a"), W("COUNT") \o T("(") \o W("b") \o T(")")>>),
     T("MATCH") \o N("p", "Person") \o T("WITH") \o W("p") \o T(".") \o W("age") \o T("AS") \o W("x")
        \o T("WHERE") \o W("x") \o T("/") \o L(IntV(2)) \o T("=") \o L(IntV(1))
        \o Ret(<<W("AVG") \o T("(") \o W("x") \o T(")"), W("MIN") \o T("(") \o W("x") \o T(")"), W("MAX") \o T("(") \o W("x") \o T(")")>>),
     T("MATCH") \o N("p", "Person") \o T("RETURN") \o W("p") \o T(".") \o W("age") \o T("ORDER") \o T("BY") \o W("p") \o T(".") \o W("age") \o T("DESC") \o T("LIMIT") \o L(IntV(1)),
     T("CREATE") \o N("a", "Person") \o E(K, <<>>) \o N("b", "Person"),
     T("CREATE") \o N("a", "City") \o T(",") \o N("b", "City") \o T(",") \o N("a", "") \o E(W("LIVES"), <<>>) \o N("b", ""),
     T("MATCH") \o N("a", "Person") \o T(",") \o N("b", "City") \o T("CREATE") \o N("a", "") \o E(W("LIVES"), <<>>) \o N("b", "")}

SomeRelations ==
    {Friends.friends, AnyOf(<<"KNOWS", "LIVES">>, "Person", "both"), Relation("LIVES", "City", "to"),
     Relation("KNOWS", "Person", "from"), Deep(Friends.friends, DepthOf(<<1, 2>>, <<>>, <<>>))}
=============================================================================
