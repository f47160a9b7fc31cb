---------------------------- MODULE MCOptimizer ----------------------------
(* Two small tables, and every plan of one operator over each of some      *)
(* bases and of a filter or a projection over that.                        *)
EXTENDS Optimizer

F(name, type, nullable) == [name |-> name, type |-> type, nullable |-> nullable]
Order(k, v, x, t, g) == ("k" :> k) @@ ("v" :> v) @@ ("x" :> x) @@ ("t" :> t) @@ ("g" :> g)
User(k, n, x)        == ("k" :> k) @@ ("n" :> n) @@ ("x" :> x)

MCSources ==
  ("orders" :> [schema   |-> <<F("k", "small", TRUE), F("v", "int", FALSE), F("x", "float", FALSE),
                               F("t", "text", FALSE), F("g", "bool", FALSE)>>,
                rows     |-> <<Order(1, 0, NegZero, "1", TRUE), Order(1, 1, 0, "x", FALSE),
                               Order(3, 3, NaN, "2", TRUE), Order(Null, 2, 0, "1", TRUE)>>,
                takes    |-> [c \in {"k", "v", "x", "t", "g"} |->
                                IF c = "v" THEN "exact" ELSE IF c = "k" THEN "inexact" ELSE "none"],
                estimate |-> 5])
  @@
  ("users"  :> [schema   |-> <<F("k", "int", FALSE), F("n", "text", FALSE), F("x", "float", FALSE)>>,
                rows     |-> <<User(3, "a", NaN), User(1, "1", 0), User(5, "b", 2)>>,
                takes    |-> [c \in {"k", "n", "x"} |-> "none"],
                estimate |-> 2])

Scan(s) == [op |-> "scan", source |-> s, cols |-> NameSet(MCSources[s].schema), preds |-> <<>>, max |-> 0, kids |-> <<>>]
Orders == Scan("orders")
Users  == Scan("users")
N(n)   == Lit(n, "int")
T(t)   == Lit(t, "text")
K == Col("k")    V == Col("v")    X == Col("x")    TT == Col("t")    G == Col("g")

Join(kind, l, r, lk, rk) ==
  [op |-> "join", kind |-> kind, leftOn |-> lk, rightOn |-> rk, coalesce |-> TRUE, suffix |-> "_right",
   nullsEqual |-> FALSE, validate |-> FALSE, order |-> "none", residual |-> <<>>, publish |-> 0,
   maySwap |-> FALSE, kids |-> <<l, r>>]
Sort(n, x, desc)   == [op |-> "sort", keys |-> <<[x |-> x, desc |-> desc]>>, limit |-> 0, kids |-> <<n>>]
With(exprs, n)     == [op |-> "with", exprs |-> exprs, kids |-> <<n>>]
Distinct(cols, n)  == [op |-> "distinct", whole |-> cols = {}, subset |-> cols, kids |-> <<n>>]
Agg(fn, x, name)   == [fn |-> fn, x |-> x, name |-> name]
Group(keys, aggs, n) == [op |-> "group", keys |-> keys, aggs |-> aggs, kids |-> <<n>>]
Win(fn, x, name, parts) == [fn |-> fn, x |-> x, name |-> name, parts |-> parts]
Window(wins, n)    == [op |-> "window", aggs |-> wins, kids |-> <<n>>]
Cache(id, n)       == [op |-> "cache", id |-> id, kids |-> <<n>>]
Union(l, r)        == [op |-> "union", kids |-> <<l, r>>]
Merge(key, l, r)   == [op |-> "merge", key |-> key, kids |-> <<l, r>>]
Limit(n, in)       == [op |-> "limit", n |-> n, kids |-> <<in>>]

Narrow(n)  == Project(<<K, V, X, TT, G>>, n)
Shared     == Cache(1, Filter(<<Bin("lt", V, N(3))>>, Orders))
Joined(kind) == Join(kind, Orders, Users, <<K>>, <<K>>)
Again(j)     == [j EXCEPT !.suffix = "_again"]

(* Users by the place they came in, each with its orders: a join worth     *)
(* exchanging, of an order that something above it may not do without.     *)
ByPlace == Join("inner", [op |-> "index", name |-> "i", kids |-> <<Users>>], Orders, <<K>>, <<V>>)
Doubled  == With(<<Alias(Bin("mul", V, N(2)), "w")>>, ByPlace)
Bases == <<
  Orders,
  Joined("inner"), Joined("left"), Joined("right"), Joined("full"), Joined("semi"), Joined("anti"),
  Join("cross", Orders, Users, <<>>, <<>>),
  [Joined("inner") EXCEPT !.order = "left"],
  [Joined("left") EXCEPT !.order = "left"],
  [Joined("inner") EXCEPT !.validate = TRUE],
  Join("inner", Users, Orders, <<K>>, <<K>>),
  Join("inner", Orders, Users, <<X>>, <<X>>),
  Join("inner", Sort(Orders, V, TRUE), Users, <<K>>, <<K>>),
  [Join("semi", Orders, Users, <<>>, <<>>) EXCEPT !.residual = <<Bin("eq", X, Col("x_right"))>>],
  [Join("anti", Orders, Users, <<>>, <<>>) EXCEPT !.residual = <<Bin("eq", Col("k_right"), K), Bin("lt", V, N(3))>>],
  Again(Join("inner", Joined("left"), Users, <<K>>, <<K>>)),
  Join("inner", With(<<Alias(K, "q")>>, Joined("inner")), Project(<<Alias(K, "q")>>, Users), <<Col("q")>>, <<Col("q")>>),
  Union(Orders, Filter(<<Bin("lt", V, N(2))>>, Orders)),
  Merge("v", Sort(Orders, V, FALSE), Sort(Orders, V, FALSE)),
  Union(Shared, Filter(<<Bin("eq", K, N(1))>>, Shared)),
  Join("inner", Shared, Group(<<K>>, <<Agg("len", N(0), "len")>>, Shared), <<K>>, <<K>>),
  Join("semi", Join("left", Orders, Users, <<V>>, <<K>>), Users, <<V>>, <<K>>),
  Again(Join("inner", Join("right", Orders, Users, <<V>>, <<K>>), Users, <<V>>, <<K>>)),
  Again(Join("inner", Join("left", Orders, Users, <<V>>, <<K>>), Users, <<Col("k_right")>>, <<K>>)),
  Merge("i", Doubled, Doubled)
>>

Middle(i, n) ==
  CASE i = 1  -> n
    [] i = 2  -> Project(<<K, Alias(Bin("add", V, N(1)), "v"), Alias(TT, "u"), TT, G, X>>, n)
    [] i = 3  -> With(<<Alias(Bin("add", V, N(1)), "w"), Alias(Bin("mul", Col("w"), N(2)), "v")>>, n)
    [] i = 4  -> With(<<Alias(Udf(V), "v"), Alias(Bin("add", V, N(1)), "w")>>, n)
    [] i = 5  -> Sort(n, V, TRUE)
    [] i = 6  -> [op |-> "reverse", kids |-> <<n>>]
    [] i = 7  -> Limit(2, n)
    [] i = 8  -> [op |-> "slice", from |-> 1, n |-> 2, kids |-> <<n>>]
    [] i = 9  -> [op |-> "tail", n |-> 2, kids |-> <<n>>]
    [] i = 10 -> Distinct({}, Project(<<K, X, G>>, n))
    [] i = 11 -> Distinct({"k"}, n)
    [] i = 12 -> Distinct({"x"}, n)
    [] i = 13 -> [op |-> "index", name |-> "i", kids |-> <<n>>]
    [] i = 14 -> Group(<<K, X>>, <<Agg("sum", V, "v"), Agg("first", TT, "t"), Agg("first", G, "g")>>, n)
    [] i = 15 -> Group(<<Alias(Bin("add", K, Lit(1, "small")), "k")>>, <<Agg("sum", V, "v")>>, n)
    [] i = 16 -> Group(<<>>, <<Agg("len", N(0), "v")>>, n)
    [] i = 17 -> Window(<<Win("sum", V, "w", <<K>>), Win("len", N(0), "c", <<K, G>>)>>, n)
    [] i = 18 -> [op |-> "temporal", index |-> "v", kids |-> <<Sort(n, V, FALSE)>>]
    [] i = 19 -> Limit(2, Sort(n, V, TRUE))

Strict == Bin("eq", Cast(TT, "int"), N(1))
Upper(i, n) ==
  CASE i = 1 -> n
    [] i = 2 -> Filter(<<Bin("lt", V, N(2))>>, n)
    [] i = 3 -> Filter(<<Bin("eq", K, N(1))>>, n)
    [] i = 4 -> Filter(<<Strict>>, Filter(<<G>>, n))
    [] i = 5 -> Filter(<<Bin("eq", Cast(X, "text"), T("0"))>>, n)
    [] i = 6 -> Filter(<<Bin("lt", Bin("mul", K, K), N(2))>>, n)
    [] i = 7 -> Filter(<<Bin("lt", Udf(V), N(3)), G>>, n)
    [] i = 8 -> Filter(<<Bin("or", Bin("and", G, Bin("eq", Col("n"), T("1"))), Bin("and", Bin("lt", V, N(1)), Bin("eq", Col("n"), T("b"))))>>, n)
    [] i = 9 -> Filter(<<Bin("and", Not(Not(Bin("lt", V, N(3)))), Bin("or", Strict, Lit(TRUE, "bool")))>>, n)
    [] i = 10 -> Filter(<<Lit(Null, "bool"), Strict>>, n)
    [] i = 11 -> Filter(<<Bin("lt", Col("v"), Bin("add", N(1), N(1))), Bin("eq", Col("k_right"), K)>>, n)
    [] i = 12 -> Filter(<<Bin("eq", Col("x_right"), X)>>, n)
    [] i = 13 -> Project(<<Col("n"), Col("x_right")>>, n)
    [] i = 14 -> Project(<<V, Alias(Bin("and", G, Lit(FALSE, "bool")), "f")>>, n)
    [] i = 15 -> Project(<<K, V>>, Filter(<<G>>, n))
    [] i = 16 -> Group(<<>>, <<Agg("len", N(0), "c")>>, n)
    [] i = 17 -> Filter(<<Bin("eq", Col("n"), T("a")), Strict>>, n)

MCPicks  == (DOMAIN Bases) \X (1..19) \X (1..17)
MCQuery(c) == Upper(c[3], Middle(c[2], Bases[c[1]]))
MCFlagSets == {Flags, {"ProjectionPushdown", "BuildSide", "RuntimeFilters"}}

(* A join of every order with every user, and of those where the cast can  *)
(* be made the ones it equals.                                             *)
HastyPicks == {1}
Guarded    == <<Bin("lt", Col("k_right"), V), Bin("eq", Cast(TT, "int"), Col("k_right"))>>
HastyQuery(c) == Filter(Guarded, Join("cross", Orders, Users, <<>>, <<>>))
=============================================================================
