---------------------------- MODULE PlanAlgebra ----------------------------
(***************************************************************************)
(* A logical plan of a query: its nodes and its expressions, the schema    *)
(* each gives, and the rows it answers (internal/plan/node.go, nodes*.go,  *)
(* join_layout.go, internal/expr/node.go; the rows are what the operators  *)
(* of internal/physical answer for each node).                             *)
(*                                                                         *)
(* A node is a record: op, what that op holds, and its inputs, kids.  An   *)
(* expression is a record: e, what it holds, and its operands, kids.  A    *)
(* schema is the sequence of its fields, a row a function from their names.*)
(* A type is "small", an integer that wraps, "int", "float", "text" or     *)
(* "bool".  What a plan answers is its rows, and whether it fails: every   *)
(* row is computed, as in a query that is read to its end.                 *)
(***************************************************************************)
EXTENDS Integers, Sequences, FiniteSets, TLC, SequencesExt

CONSTANTS
  Null,        \* a value that is missing
  Failure,     \* an expression that failed on its row
  NegZero,     \* the float -0, which is equal to 0 and prints otherwise
  NaN,         \* the float that is equal to nothing
  Sources,     \* each source: its schema, its rows, how it takes a predicate of
               \*   each column, "exact", "inexact" or "none", and how many rows
               \*   it says it has, 0 when it does not
  SmallSize    \* how many values the small integers have

-----------------------------------------------------------------------------
(* Expressions.                                                            *)

Col(name)        == [e |-> "col", name |-> name, kids |-> <<>>]
Lit(v, type)     == [e |-> "lit", v |-> v, type |-> type, kids |-> <<>>]
Bin(op, l, r)    == [e |-> "bin", op |-> op, kids |-> <<l, r>>]
Not(x)           == [e |-> "not", kids |-> <<x>>]
Cast(x, to)      == [e |-> "cast", to |-> to, kids |-> <<x>>]
Alias(x, name)   == [e |-> "alias", name |-> name, kids |-> <<x>>]
Udf(x)           == [e |-> "udf", kids |-> <<x>>]

RECURSIVE Roots(_), FirstName(_), Calls(_)
Roots(x) == IF x.e = "col" THEN {x.name} ELSE UNION {Roots(x.kids[i]) : i \in DOMAIN x.kids}
RootsOf(xs) == UNION {Roots(xs[i]) : i \in DOMAIN xs}

(* The leftmost column names what is computed, unless it is aliased.       *)
FirstName(x) ==
  IF x.e = "col" THEN <<x.name>>
  ELSE FoldLeft(LAMBDA found, k : IF found = <<>> THEN FirstName(k) ELSE found, <<>>, x.kids)
OutputName(x) ==
  CASE x.e = "alias" -> x.name
    [] x.e # "alias" /\ FirstName(x) = <<>> -> "literal"
    [] OTHER -> FirstName(x)[1]

RECURSIVE StripNaming(_)
StripNaming(x) == IF x.e = "alias" THEN StripNaming(x.kids[1]) ELSE x

Calls(x) == IF x.e = "udf" THEN 1 + Calls(x.kids[1])
            ELSE FoldLeft(LAMBDA n, k : n + Calls(k), 0, x.kids)

Has(s, name)     == \E i \in DOMAIN s : s[i].name = name
IndexOf(s, name) == CHOOSE i \in DOMAIN s : s[i].name = name
Names(s)         == [i \in DOMAIN s |-> s[i].name]
NameSet(s)       == ToSet(Names(s))

Promote(a, b) == CASE a = b -> a
                   [] a # b /\ "float" \in {a, b} -> "float"
                   [] OTHER -> "int"

(* Both types exactly: an integer of any size is not one of a float's.     *)
PromotesExactly(a, b) == a = b \/ {a, b} \in {{"small", "int"}, {"small", "float"}}

RECURSIVE FieldOf(_, _)
FieldOf(x, s) ==
  CASE x.e = "col"   -> s[IndexOf(s, x.name)]
    [] x.e = "lit"   -> [name |-> "literal", type |-> x.type, nullable |-> x.v = Null]
    [] x.e = "cast"  -> [FieldOf(x.kids[1], s) EXCEPT !.type = x.to]
    [] x.e = "udf"   -> [FieldOf(x.kids[1], s) EXCEPT !.nullable = TRUE]
    [] x.e = "alias" -> [FieldOf(x.kids[1], s) EXCEPT !.name = x.name]
    [] x.e = "not"   -> FieldOf(x.kids[1], s)
    [] x.e = "bin"   ->
         LET l == FieldOf(x.kids[1], s)
             r == FieldOf(x.kids[2], s)
         IN [name |-> OutputName(x), nullable |-> l.nullable \/ r.nullable,
             type |-> IF x.op \in {"add", "mul"} THEN Promote(l.type, r.type) ELSE "bool"]

Resolves(x, s) == Roots(x) \subseteq NameSet(s)
Resolved(x, s) == [FieldOf(x, s) EXCEPT !.name = OutputName(x)]

Num(v) == IF v = NegZero THEN 0 ELSE v

Kleene(absorbing, a, b) ==
  IF a = absorbing \/ b = absorbing THEN absorbing
  ELSE IF a = Null \/ b = Null THEN Null ELSE ~absorbing

Wrapped(type, n) == IF type = "small" THEN n % SmallSize ELSE n

Computed(op, type, a, b) ==
  IF a = Failure \/ b = Failure THEN Failure
  ELSE IF op \in {"and", "or"} THEN Kleene(op = "or", a, b)
  ELSE IF a = Null \/ b = Null THEN Null
  ELSE CASE op = "eq"  -> a # NaN /\ b # NaN /\ Num(a) = Num(b)
         [] op = "lt"  -> Num(a) < Num(b)
         [] op = "add" -> Wrapped(type, Num(a) + Num(b))
         [] op = "mul" -> Wrapped(type, Num(a) * Num(b))

Digits == [i \in {ToString(n) : n \in 0..9} |-> CHOOSE n \in 0..9 : ToString(n) = i]

(* A cast is strict: what the type cannot hold fails.                      *)
Converted(v, from, to) ==
  IF v = Null \/ v = Failure \/ from = to THEN v
  ELSE CASE to = "text" -> (CASE v = NegZero -> "-0" [] v = NaN -> "NaN" [] OTHER -> ToString(v))
         [] to \in {"small", "int"} /\ from = "text" ->
              IF v \in DOMAIN Digits THEN Digits[v] ELSE Failure
         [] to = "small" /\ from = "int" -> IF v \in 0..(SmallSize - 1) THEN v ELSE Failure
         [] OTHER -> v

RECURSIVE Val(_, _, _)
Val(x, row, s) ==
  CASE x.e = "col"   -> row[x.name]
    [] x.e = "lit"   -> x.v
    [] x.e = "alias" -> Val(x.kids[1], row, s)
    [] x.e = "cast"  -> Converted(Val(x.kids[1], row, s), FieldOf(x.kids[1], s).type, x.to)
    [] x.e = "not"   -> (LET v == Val(x.kids[1], row, s)
                         IN IF v = Null \/ v = Failure THEN v ELSE ~v)
    [] x.e = "udf"   -> (LET v == Val(x.kids[1], row, s)
                         IN IF v = Null \/ v = Failure THEN v ELSE v + 1)
    [] x.e = "bin"   -> Computed(x.op, FieldOf(x, s).type,
                                 Val(x.kids[1], row, s), Val(x.kids[2], row, s))

-----------------------------------------------------------------------------
(* Schemas.                                                                *)

(* A later expression of a WithColumns reads what an earlier one defined,  *)
(* and a name the input has is replaced in its place.                      *)
Replaced(s, f) ==
  IF Has(s, f.name) THEN [s EXCEPT ![IndexOf(s, f.name)] = f] ELSE Append(s, f)
Redefined(s, x) == Replaced(s, Resolved(x, s))

FiltersLeft(kind) == kind \in {"semi", "anti"}

(* The column a key is, 0 when it is computed.                             *)
BareColumn(x, s) ==
  LET bare == StripNaming(x) IN IF bare.e = "col" /\ Has(s, bare.name) THEN IndexOf(s, bare.name) ELSE 0

KeyTypes(j, ls, rs) ==
  [k \in DOMAIN j.leftOn |-> Promote(FieldOf(j.leftOn[k], ls).type, FieldOf(j.rightOn[k], rs).type)]

Merges(j, ls, rs, k) ==
  LET l == BareColumn(j.leftOn[k], ls)
      r == BareColumn(j.rightOn[k], rs)
  IN j.coalesce /\ l # 0 /\ r # 0 /\ j.kind \notin {"full", "cross"} /\ ls[l].name = rs[r].name

Unmerged(s, side) == [i \in DOMAIN s |-> [field |-> s[i], side |-> side, index |-> i, merged |-> 0]]

(* A left column that keys merge has the type of the last of them.         *)
LeftColumns(j, ls, rs, types, merges) ==
  LET column(c, keys) ==
        IF keys = {} THEN c
        ELSE LET k == CHOOSE k \in keys : \A m \in keys : m <= k
             IN [c EXCEPT !.field.type = types[k], !.merged = BareColumn(j.rightOn[k], rs)]
  IN [i \in DOMAIN ls |-> column(Unmerged(ls, "left")[i], {k \in merges : BareColumn(j.leftOn[k], ls) = i})]

RightColumns(j, ls, rs, merges) ==
  LET kept == SelectSeq(Unmerged(rs, "right"),
                        LAMBDA c : \A k \in merges : BareColumn(j.rightOn[k], rs) # c.index)
      named(c) == IF Has(ls, c.field.name) THEN [c EXCEPT !.field.name = @ \o j.suffix] ELSE c
  IN [i \in DOMAIN kept |-> named(kept[i])]

(* Layout: a join's output, and where each column of it comes from.        *)
Layout(j, ls, rs) ==
  LET padded(cols, by) ==
        [i \in DOMAIN cols |-> [cols[i] EXCEPT !.field.nullable = @ \/ j.kind \in {by, "full"}]]
      merges == {k \in DOMAIN j.leftOn : Merges(j, ls, rs, k)}
  IN IF FiltersLeft(j.kind) THEN Unmerged(ls, "left")
     ELSE padded(LeftColumns(j, ls, rs, KeyTypes(j, ls, rs), merges), "right")
            \o padded(RightColumns(j, ls, rs, merges), "left")

(* The names a residual is written in.                                     *)
PairLayout(j, ls, rs) == Layout([j EXCEPT !.kind = "inner", !.coalesce = FALSE], ls, rs)

Fields(layout) == [i \in DOMAIN layout |-> layout[i].field]

AggField(a, s) ==
  [name |-> a.name, type |-> IF a.fn = "len" THEN "int" ELSE FieldOf(a.x, s).type,
   nullable |-> a.fn # "len"]

RECURSIVE Schema(_)
Schema(n) ==
  CASE n.op = "scan"    -> SelectSeq(Sources[n.source].schema, LAMBDA f : f.name \in n.cols)
    [] n.op = "project" -> (LET s == Schema(n.kids[1])
                            IN [i \in DOMAIN n.exprs |-> Resolved(n.exprs[i], s)])
    [] n.op = "with"    -> FoldLeft(Redefined, Schema(n.kids[1]), n.exprs)
    [] n.op = "index"   -> <<[name |-> n.name, type |-> "int", nullable |-> FALSE]>> \o Schema(n.kids[1])
    [] n.op = "group"   -> (LET s == Schema(n.kids[1])
                            IN [i \in DOMAIN n.keys |-> Resolved(n.keys[i], s)]
                                 \o [i \in DOMAIN n.aggs |-> AggField(n.aggs[i], s)])
    [] n.op = "window"  -> (LET s == Schema(n.kids[1])
                            IN s \o [i \in DOMAIN n.aggs |-> AggField(n.aggs[i], s)])
    [] n.op = "temporal" -> (LET s == Schema(n.kids[1])
                             IN <<s[IndexOf(s, n.index)],
                                  [name |-> "len", type |-> "int", nullable |-> FALSE]>>)
    [] n.op = "join"    -> Fields(Layout(n, Schema(n.kids[1]), Schema(n.kids[2])))
    [] n.op = "union"   -> (LET s == Schema(n.kids[1])
                                t == Schema(n.kids[2])
                            IN [i \in DOMAIN s |-> [s[i] EXCEPT !.nullable = @ \/ t[i].nullable]])
    [] OTHER            -> Schema(n.kids[1])

-----------------------------------------------------------------------------
(* Rows.                                                                   *)

Answer(rows) ==
  [rows |-> rows, fails |-> \E i \in DOMAIN rows : \E c \in DOMAIN rows[i] : rows[i][c] = Failure]

(* The same value to a group, a distinct and a hash join: -0 is 0, NaN is  *)
(* NaN, and null is null.                                                  *)
Grouped(vals) == [i \in DOMAIN vals |-> Num(vals[i])]
Key(xs, row, s) == Grouped([i \in DOMAIN xs |-> Val(xs[i], row, s)])

(* The first place of each key, in order.                                  *)
Firsts(keys) == SelectSeq([i \in DOMAIN keys |-> i], LAMBDA i : \A k \in 1..(i - 1) : keys[k] # keys[i])
PlacesOf(keys, key) == SelectSeq([i \in DOMAIN keys |-> i], LAMBDA i : keys[i] = key)

(* Each conjunct is asked of the rows the ones before it kept.             *)
Filtered(in, preds, s) ==
  FoldLeft(LAMBDA acc, p :
             [rows  |-> SelectSeq(acc.rows, LAMBDA r : Val(p, r, s) = TRUE),
              fails |-> acc.fails \/ \E i \in DOMAIN acc.rows : Val(p, acc.rows[i], s) = Failure],
           in, preds)

(* What a source gives: the rows its exact conjuncts keep, in pairs it     *)
(* skips when an inexact one keeps neither row; and it stops at the end of *)
(* a pair once it has given max rows.                                      *)
IsBound(p, s)  == /\ p.e = "bin" /\ p.op \in {"eq", "lt"}
                  /\ p.kids[1].e = "col" /\ p.kids[2].e = "lit"
Classified(source, p) ==
  IF IsBound(p, source.schema) THEN source.takes[p.kids[1].name] ELSE "none"
Scanned(n) ==
  LET source  == Sources[n.source]
      rows    == source.rows
      pair(i) == {k \in DOMAIN rows : (k + 1) \div 2 = (i + 1) \div 2}
      true(p, k) == Val(p, rows[k], source.schema) = TRUE
      keeps(i) == \A x \in DOMAIN n.preds :
                    LET p == n.preds[x] IN
                    IF Classified(source, p) = "exact" THEN true(p, i)
                    ELSE \E k \in pair(i) : true(p, k)
      kept    == SelectSeq([i \in DOMAIN rows |-> i], keeps)
      stops   == {m \in DOMAIN kept : n.max # 0 /\ m >= n.max
                                        /\ (m = Len(kept) \/ kept[m + 1] \notin pair(kept[m]))}
      last    == IF stops = {} THEN Len(kept) ELSE CHOOSE m \in stops : \A k \in stops : m <= k
  IN [i \in 1..last |-> [c \in n.cols |-> rows[kept[i]][c]]]

Added(row, name, v) == [c \in DOMAIN row \union {name} |-> IF c = name THEN v ELSE row[c]]

Projected(rows, exprs, s) ==
  [i \in DOMAIN rows |->
     [c \in {OutputName(exprs[x]) : x \in DOMAIN exprs} |->
        LET x == CHOOSE x \in DOMAIN exprs : OutputName(exprs[x]) = c IN Val(exprs[x], rows[i], s)]]

(* One expression after another, each with the schema the ones before give.*)
Extended(rows, exprs, s) ==
  FoldLeft(LAMBDA acc, x : [s |-> Redefined(acc.s, x),
                            rows |-> [i \in DOMAIN acc.rows |->
                               Added(acc.rows[i], OutputName(x), Val(x, acc.rows[i], acc.s))]],
           [s |-> s, rows |-> rows], exprs).rows

Precedes(a, b) == b # Null /\ (a = Null \/ Num(a) < Num(b))

(* The places of rows with these keys, in order.                           *)
SortedPlaces(n, keys) ==
  LET less(a, b, k) == IF n.keys[k].desc THEN Precedes(b[k], a[k]) ELSE Precedes(a[k], b[k])
      before(i, j) ==
        LET differ == {k \in DOMAIN n.keys : less(keys[i], keys[j], k) \/ less(keys[j], keys[i], k)} IN
        IF differ = {} THEN i < j
        ELSE less(keys[i], keys[j], CHOOSE k \in differ : \A m \in differ : k <= m)
  IN SortSeq([i \in DOMAIN keys |-> i], before)

SortedRows(n, rows, s) ==
  LET first(places) == [i \in 1..(IF n.limit = 0 \/ n.limit > Len(rows) THEN Len(rows) ELSE n.limit)
                          |-> rows[places[i]]]
  IN first(SortedPlaces(n, [i \in DOMAIN rows |-> [k \in DOMAIN n.keys |-> Val(n.keys[k].x, rows[i], s)]]))

InOrder(rows, name) ==
  \A i \in 1..(Len(rows) - 1) : ~Precedes(rows[i + 1][name], rows[i][name])

Total(vals) ==
  LET there == SelectSeq(vals, LAMBDA v : v # Null) IN
  IF there = <<>> THEN Null ELSE FoldLeft(LAMBDA t, v : t + Num(v), 0, there)

Aggregated(a, rows, places, s) ==
  CASE a.fn = "len"   -> Len(places)
    [] a.fn = "sum"   -> Total([i \in DOMAIN places |-> Val(a.x, rows[places[i]], s)])
    [] a.fn = "first" -> IF places = <<>> THEN Null ELSE Val(a.x, rows[places[1]], s)

(* The groups in the order they first appear, each key as its first row    *)
(* has it; without keys, one group of every row, of no row too.            *)
Groups(keys) == LET firsts == Firsts(keys) IN [g \in DOMAIN firsts |-> PlacesOf(keys, keys[firsts[g]])]
GroupRows(n, rows, s) ==
  LET value(c, places) == IF c <= Len(n.keys) THEN Val(n.keys[c], rows[places[1]], s)
                          ELSE Aggregated(n.aggs[c - Len(n.keys)], rows, places, s)
      names == [i \in DOMAIN n.keys |-> OutputName(n.keys[i])] \o Names(n.aggs)
      row(places) == [c \in ToSet(names) |-> value(CHOOSE i \in DOMAIN names : names[i] = c, places)]
      of(groups) == [g \in DOMAIN groups |-> row(groups[g])]
  IN of(IF n.keys = <<>> THEN <<[i \in DOMAIN rows |-> i]>>
        ELSE Groups([i \in DOMAIN rows |-> Key(n.keys, rows[i], s)]))

WindowRows(n, rows, s) ==
  LET of(a, i, keys) == Aggregated(a, rows, PlacesOf(keys, keys[i]), s)
      value(a, i) == of(a, i, [k \in DOMAIN rows |-> Key(a.parts, rows[k], s)])
  IN [i \in DOMAIN rows |->
        FoldLeft(LAMBDA row, a : Added(row, a.name, value(a, i)), rows[i], n.aggs)]

(* A window every two of the index, from its first to its last, the empty  *)
(* ones among them; the index must be sorted, and no row may lack it.      *)
MayBeCut(rows, index) == InOrder(rows, index) /\ \A i \in DOMAIN rows : rows[i][index] # Null
TemporalRows(n, rows) ==
  LET starts == [i \in DOMAIN rows |-> rows[i][n.index] \div 2]
      windows == IF rows = <<>> THEN 0 ELSE starts[Len(rows)] - starts[1] + 1
  IN [w \in 1..windows |->
        (n.index :> 2 * (starts[1] + w - 1))
          @@ ("len" :> Cardinality({i \in DOMAIN rows : starts[i] = starts[1] + w - 1}))]

DistinctRows(n, rows, s) ==
  LET keys == [i \in DOMAIN rows |-> Grouped([c \in (IF n.whole THEN NameSet(s) ELSE n.subset) |-> rows[i][c]])]
  IN [i \in DOMAIN Firsts(keys) |-> rows[Firsts(keys)[i]]]

JoinKey(xs, types, row, s) ==
  [k \in DOMAIN xs |-> Converted(Val(xs[k], row, s), FieldOf(xs[k], s).type, types[k])]

Matches(nullsEqual, a, b) ==
  \A k \in DOMAIN a : /\ Num(a[k]) = Num(b[k])
                      /\ a[k] = Null => nullsEqual

(* A row of the output, of a left row or none and a right row or none: a   *)
(* merged key is the left's where it keeps every left row, the right's in  *)
(* a right join.                                                           *)
OutRow(j, layout, ls, rs, l, r) ==
  LET value(c) ==
        IF c.side = "right" THEN IF r = <<>> THEN Null ELSE r[1][rs[c.index].name]
        ELSE IF c.merged # 0 /\ j.kind = "right"
             THEN Converted(r[1][rs[c.merged].name], rs[c.merged].type, c.field.type)
        ELSE IF l = <<>> THEN Null
        ELSE Converted(l[1][ls[c.index].name], ls[c.index].type, c.field.type)
  IN [name \in {layout[i].field.name : i \in DOMAIN layout} |->
        value(layout[CHOOSE i \in DOMAIN layout : layout[i].field.name = name])]

(* Which of the right rows met, by their places, each conjunct of the      *)
(* residual keeps.                                                         *)
Tried(j, pairs, ls, rs, left, rights, met) ==
  LET inner  == [j EXCEPT !.kind = "inner"]
      test(p, k) == Val(p, OutRow(inner, pairs, ls, rs, <<left>>, <<rights[k]>>), Fields(pairs))
  IN FoldLeft(LAMBDA acc, p :
                [rows  |-> SelectSeq(acc.rows, LAMBDA k : test(p, k) = TRUE),
                 fails |-> acc.fails \/ \E m \in DOMAIN acc.rows : test(p, acc.rows[m]) = Failure],
              [rows |-> met, fails |-> FALSE], j.residual)

(* What left row i gives, with its partners p; and the right rows alone.   *)
Emitted(j, layout, ls, rs, lefts, rights, partners) ==
  LET out(l, r) == OutRow(j, layout, ls, rs, l, r)
      joined(i, p) ==
        CASE j.kind = "semi" -> IF p = <<>> THEN <<>> ELSE <<lefts[i]>>
          [] j.kind = "anti" -> IF p = <<>> THEN <<lefts[i]>> ELSE <<>>
          [] j.kind \in {"left", "full"} /\ p = <<>> -> <<out(<<lefts[i]>>, <<>>)>>
          [] OTHER -> [m \in DOMAIN p |-> out(<<lefts[i]>>, <<rights[p[m]]>>)]
      matched(k) == \E i \in DOMAIN lefts : k \in ToSet(partners[i])
      alone == IF j.kind \in {"right", "full"}
               THEN SelectSeq([k \in DOMAIN rights |-> k], LAMBDA k : ~matched(k)) ELSE <<>>
  IN FlattenSeq([i \in DOMAIN lefts |-> joined(i, partners[i])])
       \o [m \in DOMAIN alone |-> out(<<>>, <<rights[alone[m]]>>)]

(* The places of right rows whose key is the left row's.                   *)
Met(j, key, rkeys) ==
  SelectSeq([k \in DOMAIN rkeys |-> k], LAMBDA k : Matches(j.nullsEqual, key, rkeys[k]))

(* Two build rows of a key, in a join that checks its keys.                *)
Twice(j, rkeys) == j.validate /\ \E i, k \in DOMAIN rkeys : i < k /\ Matches(j.nullsEqual, rkeys[i], rkeys[k])

JoinKeys(xs, types, rows, s) == [i \in DOMAIN rows |-> JoinKey(xs, types, rows[i], s)]
JoinKeyed(j, lefts, rights, ls, rs, lkeys, rkeys, layout, tries) ==
  LET failed(keys) == \E i \in DOMAIN keys : \E k \in DOMAIN keys[i] : keys[i][k] = Failure
  IN [rows  |-> Emitted(j, layout, ls, rs, lefts, rights, [i \in DOMAIN tries |-> tries[i].rows]),
      fails |-> \/ failed(lkeys) \/ failed(rkeys) \/ Twice(j, rkeys)
                \/ \E i \in DOMAIN tries : tries[i].fails]
JoinTried(j, lefts, rights, ls, rs, lkeys, rkeys, pairs) ==
  JoinKeyed(j, lefts, rights, ls, rs, lkeys, rkeys, Layout(j, ls, rs),
            [i \in DOMAIN lefts |-> Tried(j, pairs, ls, rs, lefts[i], rights, Met(j, lkeys[i], rkeys))])
JoinAnswer(j, lefts, rights, ls, rs) ==
  JoinTried(j, lefts, rights, ls, rs, JoinKeys(j.leftOn, KeyTypes(j, ls, rs), lefts, ls),
            JoinKeys(j.rightOn, KeyTypes(j, ls, rs), rights, rs), PairLayout(j, ls, rs))

RECURSIVE Merged(_, _, _)
Merged(key, l, r) ==
  IF l = <<>> \/ r = <<>> THEN l \o r
  ELSE IF Precedes(Head(r)[key], Head(l)[key]) THEN <<Head(r)>> \o Merged(key, l, Tail(r))
  ELSE <<Head(l)>> \o Merged(key, Tail(l), r)

Taken(rows, from, to) == SubSeq(rows, from, IF to < Len(rows) THEN to ELSE Len(rows))

(* What a plan answers; slots holds the keys each join above has published:*)
(* a filter of keys nobody has published passes every row.                 *)
RECURSIVE Run(_, _)

(* A join, of what its left input and its right one give.                  *)
RunJoin(n, slots, in, ls, build, rs) ==
  LET keys == {JoinKey(n.rightOn, KeyTypes(n, ls, rs), build.rows[i], rs)[1] : i \in DOMAIN build.rows}
      probe == IF n.publish = 0 THEN in ELSE Run(n.kids[1], (n.publish :> keys) @@ slots)
  IN IF build.fails THEN build ELSE JoinAnswer(n, probe.rows, build.rows, ls, rs)

(* A node of two inputs, of what its first one gives and the other.        *)
RunPair(n, in, more) ==
  IF n.op = "union" THEN [rows |-> in.rows \o more.rows, fails |-> more.fails]
  ELSE [rows  |-> Merged(n.key, in.rows, more.rows),
        fails |-> more.fails \/ ~InOrder(in.rows, n.key) \/ ~InOrder(more.rows, n.key)]

(* A node of one, which did not fail.                                      *)
RunOne(n, slots, in, s) ==
  LET rows == in.rows
      Of(out) == [rows |-> out, fails |-> FALSE]
  IN CASE n.op = "filter"   -> Filtered(in, n.preds, s)
       [] n.op = "project"  -> Answer(Projected(rows, n.exprs, s))
       [] n.op = "with"     -> Answer(Extended(rows, n.exprs, s))
       [] n.op = "sort"     -> Of(SortedRows(n, rows, s))
       [] n.op = "reverse"  -> Of(Reverse(rows))
       [] n.op = "limit"    -> Of(Taken(rows, 1, n.n))
       [] n.op = "slice"    -> Of(Taken(rows, n.from + 1, n.from + n.n))
       [] n.op = "tail"     -> Of(Taken(rows, IF n.n > Len(rows) THEN 1 ELSE Len(rows) - n.n + 1, Len(rows)))
       [] n.op = "distinct" -> Of(DistinctRows(n, rows, s))
       [] n.op = "index"    -> Of([i \in DOMAIN rows |-> Added(rows[i], n.name, i - 1)])
       [] n.op = "group"    -> Answer(GroupRows(n, rows, s))
       [] n.op = "window"   -> Answer(WindowRows(n, rows, s))
       [] n.op = "temporal" -> IF MayBeCut(rows, n.index) THEN Of(TemporalRows(n, rows))
                               ELSE [rows |-> <<>>, fails |-> TRUE]
       [] n.op = "cache"    -> in
       [] n.op = "runtime"  -> Of(SelectSeq(rows, LAMBDA r : n.slot \in DOMAIN slots => r[n.key] \in slots[n.slot]))

Above(n, slots, in) ==
  CASE in.fails -> [rows |-> <<>>, fails |-> TRUE]
    [] ~in.fails /\ n.op = "join" ->
         RunJoin(n, slots, in, Schema(n.kids[1]), Run(n.kids[2], slots), Schema(n.kids[2]))
    [] ~in.fails /\ n.op \in {"union", "merge"} -> RunPair(n, in, Run(n.kids[2], slots))
    [] OTHER -> RunOne(n, slots, in, Schema(n.kids[1]))

Run(n, slots) ==
  IF n.op = "scan" THEN Answer(Scanned(n)) ELSE Above(n, slots, Run(n.kids[1], slots))

RowsOf(n) == Run(n, <<>>)
=============================================================================
