----------------------------- MODULE PlanShape -----------------------------
(***************************************************************************)
(* The optimizer's other rules: which columns and how many rows a plan     *)
(* reads, which input of a join is built, what its keys filter, and what   *)
(* an expression simplifies to (internal/plan/rule_projection.go,          *)
(* rule_limit.go, rule_buildside.go, rule_runtimefilter.go,                *)
(* rule_simplify.go, local.go).                                            *)
(***************************************************************************)
EXTENDS PlanPredicates

-----------------------------------------------------------------------------
(* Projection pushdown.                                                    *)

(* The names a WithColumns wants of its input, its last expression first:  *)
(* a column it redefines for the parent is wanted, to keep its place.      *)
WithNeeds(n, need, names) ==
  names \intersect
    FoldLeft(LAMBDA wanted, x :
               (IF OutputName(x) \in need \intersect names THEN wanted ELSE wanted \ {OutputName(x)})
                 \union Roots(x),
             need, Reverse(n.exprs))

(* The columns of an input of a join that give the output's need, its keys *)
(* and its residual.                                                       *)
JoinReads(n, side, need, ls, rs) ==
  LET s  == IF side = "left" THEN ls ELSE rs
      read(layout, names) ==
        LET of == {i \in DOMAIN layout : layout[i].field.name \in names /\ OfSide(layout[i], side)}
        IN {s[IF layout[i].side = side THEN layout[i].index ELSE layout[i].merged].name : i \in of}
  IN read(Layout(n, ls, rs), need) \union read(PairLayout(n, ls, rs), RootsOf(n.residual))
       \union RootsOf(IF side = "left" THEN n.leftOn ELSE n.rightOn)

(* A left column that makes one of the right carry the suffix stays.       *)
JoinNeeds(n, side, need, ls, rs) ==
  JoinReads(n, side, need, ls, rs)
    \union IF side = "left" THEN JoinReads(n, "right", need, ls, rs) \intersect NameSet(ls) ELSE {}

(* What is required of the input of n, which has these names, when need is *)
(* required of n.                                                          *)
InputNeeds(n, need, names) ==
  CASE n.op = "project"  -> RootsOf(n.exprs)
    [] n.op = "filter"   -> need \union RootsOf(n.preds)
    [] n.op \in {"limit", "slice", "tail", "reverse"} -> need
    [] n.op = "index"    -> need \ {n.name}
    [] n.op = "group"    -> RootsOf(n.keys) \union UNION {Roots(n.aggs[a].x) : a \in DOMAIN n.aggs}
    [] n.op = "temporal" -> {n.index}
    [] n.op = "with"     -> WithNeeds(n, need, names)
    [] n.op = "distinct" -> IF n.whole THEN names ELSE need \union n.subset
    [] n.op = "union"    -> need \intersect names
    [] n.op = "sort"     -> need \union UNION {Roots(n.keys[k].x) : k \in DOMAIN n.keys}
    [] n.op = "window"   -> (need \intersect names)
                              \union UNION {Roots(n.aggs[a].x) \union RootsOf(n.aggs[a].parts) : a \in DOMAIN n.aggs}
    [] n.op = "merge"    -> need \union {n.key}
    [] OTHER             -> names

KidNeeds(n, i, need) ==
  IF n.op = "join"
  THEN JoinNeeds(n, IF i = 1 THEN "left" ELSE "right", need, Schema(n.kids[1]), Schema(n.kids[2]))
  ELSE InputNeeds(n, need, NameSet(Schema(n.kids[1])))

(* Mutant of CacheNeeds: each site of a shared subplan reads its own.      *)
OwnNeeds(unions, id, need) == need

(* Every site of a shared subplan reads what any of them needs.            *)
CacheNeeds(unions, id, need) == {u[2] : u \in {u \in unions : u[1] = id}}

RECURSIVE Narrowed(_, _, _), SiteNeeds(_, _, _)

(* A union's inputs give what was asked of it, a merge's the same columns, *)
(* whatever they keep for themselves.                                      *)
NarrowUnion(n, kids, names, target) ==
  LET agree == \A i \in DOMAIN kids : names[i] = names[1]
      columns == [i \in DOMAIN target |-> Col(target[i])]
  IN [n EXCEPT !.kids = [i \in DOMAIN kids |->
        IF agree \/ names[i] = target THEN kids[i] ELSE Project(columns, kids[i])]]
Disagree(kids) == Schema(kids[1]) # Schema(kids[2])
WholeKids(n, unions) ==
  [i \in DOMAIN n.kids |-> Narrowed(n.kids[i], NameSet(Schema(n.kids[i])), unions)]

(* n over its inputs, which give what it reads of them.                    *)
NarrowOver(n, need, unions, kids) ==
  CASE n.op = "scan"  -> [n EXCEPT !.cols = need \intersect NameSet(Sources[n.source].schema)]
    [] n.op = "union" -> NarrowUnion(n, kids, [i \in DOMAIN kids |-> Names(Schema(kids[i]))],
                                     SelectSeq(Names(Schema(n)), LAMBDA c : c \in need))
    [] n.op = "merge" /\ Disagree(kids) -> [n EXCEPT !.kids = WholeKids(n, unions)]
    [] OTHER          -> [n EXCEPT !.kids = kids]

(* n, reading what need and unions, what the sites of each shared subplan  *)
(* need, ask of it.                                                        *)
Narrowed(n, need, unions) ==
  NarrowOver(n, need, unions,
             [i \in DOMAIN n.kids |->
                Narrowed(n.kids[i],
                         IF n.op = "cache" THEN CacheNeeds(unions, n.id, need) ELSE KidNeeds(n, i, need),
                         unions)])

(* The columns each shared subplan's sites need, once need is asked of n.  *)
SiteNeeds(n, need, unions) ==
  LET asked(i) == IF n.op = "cache" THEN CacheNeeds(unions, n.id, need) \union need ELSE KidNeeds(n, i, need)
      whole == n.op = "merge" /\ Disagree([i \in DOMAIN n.kids |-> Narrowed(n.kids[i], asked(i), unions)])
      own   == IF n.op = "cache" THEN {n.id} \X need ELSE {}
  IN own \union UNION {SiteNeeds(n.kids[i], asked(i), unions) : i \in DOMAIN n.kids}
         \union IF whole THEN UNION {SiteNeeds(n.kids[i], NameSet(Schema(n.kids[i])), unions) : i \in DOMAIN n.kids}
                ELSE {}

(* Swept again while a shared subplan's needs grow.                        *)
RECURSIVE Settled(_, _, _)
Settled(n, need, unions) ==
  LET grown(more) == IF more \subseteq unions THEN unions ELSE Settled(n, need, unions \union more)
  IN grown(SiteNeeds(n, need, unions))

NarrowedTo(n, need) == Narrowed(n, need, Settled(n, need, {}))
PushProjection(n)   == NarrowedTo(n, NameSet(Schema(n)))

-----------------------------------------------------------------------------
(* Limit pushdown: no more than rows of n's rows will be read.             *)

RECURSIVE LimitRows(_, _), PushLimit(_)
LimitRows(n, rows) ==
  CASE n.op = "scan"  -> IF n.max # 0 /\ n.max <= rows THEN n ELSE [n EXCEPT !.max = rows]
    [] n.op = "sort"  -> IF n.limit # 0 /\ n.limit <= rows THEN n ELSE [n EXCEPT !.limit = rows]
    [] n.op \in {"project", "with", "index"} -> Over(n, LimitRows(n.kids[1], rows))
    [] n.op = "limit" -> Over(n, LimitRows(n.kids[1], IF n.n < rows THEN n.n ELSE rows))
    [] n.op = "union" -> Pair(n, LimitRows(n.kids[1], rows), LimitRows(n.kids[2], rows))
    [] n.op = "join" /\ n.kind = "left" /\ n.order = "left" -> Pair(n, LimitRows(n.kids[1], rows), n.kids[2])
    [] OTHER -> n

(* 0 rows is not a limit to pass on: it would be none.                     *)
Wanted(n) == CASE n.op = "limit" -> n.n
               [] n.op = "slice" -> n.from + n.n
               [] OTHER -> 0

PushLimit(n) ==
  LET kids == [i \in DOMAIN n.kids |-> PushLimit(n.kids[i])]
  IN [n EXCEPT !.kids = IF Wanted(n) > 0 THEN <<LimitRows(kids[1], Wanted(n))>> ELSE kids]

-----------------------------------------------------------------------------
(* Build side: the input of an inner join that is much the smaller becomes *)
(* the right one, which is built.                                          *)

(* What passes its input's order on, and a sort the caller asked for.      *)
Passes == {"filter", "project", "with", "window", "index", "limit", "slice", "tail", "reverse", "cache"}

(* Mutant of KeepsOrderOf: a merge asks nothing of its inputs' order.      *)
KeepsOrderOfFew(n, i, ordered) ==
  \/ n.op = "join" /\ ordered /\ i = 1
  \/ n.op \in Passes /\ ordered

KeepsOrderOf(n, i, ordered) ==
  \/ n.op = "merge"
  \/ n.op = "join" /\ ordered /\ i = 1
  \/ n.op \in Passes /\ ordered

RECURSIVE SortedBelow(_), OrderedSites(_, _), Known(_), EstimateRows(_)
SortedBelow(n) ==
  \/ n.op = "sort"
  \/ n.op \in Passes \union {"join"} /\ SortedBelow(n.kids[1])

(* A shared subplan keeps its order if any of its sites has to.            *)
OrderedSites(n, ordered) ==
  (IF n.op = "cache" /\ ordered THEN {n.id} ELSE {})
    \union UNION {OrderedSites(n.kids[i], KeepsOrderOf(n, i, ordered)) : i \in DOMAIN n.kids}

Bounded == {"filter", "project", "with", "sort", "group", "distinct", "window", "index", "cache", "runtime", "limit", "tail"}
Known(n) ==
  \/ n.op = "scan" /\ Sources[n.source].estimate # 0
  \/ n.op \in Bounded /\ Known(n.kids[1])
  \/ n.op = "join" /\ Known(n.kids[1]) /\ (FiltersLeft(n.kind) \/ Known(n.kids[2]))
  \/ n.op = "union" /\ Known(n.kids[1]) /\ Known(n.kids[2])

Least2(a, b) == IF a < b THEN a ELSE b
EstimateRows(n) ==
  LET in == EstimateRows(n.kids[1]) IN
  CASE n.op = "scan"  -> IF n.max = 0 THEN Sources[n.source].estimate ELSE Least2(n.max, Sources[n.source].estimate)
    [] n.op \in {"limit", "tail"} -> Least2(in, n.n)
    [] n.op = "join"  -> IF FiltersLeft(n.kind) \/ in > EstimateRows(n.kids[2]) THEN in ELSE EstimateRows(n.kids[2])
    [] n.op = "union" -> in + EstimateRows(n.kids[2])
    [] OTHER          -> in

Swappable(j) == j.kind = "inner" /\ j.residual = <<>> /\ ~j.validate /\ j.order = "none"

Exchanged(j) ==
  [j EXCEPT !.kids = <<j.kids[2], j.kids[1]>>, !.leftOn = j.rightOn, !.rightOn = j.leftOn,
            !.suffix = "__build_side_swap", !.maySwap = FALSE, !.publish = 0]

(* The exchanged join under the columns of it that are the original's, in  *)
(* its order and by its names, layout being the original's and there the   *)
(* exchanged one's; nothing if some column is not there.                   *)
AsExchanged(j, layout, there) ==
  LET from(c) == {p \in DOMAIN there :
                    CASE c.side = "right" -> there[p].side = "left" /\ there[p].index = c.index
                      [] c.side = "left" /\ c.merged # 0 ->
                           there[p].side = "left" /\ there[p].index = c.merged /\ there[p].merged = c.index
                      [] OTHER -> there[p].side = "right" /\ there[p].index = c.index}
      column(c) ==
        LET name == there[CHOOSE p \in from(c) : TRUE].field.name
        IN IF name = c.field.name THEN Col(name) ELSE Alias(Col(name), c.field.name)
  IN IF \E i \in DOMAIN layout : from(layout[i]) = {} THEN <<>>
     ELSE <<Project([i \in DOMAIN layout |-> column(layout[i])], Exchanged(j))>>

(* It, if it gives what the original does, and no key is a float.          *)
SwapLayout(j, types, layout, there) ==
  LET exact(p) == IF p = <<>> THEN <<>> ELSE IF Schema(p[1]) # Fields(layout) THEN <<>> ELSE p
  IN IF "float" \in ToSet(types) THEN <<>> ELSE exact(AsExchanged(j, layout, there))
SwapSchemas(j, ls, rs) == SwapLayout(j, KeyTypes(j, ls, rs), Layout(j, ls, rs), Layout(Exchanged(j), rs, ls))
SwapJoin(j) == SwapSchemas(j, Schema(j.kids[1]), Schema(j.kids[2]))

(* A join that could be exchanged is marked, for the one that runs to find *)
(* out how large its inputs are.                                           *)
MarkOrSwap(n, swapped) ==
  CASE swapped = <<>> -> n
    [] /\ swapped # <<>> /\ Known(n.kids[1]) /\ Known(n.kids[2])
       /\ EstimateRows(n.kids[2]) > 2 * EstimateRows(n.kids[1]) ->
         Over(swapped[1], [swapped[1].kids[1] EXCEPT !.maySwap = TRUE])
    [] OTHER -> [n EXCEPT !.maySwap = TRUE]
BuildOne(n, ordered) ==
  IF n.op # "join" \/ ordered THEN n
  ELSE IF ~Swappable(n) \/ SortedBelow(n.kids[1]) THEN n
  ELSE MarkOrSwap(n, SwapJoin(n))

RECURSIVE Built(_, _, _)
Built(n, ordered, sites) ==
  LET owes(i) == IF n.op = "cache" THEN n.id \in sites ELSE KeepsOrderOf(n, i, ordered)
  IN BuildOne([n EXCEPT !.kids = [i \in DOMAIN n.kids |-> Built(n.kids[i], owes(i), sites)]], ordered)

BuildSide(n) == Built(n, FALSE, OrderedSites(n, FALSE))

(* What runs of a marked join when its probe turns out the smaller.        *)
SwapMarked(n) ==
  IF n.op # "join" THEN n ELSE IF ~n.maySwap THEN n ELSE SwapJoin(n)[1]
RECURSIVE Swapped(_)
Swapped(n) == SwapMarked([n EXCEPT !.kids = [i \in DOMAIN n.kids |-> Swapped(n.kids[i])]])

-----------------------------------------------------------------------------
(* Runtime filters: what a join builds filters where its probe key comes   *)
(* from.                                                                   *)

IntKeyType(type) == type \in {"small", "int"}
HasField(s, name, type) == \E i \in DOMAIN s : s[i].name = name /\ s[i].type = type

(* The name and type of the key that filters the probe, if one may.        *)
KeyOf(j, ls, type) ==
  IF IntKeyType(type) /\ HasField(ls, j.leftOn[1].name, type)
  THEN <<[name |-> j.leftOn[1].name, type |-> type]>> ELSE <<>>
FilterKey(j, ls, rs) ==
  IF \/ j.kind \notin {"inner", "semi"} \/ Len(j.leftOn) # 1
     \/ j.nullsEqual \/ j.validate \/ j.publish # 0
  THEN <<>>
  ELSE IF j.leftOn[1].e # "col" THEN <<>> ELSE KeyOf(j, ls, KeyTypes(j, ls, rs)[1])

KeptSides(j) ==
  (IF j.kind \in {"inner", "left", "cross", "semi", "anti"} THEN {"left"} ELSE {})
    \union (IF j.kind \in {"inner", "right", "cross"} THEN {"right"} ELSE {})

(* Where n's column key comes from: the input it is a column of, as it is. *)
JoinComesFrom(n, c) ==
  LET kid == IF c.side = "left" THEN 1 ELSE 2
  IN IF n.validate \/ c.side \notin KeptSides(n) THEN <<>>
     ELSE <<[kid |-> kid, name |-> Schema(n.kids[kid])[c.index].name]>>
LayoutComesFrom(n, key, layout) == JoinComesFrom(n, layout[IndexOf(Fields(layout), key)])
ComesFrom(n, key) ==
  CASE n.op \in {"filter", "runtime"} -> <<[kid |-> 1, name |-> key]>>
    [] n.op = "project" ->
         LET x == DefinedBy(n.exprs)[key]
             as(i) == n.exprs[i] \in {x, Alias(x, key)}
         IN IF x.e = "col" /\ \E i \in DOMAIN n.exprs : OutputName(n.exprs[i]) = key /\ as(i)
            THEN <<[kid |-> 1, name |-> x.name]>> ELSE <<>>
    [] n.op = "with" -> IF \E i \in DOMAIN n.exprs : OutputName(n.exprs[i]) = key THEN <<>>
                        ELSE <<[kid |-> 1, name |-> key]>>
    [] n.op = "join" -> LayoutComesFrom(n, key, Layout(n, Schema(n.kids[1]), Schema(n.kids[2])))
    [] OTHER -> <<>>

(* n with the filter as deep as the key comes from unchanged, if that is   *)
(* below a join.                                                           *)
RECURSIVE Placed(_, _, _, _, _)
PlacedBelow(n, from, type, slot, passed) ==
  IF from = <<>> THEN <<>>
  ELSE IF ~HasField(Schema(n.kids[from[1].kid]), from[1].name, type) THEN <<>>
  ELSE LET below == Placed(n.kids[from[1].kid], from[1].name, type, slot, passed \/ n.op = "join")
       IN IF below = <<>> THEN <<>> ELSE <<[n EXCEPT !.kids[from[1].kid] = below[1]]>>
PlacedHere(n, key, slot, passed, deeper) ==
  IF deeper # <<>> THEN deeper
  ELSE IF passed THEN <<[op |-> "runtime", key |-> key, slot |-> slot, kids |-> <<n>>]>> ELSE <<>>
Placed(n, key, type, slot, passed) ==
  PlacedHere(n, key, slot, passed, PlacedBelow(n, ComesFrom(n, key), type, slot, passed))

(* Bottom-up: ids counts the slots, and a shared subplan is, at each site, *)
(* what it became at the first.                                            *)
RECURSIVE Filtering(_, _)
Becomes(m, ids, sites) == [n |-> m, ids |-> ids, sites |-> sites, kids |-> <<>>]
FilterProbe(j, acc, key) ==
  LET placed(left) == IF left = <<>> THEN Becomes(j, acc.ids, acc.sites)
                      ELSE Becomes([j EXCEPT !.kids[1] = left[1], !.publish = acc.ids + 1],
                                   acc.ids + 1, acc.sites)
  IN IF key = <<>> THEN Becomes(j, acc.ids, acc.sites)
     ELSE placed(Placed(j.kids[1], key[1].name, key[1].type, acc.ids + 1, FALSE))
FilterOne(n, acc) ==
  CASE n.op = "cache" -> IF n.id \in DOMAIN acc.sites THEN Becomes(acc.sites[n.id], acc.ids, acc.sites)
                         ELSE Becomes(n, acc.ids, (n.id :> n) @@ acc.sites)
    [] n.op = "join"  -> FilterProbe(n, acc, FilterKey(n, Schema(n.kids[1]), Schema(n.kids[2])))
    [] OTHER          -> Becomes(n, acc.ids, acc.sites)
Filtering(n, acc) ==
  LET over(below) == FilterOne([n EXCEPT !.kids = below.kids], below)
  IN over(FoldLeft(LAMBDA a, kid : LET got == Filtering(kid, a)
                                   IN [got EXCEPT !.kids = Append(a.kids, got.n)],
                   [n |-> n, ids |-> acc.ids, sites |-> acc.sites, kids |-> <<>>], n.kids))

RuntimeFilters(n) == Filtering(n, [ids |-> 0, sites |-> <<>>]).n

-----------------------------------------------------------------------------
(* Simplification.                                                         *)

IsBool(x) == x.e = "lit" /\ x.type = "bool" /\ x.v # Null

RECURSIVE Foldable(_)
Foldable(x) == /\ x.e \in {"bin", "not", "cast"}
               /\ \A i \in DOMAIN x.kids : x.kids[i].e = "lit" \/ Foldable(x.kids[i])

(* A literal that is the identity goes; one that absorbs stays alone, if   *)
(* the other cannot fail.                                                  *)
BoolIdentity(x, s) ==
  LET drops(i)   == IsBool(x.kids[i]) /\ x.kids[i].v = (x.op = "and")
      absorbs(i) == IsBool(x.kids[i]) /\ ~drops(i) /\ ~Fallible(x.kids[3 - i], s)
  IN CASE drops(1) -> x.kids[2] [] absorbs(1) -> x.kids[1]
       [] OTHER -> (CASE drops(2) -> x.kids[1] [] absorbs(2) -> x.kids[2] [] OTHER -> x)

(* What folds is its value; what fails to is looked at as any other is.    *)
Folds(x) == Foldable(x) /\ Val(x, <<>>, <<>>) # Failure
Rewritten(x, s) ==
  CASE Folds(x) -> Lit(Val(x, <<>>, <<>>), FieldOf(x, s).type)
    [] ~Folds(x) /\ x.e = "not" -> IF x.kids[1].e = "not" THEN x.kids[1].kids[1] ELSE x
    [] ~Folds(x) /\ x.e = "bin" -> IF x.op \in {"and", "or"} THEN BoolIdentity(x, s) ELSE x
    [] OTHER -> x

(* An expression that s cannot type is left as it is.                      *)
SameValue(a, b, s) ==
  /\ Resolves(a, s)
  /\ FieldOf(a, s).type = FieldOf(b, s).type /\ FieldOf(a, s).nullable = FieldOf(b, s).nullable

RECURSIVE Simplified(_, _)
Unless(x, got, s) == IF SameValue(x, got, s) THEN got ELSE x
SimplifiedOver(x, s) == Unless(x, Rewritten(x, s), s)
Simplified(x, s) == SimplifiedOver([x EXCEPT !.kids = [i \in DOMAIN x.kids |-> Simplified(x.kids[i], s)]], s)

(* An expression that names a column keeps its name.                       *)
KeepsField(x, got, s) == IF Resolved(got, s) = Resolved(x, s) THEN got ELSE x
Renamed(xs, s) ==
  [i \in DOMAIN xs |-> IF ~Resolves(xs[i], s) THEN xs[i] ELSE KeepsField(xs[i], Simplified(xs[i], s), s)]

SimplifyFilter(n, preds) ==
  LET kept == SelectSeq(preds, LAMBDA p : ~IsBool(p) \/ p.v = FALSE)
  IN IF \E i \in DOMAIN kept : kept[i].e = "lit" THEN [op |-> "limit", n |-> 0, kids |-> n.kids]
     ELSE IF kept = <<>> THEN n.kids[1] ELSE [n EXCEPT !.preds = kept]

IsIdentity(exprs, s) ==
  Len(exprs) = Len(s) /\ \A i \in DOMAIN s : exprs[i] = Col(s[i].name)

SimplifyOne(n, s) ==
  LET projected(exprs) == IF IsIdentity(exprs, s) THEN n.kids[1] ELSE [n EXCEPT !.exprs = exprs]
  IN CASE n.op = "project" -> projected(Renamed(n.exprs, s))
       [] n.op = "with"    -> [n EXCEPT !.exprs = Renamed(@, s)]
       [] n.op = "group"   -> [n EXCEPT !.keys = Renamed(@, s)]
       [] n.op = "filter"  -> SimplifyFilter(n, [i \in DOMAIN n.preds |-> Simplified(n.preds[i], s)])
       [] OTHER            -> n

(* A rewrite that changes what a node gives is declined.                   *)
Declined(n, got) == IF Schema(got) # Schema(n) THEN n ELSE got
RECURSIVE Simplify(_)
SimplifyOver(n) == IF n.kids = <<>> THEN n ELSE Declined(n, SimplifyOne(n, Schema(n.kids[1])))
Simplify(n) == SimplifyOver([n EXCEPT !.kids = [i \in DOMAIN n.kids |-> Simplify(n.kids[i])]])
=============================================================================
