--------------------------- MODULE PlanPredicates ---------------------------
(***************************************************************************)
(* The optimizer's rules for a predicate: how far down it goes, and which  *)
(* make a join of a cross join (internal/plan/rule_predicate.go,           *)
(* fallible.go, rule_collapse.go).  Each takes a plan and gives another.   *)
(***************************************************************************)
EXTENDS PlanAlgebra

Over(n, kid)   == [n EXCEPT !.kids = <<kid>>]
Pair(n, l, r)  == [n EXCEPT !.kids = <<l, r>>]
Project(exprs, kid) == [op |-> "project", exprs |-> exprs, kids |-> <<kid>>]
Filter(preds, kid)  == [op |-> "filter", preds |-> preds, kids |-> <<kid>>]
Refilter(n, preds)  == IF preds = <<>> THEN n ELSE Filter(preds, n)
HasUdf(x)      == Calls(x) > 0

RECURSIVE Substituted(_, _), Fallible(_, _)

(* Each column defs defines, replaced by its definition.                   *)
Substituted(x, defs) ==
  IF x.e = "col" THEN IF x.name \in DOMAIN defs THEN defs[x.name] ELSE x
  ELSE [x EXCEPT !.kids = [i \in DOMAIN x.kids |-> Substituted(x.kids[i], defs)]]

TotalCast(from, to) ==
  \/ from = to \/ to = "text"
  \/ from = "small" /\ to = "int"
  \/ from \in {"small", "int"} /\ to = "float"

(* What can fail on a row: a cast that cannot hold every value, a udf.     *)
Fallible(x, s) ==
  \/ x.e = "cast" /\ (Resolves(x, s) => ~TotalCast(FieldOf(x.kids[1], s).type, x.to))
  \/ x.e = "udf"
  \/ \E i \in DOMAIN x.kids : Fallible(x.kids[i], s)

ReadsFloat(x, s) == \E c \in Roots(x) : Has(s, c) /\ s[IndexOf(s, c)].type = "float"

-----------------------------------------------------------------------------
(* Predicate pushdown.  dest is where each conjunct goes: it stays above   *)
(* the node, or goes into its input, or into its left or its right one.    *)

(* Mutant of HoldFallible: a guard that stays does not hold what follows.  *)
HoldNothing(preds, dest, s) == dest

(* A conjunct that can fail goes only where every one before it went.      *)
HoldFallible(preds, dest, s) ==
  FoldLeft(LAMBDA d, i :
             IF d[i] # "stay" /\ Fallible(preds[i], s) /\ \E j \in 1..(i - 1) : d[j] # d[i]
             THEN [d EXCEPT ![i] = "stay"] ELSE d,
           dest, [i \in DOMAIN preds |-> i])

Going(preds, dest, to) ==
  LET at == SelectSeq([i \in DOMAIN dest |-> i], LAMBDA i : dest[i] = to)
  IN [k \in DOMAIN at |-> preds[at[k]]]

Dest(preds, Goes(_)) == [i \in DOMAIN preds |-> IF Goes(preds[i]) THEN "down" ELSE "stay"]

(* Exact conjuncts are the source's; an inexact one is tested again above. *)
PushIntoScan(n, preds) ==
  LET kind(p) == Classified(Sources[n.source], p)
  IN Refilter([n EXCEPT !.preds = @ \o SelectSeq(preds, LAMBDA p : kind(p) # "none")],
              SelectSeq(preds, LAMBDA p : kind(p) # "exact"))

Substitutable(x, defs, opaque, through) ==
  /\ ~HasUdf(x)
  /\ \A c \in Roots(x) : /\ c \notin opaque
                         /\ IF c \in DOMAIN defs THEN ~HasUdf(defs[c]) ELSE c \in through

(* What a WithColumns computes, each in terms of its input: the name of    *)
(* what cannot be put so is opaque.                                        *)
Definitions(exprs, names) ==
  FoldLeft(LAMBDA acc, x :
             LET name == OutputName(x)
                 bare == StripNaming(x)
             IN IF Substitutable(bare, acc.defs, acc.opaque, names)
                THEN [defs |-> (name :> Substituted(bare, acc.defs)) @@ acc.defs,
                      opaque |-> acc.opaque \ {name}]
                ELSE [defs |-> [c \in DOMAIN acc.defs \ {name} |-> acc.defs[c]],
                      opaque |-> acc.opaque \union {name}],
           [defs |-> <<>>, opaque |-> {}], exprs)

DefinedBy(exprs) ==
  [c \in {OutputName(exprs[i]) : i \in DOMAIN exprs} |->
     StripNaming(exprs[CHOOSE i \in DOMAIN exprs : OutputName(exprs[i]) = c])]

(* The column of an input that a join's output column is, as its output    *)
(* type: a merged key is a column of both.                                 *)
OfSide(c, side) == c.side = side \/ (side = "right" /\ c.merged # 0)
SideColumn(c, side, s) ==
  LET f == s[IF c.side = side THEN c.index ELSE c.merged]
  IN IF f.type = c.field.type THEN Col(f.name) ELSE Cast(Col(f.name), c.field.type)

RewritesFor(p, side, layout) ==
  /\ ~HasUdf(p)
  /\ \A name \in Roots(p) : /\ Has(Fields(layout), name)
                            /\ OfSide(layout[IndexOf(Fields(layout), name)], side)
RewriteForSide(p, side, layout, s) ==
  Substituted(p, [name \in Roots(p) |-> SideColumn(layout[IndexOf(Fields(layout), name)], side, s)])

(* A side that is filled with nulls, or a join that checks its keys, is no *)
(* place for a predicate.                                                  *)
JoinPushLegal(j, side) ==
  /\ ~j.validate
  /\ side = "left"  => j.kind \notin {"right", "full"}
  /\ side = "right" => j.kind \notin {"left", "full"} /\ ~FiltersLeft(j.kind)
JoinKeepsEvery(j, side) == <<j.kind, side>> \in {<<"left", "left">>, <<"right", "right">>}

RECURSIVE Flattened(_, _)
Flattened(p, op) ==
  IF p.e = "bin" /\ p.op = op THEN Flattened(p.kids[1], op) \o Flattened(p.kids[2], op) ELSE <<p>>
Combined(xs, op) == FoldLeft(LAMBDA acc, x : Bin(op, acc, x), Head(xs), Tail(xs))

(* What p implies about a side: of each arm of it, the conjuncts of that   *)
(* side that cannot fail.                                                  *)
ImpliedFor(p, side, layout, s) ==
  LET mine(arm) ==
        LET rewritten == SelectSeq(Flattened(arm, "and"), LAMBDA c : RewritesFor(c, side, layout))
        IN SelectSeq([i \in DOMAIN rewritten |-> RewriteForSide(rewritten[i], side, layout, s)],
                     LAMBDA c : ~Fallible(c, s))
      arms == [i \in DOMAIN Flattened(p, "or") |-> mine(Flattened(p, "or")[i])]
  IN IF \E i \in DOMAIN arms : arms[i] = <<>> THEN <<>>
     ELSE <<Combined([i \in DOMAIN arms |-> Combined(arms[i], "and")], "or")>>

RECURSIVE Push(_, _, _)

PushInto(n, kid, across) == Push(n.kids[kid], <<>>, across)
PushClosed(n, preds, across) ==
  Refilter([n EXCEPT !.kids = [i \in DOMAIN n.kids |-> PushInto(n, i, across)]], preds)

(* The conjuncts that go down do, as subs has them, and the others stay.   *)
PushHeld(n, preds, subs, held, across) ==
  Refilter(Over(n, Push(n.kids[1], Going(subs, held, "down"), across)), Going(preds, held, "stay"))
PushSome(n, preds, subs, dest, across) ==
  PushHeld(n, preds, subs, HoldFallible(preds, dest, Schema(n)), across)

(* What n defines, by what of its input's columns through it reads.        *)
PushThroughDefined(n, preds, known, through, across) ==
  PushSome(n, preds, [i \in DOMAIN preds |-> Substituted(preds[i], known.defs)],
           Dest(preds, LAMBDA p : Substitutable(p, known.defs, known.opaque, through)), across)

PushThroughProjection(n, preds, across) ==
  PushThroughDefined(n, preds, [defs |-> DefinedBy(n.exprs), opaque |-> {}], {}, across)

PushThroughColumns(n, preds, names, across) ==
  PushThroughDefined(n, preds, Definitions(n.exprs, names), names, across)

PushThroughDistinct(n, preds, s, across) ==
  PushSome(n, preds, preds,
           Dest(preds, LAMBDA p : ~ReadsFloat(p, s) /\ (n.whole \/ Roots(p) \subseteq n.subset)),
           across)

(* A conjunct of the keys goes below their definitions, unless a key of it *)
(* is a float or it reads none.                                            *)
PushThroughKeys(n, preds, defs, across) ==
  PushSome(n, preds, [i \in DOMAIN preds |-> Substituted(preds[i], defs)],
           Dest(preds, LAMBDA p : Roots(p) # {} /\ Substitutable(p, defs, {}, {})), across)
PushThroughAggregate(n, preds, s, across) ==
  PushThroughKeys(n, preds, DefinedBy(SelectSeq(n.keys, LAMBDA k : FieldOf(k, s).type # "float")), across)

(* A conjunct of the columns every window is partitioned by.               *)
PushThroughWindow(n, preds, s, across) ==
  LET plain(a) == {c \in NameSet(s) : /\ \E i \in DOMAIN a.parts : StripNaming(a.parts[i]) = Col(c)
                                      /\ s[IndexOf(s, c)].type # "float"}
      common  == {c \in NameSet(s) : \A i \in DOMAIN n.aggs : c \in plain(n.aggs[i])}
  IN PushSome(n, preds, preds,
              Dest(preds, LAMBDA p : Roots(p) # {} /\ Roots(p) \subseteq common /\ ~HasUdf(p)), across)

(* Which input of a join each conjunct may go into.                        *)
JoinDest(j, preds, layout) ==
  LET may(p, side) == /\ JoinPushLegal(j, side)
                      /\ Fallible(p, Fields(layout)) => JoinKeepsEvery(j, side)
                      /\ RewritesFor(p, side, layout)
  IN [i \in DOMAIN preds |-> IF may(preds[i], "left") THEN "left"
                             ELSE IF may(preds[i], "right") THEN "right" ELSE "stay"]

(* What goes into one input: the conjuncts that do, and what those that    *)
(* stay imply of it.                                                       *)
IntoSide(j, side, goes, stay, layout, s) ==
  [i \in DOMAIN goes |-> RewriteForSide(goes[i], side, layout, s)]
    \o IF JoinPushLegal(j, side)
       THEN FlattenSeq([i \in DOMAIN stay |-> ImpliedFor(stay[i], side, layout, s)]) ELSE <<>>

PushJoinHeld(j, preds, held, layout, across) ==
  LET into(kid, side) == Push(j.kids[kid], IntoSide(j, side, Going(preds, held, side), Going(preds, held, "stay"),
                                                    layout, Schema(j.kids[kid])), across)
  IN Refilter(Pair(j, into(1, "left"), into(2, "right")), Going(preds, held, "stay"))
PushJoinOver(j, preds, layout, across) ==
  PushJoinHeld(j, preds, HoldFallible(preds, JoinDest(j, preds, layout), Fields(layout)), layout, across)
PushThroughJoin(j, preds, across) ==
  PushJoinOver(j, preds, Layout(j, Schema(j.kids[1]), Schema(j.kids[2])), across)

(* A node that a conjunct may go below, s being what its input gives.      *)
PushBelow(n, preds, s, across) ==
  CASE n.op = "project"  -> PushThroughProjection(n, preds, across)
    [] n.op = "with"     -> PushThroughColumns(n, preds, NameSet(s), across)
    [] n.op = "distinct" -> PushThroughDistinct(n, preds, s, across)
    [] n.op = "group"    -> PushThroughAggregate(n, preds, s, across)
    [] n.op = "window"   -> PushThroughWindow(n, preds, s, across)

(* Filter(n, preds), with as many of them as may go below n.  A filter's   *)
(* own conjuncts come before the ones above it.                            *)
Push(n, preds, across) ==
  CASE n.op = "scan"                   -> PushIntoScan(n, preds)
    [] n.op = "filter"                 -> Push(n.kids[1], n.preds \o preds, across)
    [] n.op \in {"sort", "reverse"}    -> Over(n, Push(n.kids[1], preds, across))
    [] n.op \in {"project", "with", "distinct", "group", "window"} ->
         PushBelow(n, preds, Schema(n.kids[1]), across)
    [] n.op \in {"union", "merge"}     -> Pair(n, Push(n.kids[1], preds, across), Push(n.kids[2], preds, across))
    [] n.op = "join" /\ across         -> PushThroughJoin(n, preds, across)
    [] OTHER                           -> PushClosed(n, preds, across)

PushPredicates(n, across) == Push(n, <<>>, across)

-----------------------------------------------------------------------------
(* A cross join under a filter of an equality, and a semi or anti join     *)
(* whose residual has one, become a join on it.                            *)

Sides(x, layout) == {layout[IndexOf(Fields(layout), c)].side : c \in Roots(x)}

EquiKeys(p, layout, ls, rs) ==
  LET of(l, r) == IF /\ RewritesFor(l, "left", layout) /\ RewritesFor(r, "right", layout)
                  THEN <<[l |-> RewriteForSide(l, "left", layout, ls),
                          r |-> RewriteForSide(r, "right", layout, rs), p |-> p]>>
                  ELSE <<>>
  IN IF p.e # "bin" \/ ~Resolves(p, Fields(layout)) THEN <<>>
     ELSE IF p.op # "eq" THEN <<>>
     ELSE CASE Sides(p.kids[1], layout) = {"left"} /\ Sides(p.kids[2], layout) = {"right"} -> of(p.kids[1], p.kids[2])
            [] Sides(p.kids[1], layout) = {"right"} /\ Sides(p.kids[2], layout) = {"left"} -> of(p.kids[2], p.kids[1])
            [] OTHER -> <<>>

(* A hash finds NaN equal to itself: a float's equality is tested again.   *)
FloatKeyResiduals(pairs, types) ==
  LET floats == SelectSeq([i \in DOMAIN pairs |-> i], LAMBDA i : types[i] = "float")
  IN [i \in DOMAIN floats |-> pairs[floats[i]].p]

(* The join on preds' equalities, and what is to test above it; the join   *)
(* as it was when there are none or their types have no common one.        *)
JoinOn(j, pairs) ==
  [j EXCEPT !.leftOn = [i \in DOMAIN pairs |-> pairs[i].l],
            !.rightOn = [i \in DOMAIN pairs |-> pairs[i].r], !.nullsEqual = FALSE]
CollapsedOn(j, preds, pairs, others, ls, rs) ==
  LET exact == \A i \in DOMAIN pairs : PromotesExactly(FieldOf(pairs[i].l, ls).type, FieldOf(pairs[i].r, rs).type)
  IN IF pairs = <<>> \/ ~exact THEN [join |-> j, moved |-> FALSE, tests |-> preds]
     ELSE [join |-> JoinOn(j, pairs), moved |-> TRUE,
           tests |-> FloatKeyResiduals(pairs, KeyTypes(JoinOn(j, pairs), ls, rs)) \o others]
Collapsed(j, preds, layout, ls, rs) ==
  CollapsedOn(j, preds, FlattenSeq([i \in DOMAIN preds |-> EquiKeys(preds[i], layout, ls, rs)]),
              SelectSeq(preds, LAMBDA p : EquiKeys(p, layout, ls, rs) = <<>>), ls, rs)
CollapseResidual(j, ls, rs)      == Collapsed(j, j.residual, PairLayout(j, ls, rs), ls, rs)
CollapseFilter(j, preds, ls, rs) == Collapsed(j, preds, Layout(j, ls, rs), ls, rs)

CollapseOne(n) ==
  LET below == n.kids[1]
      asJoin(c) == [c.join EXCEPT !.residual = c.tests]
      asFilter(c) == IF ~c.moved THEN n
                     ELSE Refilter([c.join EXCEPT !.kind = "inner", !.coalesce = FALSE], c.tests)
  IN CASE n.op = "join" ->
            IF n.residual = <<>> \/ n.leftOn # <<>> THEN n
            ELSE asJoin(CollapseResidual(n, Schema(n.kids[1]), Schema(n.kids[2])))
       [] n.op = "filter" ->
            IF below.op # "join" THEN n ELSE IF below.kind # "cross" THEN n
            ELSE asFilter(CollapseFilter(below, n.preds, Schema(below.kids[1]), Schema(below.kids[2])))
       [] OTHER -> n

RECURSIVE CollapseCross(_)
CollapseCross(n) ==
  CollapseOne([n EXCEPT !.kids = [i \in DOMAIN n.kids |-> CollapseCross(n.kids[i])]])
=============================================================================
