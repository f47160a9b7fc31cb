----------------------------- MODULE Optimizer -----------------------------
(***************************************************************************)
(* The optimizer (internal/plan/optimize.go): a resolved plan is rewritten *)
(* by each rule the query's flags leave on, in order, and then runs.  What *)
(* a rule must keep is the plan's schema, the rows it answers, in order,   *)
(* and that it answers at all.                                             *)
(***************************************************************************)
EXTENDS PlanShape

CONSTANTS
  Picks,     \* what a query is made of
  Query(_),    \* the plan of a choice
  FlagSets     \* the flags a query may have, each a set of the names of rules

Flags == {"SimplifyExprs", "PredicatePushdown", "JoinPredicatePushdown", "CollapseCrossJoin",
          "ProjectionPushdown", "LimitPushdown", "BuildSide", "RuntimeFilters"}

ASSUME FlagsAssumption == FlagSets \subseteq SUBSET Flags

VARIABLES
  query,       \* the plan as it was resolved
  flags,       \* the rules that are on
  plan,        \* the plan now
  rule         \* how many of the rules it has been through

vars == <<query, flags, plan, rule>>

(* Only a plan whose every expression reads columns there are, and whose   *)
(* columns have each a name of its own, is run.                            *)
Reads(n) ==
  CASE n.op \in {"project", "with"} -> n.exprs
    [] n.op = "filter"   -> n.preds
    [] n.op = "sort"     -> [i \in DOMAIN n.keys |-> n.keys[i].x]
    [] n.op = "group"    -> n.keys \o [i \in DOMAIN n.aggs |-> n.aggs[i].x]
    [] n.op = "window"   -> [i \in DOMAIN n.aggs |-> n.aggs[i].x] \o FlattenSeq([i \in DOMAIN n.aggs |-> n.aggs[i].parts])
    [] n.op = "distinct" -> [i \in DOMAIN SetToSeq(n.subset) |-> Col(SetToSeq(n.subset)[i])]
    [] OTHER -> <<>>
RECURSIVE IsResolved(_)
IsResolved(n) ==
  /\ \A i \in DOMAIN n.kids : IsResolved(n.kids[i])
  /\ LET s == IF n.op = "with" THEN Schema(n) ELSE Schema(n.kids[1])
     IN \A i \in DOMAIN Reads(n) : Resolves(Reads(n)[i], s)
  /\ IsInjective(Names(Schema(n)))

Init == /\ \E c \in Picks : IsResolved(Query(c)) /\ query = Query(c)
        /\ flags \in FlagSets
        /\ plan = query
        /\ rule = 0

(* The rule of this place in the order, if its flag is on.                 *)
Apply(place, flag, rewritten) ==
  /\ rule = place - 1
  /\ plan' = IF flag \in flags THEN rewritten ELSE plan
  /\ rule' = place
  /\ UNCHANGED <<query, flags>>

SimplifyFirst    == Apply(1, "SimplifyExprs", Simplify(plan))
PushPredicate    == Apply(2, "PredicatePushdown", PushPredicates(plan, "JoinPredicatePushdown" \in flags))
CollapseCrossJoin == Apply(3, "CollapseCrossJoin", CollapseCross(plan))
PushColumns      == Apply(4, "ProjectionPushdown", PushProjection(plan))
PushRows         == Apply(5, "LimitPushdown", PushLimit(plan))
ChooseBuildSide  == Apply(6, "BuildSide", BuildSide(plan))
FilterAtRuntime  == Apply(7, "RuntimeFilters", RuntimeFilters(plan))
SimplifyLast     == Apply(8, "SimplifyExprs", Simplify(plan))

(* The joins that are marked exchange their inputs as they run.            *)
ExchangeAtRuntime == Apply(9, "BuildSide", Swapped(plan))

Next == \/ SimplifyFirst \/ PushPredicate \/ CollapseCrossJoin \/ PushColumns \/ PushRows
        \/ ChooseBuildSide \/ FilterAtRuntime \/ SimplifyLast \/ ExchangeAtRuntime

Spec == Init /\ [][Next]_vars

-----------------------------------------------------------------------------
(* Properties.                                                             *)

RECURSIVE Nodes(_), OrderFree(_, _)
Nodes(n) == <<n>> \o FlattenSeq([i \in DOMAIN n.kids |-> Nodes(n.kids[i])])

(* Whether n's rows may come in another order: an inner join that was not  *)
(* asked to keep its left input's, and whose left input nobody sorted.     *)
OrderFree(n, ordered) ==
  \/ n.op = "join" /\ Swappable(n) /\ ~SortedBelow(n.kids[1]) /\ ~ordered
  \/ \E i \in DOMAIN n.kids : n.op # "sort" /\ OrderFree(n.kids[i], KeepsOrderOf(n, i, ordered))

(* Whether n keeps some of such rows, or a value of them, by their place.  *)
RECURSIVE PicksByPlace(_)
PicksByPlace(n) ==
  \/ /\ \/ n.op \in {"limit", "slice", "tail", "index", "distinct"}
        \/ n.op = "group" /\ \E i \in DOMAIN n.aggs : n.aggs[i].fn = "first"
     /\ OrderFree(n.kids[1], FALSE)
  \/ \E i \in DOMAIN n.kids : PicksByPlace(n.kids[i])

Counts(rows) == [r \in ToSet(rows) |-> Cardinality({i \in DOMAIN rows : rows[i] = r})]

(* A plan that answers answers after every rule too: no rule adds an error.*)
NoRuleAddsAnError == ~RowsOf(query).fails => ~RowsOf(plan).fails

(* A plan that answers answers the same after every rule: the same rows,   *)
(* in order, but for a join nobody asked an order of, and no error.  A     *)
(* query that picks rows of such a join by their place has more than one   *)
(* answer, and nothing is asked of it.                                     *)
RulesKeepTheAnswer ==
  LET Kept(before, after) ==
        /\ ~after.fails
        /\ IF OrderFree(query, FALSE) THEN Counts(after.rows) = Counts(before.rows)
           ELSE after.rows = before.rows
      Asked(before) == ~before.fails => Kept(before, RowsOf(plan))
  IN plan # query /\ ~PicksByPlace(query) => Asked(RowsOf(query))

RECURSIVE Evaluations(_)
Exprs(n) == CASE n.op \in {"project", "with"} -> n.exprs
              [] n.op = "filter" -> n.preds
              [] OTHER -> <<>>
Evaluations(n) ==
  FoldLeft(LAMBDA t, x : t + Calls(x), 0, Exprs(n))
    + FoldLeft(LAMBDA most, kid : IF Evaluations(kid) > most THEN Evaluations(kid) ELSE most, 0, n.kids)

(* After every rule the plan gives the same columns, names, types and what *)
(* may be null; each filter reads columns there are, a union's inputs give *)
(* the same ones, every site of a shared subplan reads one subplan, and no *)
(* row meets more udfs on its way up.                                      *)
PlanStaysWhole ==
  LET nodes == Nodes(plan)
      Whole(n) ==
        CASE n.op = "filter" -> \A i \in DOMAIN n.preds : Resolves(n.preds[i], Schema(n.kids[1]))
          [] n.op = "union"  -> Names(Schema(n.kids[1])) = Names(Schema(n.kids[2]))
          [] n.op = "merge"  -> Schema(n.kids[1]) = Schema(n.kids[2])
          [] n.op = "cache"  -> \A i \in DOMAIN nodes :
                                  nodes[i].op = "cache" => (nodes[i].id = n.id => nodes[i].kids = n.kids)
          [] OTHER           -> TRUE
  IN
  /\ Schema(plan) = Schema(query)
  /\ \A i \in DOMAIN nodes : Whole(nodes[i])
  /\ Evaluations(plan) <= Evaluations(query)
=============================================================================
