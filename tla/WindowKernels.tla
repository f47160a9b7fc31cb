--------------------------- MODULE WindowKernels ---------------------------
(***************************************************************************)
(* The window functions over one partition held in memory                  *)
(* (internal/kernel/window.go, rolling.go, rollingby.go).                  *)
(*                                                                         *)
(* A partition is its rows in the order the function walks them.  A row    *)
(* has val, the function's child, and ord, the key it is ordered by and    *)
(* the time of a window by time; either is a sequence of one value, or of  *)
(* none for a null.  An answer is a sequence too: one value, none, a       *)
(* window's values, or the terms it is computed from.  A window w is:      *)
(*   fn       agg, cum_sum, cum_count, shift, fill, rank, interpolate,     *)
(*            rolling (min, max, an integer sum, a quantile), rolling_float*)
(*            (a sum, mean or variance of floats), rolling_by (the same,   *)
(*            by time) or whole (cumulative_eval)                          *)
(*   by       the field its partition_by names, or none                    *)
(*   ordered  it has an order_by                                           *)
(*   back     it is walked from the end                                    *)
(*   n        the rows of a shift, a fill or a rolling window, or a period *)
(*   min      the values a rolling window needs                            *)
(*   center   a rolling window is centred on its row                       *)
(*   how      the method of a rank, nearest or linear of interpolate, or   *)
(*            which ends of a window by time are closed                    *)
(***************************************************************************)
EXTENDS Integers, Sequences, FiniteSets, SequencesExt, FiniteSetsExt

Null == <<>>

Bigger(x, y) == IF x > y THEN x ELSE y

Holding(rows) == {i \in DOMAIN rows : rows[i].val # Null}

(* The values of these rows, and of those from lo to hi that there are.    *)
Vals(rows) ==
  LET held == SelectSeq(rows, LAMBDA r : r.val # Null)
  IN [j \in DOMAIN held |-> held[j].val[1]]

ValuesOf(rows, lo, hi) ==
  Vals(SubSeq(rows, IF lo < 1 THEN 1 ELSE lo, IF hi > Len(rows) THEN Len(rows) ELSE hi))

InScanOrder(w, seq) == IF w.back THEN Reverse(seq) ELSE seq

(* A null is skipped by the running total and stays null.                  *)
CumSum(rows) ==
  LET total[i \in 0..Len(rows)] ==
        IF i = 0 THEN 0
        ELSE total[i - 1] + (IF rows[i].val = Null THEN 0 ELSE rows[i].val[1])
  IN [i \in DOMAIN rows |-> IF rows[i].val = Null THEN Null ELSE <<total[i]>>]

CumCount(w, rows) ==
  [i \in DOMAIN rows |-> <<IF w.back THEN Len(rows) - i + 1 ELSE i>>]

(* A row shifted in from outside takes its own fill, told by its id.       *)
Shift(w, rows) ==
  [i \in DOMAIN rows |->
     IF i - w.n \in DOMAIN rows THEN rows[i - w.n].val ELSE <<-rows[i].id>>]

(* The last value, over at most n nulls in a row; n is 0 for no limit.     *)
Fill(w, rows) ==
  [i \in DOMAIN rows |->
     LET before == {j \in Holding(rows) : j <= i} IN
     IF before = {} \/ (w.n > 0 /\ i - Max(before) > w.n) THEN Null
     ELSE rows[Max(before)].val]

(* The rows come in the order of their values, nulls first; a null has no  *)
(* rank, and no position.  An average is the sum that is halved.           *)
Rank(w, rows) ==
  [i \in DOMAIN rows |->
     LET peers == {j \in DOMAIN rows : rows[j].val = rows[i].val}
         ahead == {j \in Holding(rows) : j < Min(peers)}
         first == Cardinality(ahead) + 1
         last  == Cardinality(ahead) + Cardinality(peers)
     IN CASE rows[i].val = Null -> Null
          [] w.how = "ordinal"  -> <<first + i - Min(peers)>>
          [] w.how = "dense"    -> <<1 + Cardinality({rows[j].val : j \in ahead})>>
          [] w.how = "min"      -> <<first>>
          [] w.how = "max"      -> <<last>>
          [] w.how = "average"  -> <<first + last>>]

(* Between the values before and after: the two, how far along, of how     *)
(* far; or the nearer of them, the later on a tie.                         *)
Interpolate(w, rows) ==
  [i \in DOMAIN rows |->
     LET before == {j \in Holding(rows) : j <= i}
         after  == {j \in Holding(rows) : j >= i}
         p == Max(before)
         q == Min(after)
     IN IF before = {} \/ after = {} THEN Null
        ELSE IF p = i THEN rows[i].val
        ELSE IF w.how = "nearest"
             THEN IF i - p < q - i THEN rows[p].val ELSE rows[q].val
             ELSE rows[p].val \o rows[q].val \o <<i - p, q - p>>]

(* The rows after its own that a centred window reaches.                   *)
Lead(w) == IF w.center THEN (w.n - 1) \div 2 ELSE 0

Enough(w, values) == IF Len(values) >= w.min THEN values ELSE Null

Rolling(w, rows) ==
  [i \in DOMAIN rows |->
     Enough(w, ValuesOf(rows, i + Lead(w) - w.n + 1, i + Lead(w)))]

-----------------------------------------------------------------------------
(* A window of floats is not its values but the steps that made its state: *)
(* what was added and, below zero, what was removed since it was last made *)
(* afresh.  Two windows answer the same to the bit if their steps agree.   *)
(* A walk r holds the rows from pos + 1 on, and its window is from..to-1.  *)

NewWalk == [rows |-> <<>>, pos |-> 0, from |-> 1, to |-> 1, l |-> 1, h |-> 1,
            s |-> <<>>, count |-> 0, removed |-> 0, out |-> <<>>]

Enter(r, hi) ==
  LET vals == ValuesOf(r.rows, r.to - r.pos, hi - 1 - r.pos) IN
  IF hi <= r.to THEN r
  ELSE [r EXCEPT !.s = @ \o vals, !.count = @ + Len(vals), !.to = hi]

(* remove: a state left with no value is as new.                           *)
Without(s, count, val) == IF count = 0 THEN <<>> ELSE Append(s, -val[1])

(* One row leaves; afresh once as many have left as the window holds rows. *)
LeaveOne(r) ==
  LET val   == r.rows[r.from - r.pos].val
      room  == r.to - r.from - 1
      fresh == r.removed + 1 >= IF room > 1 THEN room ELSE 1
  IN IF val = Null THEN [r EXCEPT !.from = @ + 1]
     ELSE [r EXCEPT !.from = @ + 1, !.count = @ - 1,
                    !.removed = IF fresh THEN 0 ELSE @ + 1,
                    !.s = IF fresh
                          THEN ValuesOf(r.rows, r.from + 1 - r.pos, r.to - 1 - r.pos)
                          ELSE Without(@, r.count - 1, val)]

Leave(r, lo) ==
  LET left[p \in r.from..Bigger(r.from, lo)] == IF p = r.from THEN r ELSE LeaveOne(left[p - 1])
  IN left[Bigger(r.from, lo)]

Told(w, moved) ==
  [moved EXCEPT !.out = Append(@, IF moved.count >= w.min THEN moved.s ELSE Null)]

RollTo(w, r, lo, hi) == Told(w, Leave(Enter(r, hi), lo))

(* The trailing window over the rows, and lead nulls after the last.       *)
RollOver(w, rows) ==
  LET r[i \in 0..Len(rows)] ==
        IF i = 0 THEN [NewWalk EXCEPT !.rows = rows]
        ELSE RollTo(w, r[i - 1], IF i > w.n THEN i - w.n + 1 ELSE 1, i + 1)
  IN r[Len(rows)].out

RollingFloat(w, rows) ==
  SubSeq(RollOver(w, rows \o [i \in 1..Lead(w) |-> [val |-> Null]]),
         Lead(w) + 1, Lead(w) + Len(rows))

(* rollingBy's win: the window of the time t, among rows in time's order.  *)
WindowEnds(w, rows, t) ==
  LET Below(x, end, open) == x < end \/ (open /\ x = end)
      Count(end, open) == Cardinality({i \in DOMAIN rows : Below(rows[i].ord[1], end, open)})
  IN <<1 + Count(t - w.n, w.how \in {"right", "none"}),
       1 + Count(t, w.how \in {"right", "both"})>>

ByTime(rows) ==
  SortSeq(SelectSeq(rows, LAMBDA r : r.ord # Null),
          LAMBDA r, x : r.ord[1] < x.ord[1] \/ (r.ord = x.ord /\ r.id < x.id))

OverTimes(w, sorted) ==
  LET ends(i) == WindowEnds(w, sorted, sorted[i].ord[1])
      r[i \in 0..Len(sorted)] ==
        IF i = 0 THEN [NewWalk EXCEPT !.rows = sorted]
        ELSE RollTo(w, r[i - 1], ends(i)[1], Bigger(ends(i)[1], ends(i)[2]))
  IN r[Len(sorted)].out

RollingBy(w, rows) ==
  LET At(r, sorted, out) == out[CHOOSE j \in DOMAIN sorted : sorted[j].id = r.id]
      Placed(sorted, out) ==
        [i \in DOMAIN rows |-> IF rows[i].ord = Null THEN Null ELSE At(rows[i], sorted, out)]
  IN Placed(ByTime(rows), OverTimes(w, ByTime(rows)))

-----------------------------------------------------------------------------

(* WinCall, the aggregates and cumulativeEval: one partition's answers.    *)
Kernel(w, rows) ==
  CASE w.fn = "agg"           -> [i \in DOMAIN rows |-> ValuesOf(rows, 1, Len(rows))]
    [] w.fn = "whole"         -> [i \in DOMAIN rows |-> ValuesOf(rows, 1, i)]
    [] w.fn = "cum_sum"       -> InScanOrder(w, CumSum(InScanOrder(w, rows)))
    [] w.fn = "cum_count"     -> CumCount(w, rows)
    [] w.fn = "shift"         -> Shift(w, rows)
    [] w.fn = "fill"          -> InScanOrder(w, Fill(w, InScanOrder(w, rows)))
    [] w.fn = "rank"          -> Rank(w, rows)
    [] w.fn = "interpolate"   -> Interpolate(w, rows)
    [] w.fn = "rolling"       -> Rolling(w, rows)
    [] w.fn = "rolling_float" -> RollingFloat(w, rows)
    [] w.fn = "rolling_by"    -> RollingBy(w, rows)

(* The order a function's rows are walked in: rank's is its child's, the   *)
(* others' their order_by, nulls first, ties as they came.                 *)
KeyOf(w, r) == IF w.fn = "rank" THEN r.val ELSE r.ord

KeyBefore(w, r, x) ==
  LET a == KeyOf(w, r)
      b == KeyOf(w, x)
  IN \/ a = Null /\ b # Null
     \/ a # Null /\ b # Null /\ (IF w.fn = "rank" /\ w.back THEN a[1] > b[1] ELSE a[1] < b[1])

Ordered(w) == w.ordered \/ w.fn = "rank"

(* segments: one partition's rows, in the function's order.                *)
InOrder(w, rows) ==
  IF ~Ordered(w) THEN rows
  ELSE SortSeq(rows, LAMBDA r, x : KeyBefore(w, r, x) \/ (~KeyBefore(w, x, r) /\ r.id < x.id))
=============================================================================
