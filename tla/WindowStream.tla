---------------------------- MODULE WindowStream ----------------------------
(***************************************************************************)
(* A window over one huge partition, read back from one file               *)
(* (internal/physical/winstream.go, winsorted.go; internal/kernel's        *)
(* ranknext.go, interpnext.go, rollingnext.go, rollingbynext.go).          *)
(*                                                                         *)
(* The file is walked a batch at a time, and each function keeps no more   *)
(* between batches than it needs: the rows before, the last answer, a      *)
(* count, or its kernel's state; and none of the rows after but the few    *)
(* read ahead.  A function in an order of its own walks the rows sorted,   *)
(* or sorted and reversed, and its answers are put back by position.       *)
(* What the walks' own sorts do past the limit is ExternalSort's.          *)
(***************************************************************************)
EXTENDS WindowKernels

Kind(kind) == [kind |-> kind, h |-> 0, l |-> 0]

None == Kind("none")

Context(h, l) == [kind |-> "context", h |-> h, l |-> l]

(* What a function needs around a batch of the file, if that is bounded.   *)
StreamNeed(w) ==
  CASE w.fn = "agg" -> Kind("agg")
    [] w.fn # "agg" /\ w.ordered -> None
    [] ~w.ordered /\ w.fn = "cum_count" -> Kind("count")
    [] ~w.ordered /\ w.fn = "cum_sum" -> IF w.back THEN None ELSE Kind("carry")
    [] ~w.ordered /\ w.fn = "shift" -> IF w.n >= 0 THEN Context(w.n, 0) ELSE Context(0, -w.n)
    [] ~w.ordered /\ w.fn = "fill" ->
         IF w.n > 0 THEN IF w.back THEN Context(0, w.n) ELSE Context(w.n, 0)
         ELSE IF w.back THEN None ELSE Kind("carry")
    [] ~w.ordered /\ w.fn = "rolling" -> Context(w.n, IF w.center THEN w.n ELSE 0)
    [] ~w.ordered /\ w.fn = "rolling_float" -> [Kind("walk") EXCEPT !.l = Lead(w)]
    [] OTHER -> None

Step(w, kind, back) == [w |-> w, need |-> Kind(kind), back |-> back]

(* The walks that answer a function in an order, and none if none do.      *)
SortedPlan(w) ==
  LET file == [w EXCEPT !.ordered = FALSE]
      Ranks(m, back) == Step([file EXCEPT !.how = m], "rank", back)
      Nearest(back)  == Step([file EXCEPT !.fn = "fill", !.n = 0, !.back = FALSE], "carry", back)
      At(back)       == Step(file, "held", back)
      Own            == Step([file EXCEPT !.fn = "cum_count", !.back = FALSE], "count", FALSE)
      Forward(x, back) == [w |-> x, need |-> StreamNeed(x), back |-> back]
      turned == w.back /\ (w.fn = "cum_sum" \/ (w.fn = "fill" /\ w.n = 0))
  IN CASE w.fn \in {"agg", "whole"} -> <<>>
       [] w.fn = "rolling_by" -> <<Step(file, "by", FALSE)>>
       [] w.fn = "rank" /\ w.how = "max" -> <<Ranks("min", TRUE)>>
       [] w.fn = "rank" /\ w.how = "average" -> <<Ranks("min", FALSE), Ranks("min", TRUE)>>
       [] w.fn = "rank" /\ w.how \in {"ordinal", "dense", "min"} -> <<Ranks(w.how, FALSE)>>
       [] w.fn = "interpolate" ->
            <<Nearest(FALSE), At(FALSE), Own, Nearest(TRUE), At(TRUE)>>
       [] turned -> <<Forward([file EXCEPT !.back = FALSE], TRUE)>>
       [] w.fn \notin {"agg", "whole", "rolling_by", "rank", "interpolate"} /\ ~turned ->
            IF w.ordered THEN <<Forward(file, FALSE)>> ELSE <<>>

StreamsAlone(w) == StreamNeed(w) # None \/ SortedPlan(w) # <<>>

-----------------------------------------------------------------------------
(* One function's walk: what it keeps from one batch to the next.          *)

Start(w) ==
  [out |-> <<>>, hist |-> <<>>, last |-> Null, n |-> 0, held |-> -1,
   rank |-> [pos |-> 0, dense |-> 0, first |-> 0, prev |-> Null],
   roll |-> [next |-> 0, ring |-> [i \in 0..w.n |-> Null], s |-> <<>>, count |-> 0,
             removed |-> 0, out |-> <<>>],
   base |-> 0, fed |-> 0, pend |-> <<>>, drop |-> 0, by |-> NewWalk]

(* The rows read past batch k: whole batches, until there are maxL of them.*)
RowsTo(batches, k, m) == FlattenSeq(SubSeq(batches, k + 1, m))

Ahead(batches, k, maxL) ==
  LET Read(enough) == [rows |-> RowsTo(batches, k, IF enough = {} THEN Len(batches) ELSE Min(enough)),
                       eof  |-> enough = {}]
  IN Read({m \in k..Len(batches) : Len(RowsTo(batches, k, m)) >= maxL})

FirstRows(seq, n) == SubSeq(seq, 1, IF n < Len(seq) THEN n ELSE Len(seq))
LastRows(seq, n) == SubSeq(seq, IF n < Len(seq) THEN Len(seq) - n + 1 ELSE 1, Len(seq))

(* answer: the kernel over the h rows before, the batch and the l after.   *)
InContext(w, need, s, child, ahead) ==
  LET Keep(before) ==
        [s EXCEPT !.out = @ \o SubSeq(Kernel(w, before \o FirstRows(ahead.rows, need.l)),
                                      Len(s.hist) + 1, Len(before)),
                  !.hist = LastRows(before, need.h)]
  IN Keep(s.hist \o child)

(* carried: the last answer that held a value leads the batch.             *)
Carried(w, s, child) ==
  LET lead == IF s.last = Null THEN <<>> ELSE <<[child[1] EXCEPT !.val = s.last]>>
      Latest(got, res) == IF got = {} THEN s.last ELSE res[Max(got)]
      Keep(res) == [s EXCEPT !.out = @ \o res,
                             !.last = Latest({i \in DOMAIN res : res[i] # Null}, res)]
  IN Keep(LastRows(Kernel(w, lead \o child), Len(child)))

Counted(w, total, s, child) ==
  [s EXCEPT !.out = @ \o [i \in DOMAIN child |->
                            <<IF w.back THEN total - s.n - (i - 1) ELSE s.n + i>>],
            !.n = @ + Len(child)]

(* RankNext's step: a value that does not tie with the last begins a group.*)
RankRow(w, s, val) ==
  LET k    == s.rank
      new  == k.prev # val
      next == [pos   |-> k.pos + 1, prev |-> val,
               dense |-> IF new THEN k.dense + 1 ELSE k.dense,
               first |-> IF new THEN k.pos + 1 ELSE k.first]
  IN IF val = Null THEN [s EXCEPT !.out = Append(@, Null)]
     ELSE [s EXCEPT !.rank = next,
                    !.out = Append(@, <<CASE w.how = "ordinal" -> next.pos
                                          [] w.how = "dense"   -> next.dense
                                          [] w.how = "min"     -> next.first>>)]

(* lastHeld: the position of the last value, of the rows walked.           *)
HeldRow(s, val) ==
  LET at == IF val # Null THEN s.n ELSE s.held IN
  [s EXCEPT !.held = at, !.n = @ + 1,
            !.out = Append(@, IF at < 0 THEN Null ELSE <<at>>)]

(* RollingState's step at one row, over a ring of the last n + 1.          *)
RollRow(w, r, val) ==
  LET ring == [r.ring EXCEPT ![r.next % (w.n + 1)] = val]
      old  == r.next - w.n
      gone == IF old >= 0 THEN ring[old % (w.n + 1)] ELSE Null
      fresh == r.removed + 1 >= w.n
      count == r.count + Len(val) - Len(gone)
      s     == IF gone = Null THEN r.s \o val
               ELSE IF fresh
                    THEN FlattenSeq([j \in 1..w.n |-> ring[(old + j) % (w.n + 1)]])
                    ELSE Without(r.s \o val, count, gone)
  IN [next |-> r.next + 1, ring |-> ring, s |-> s, count |-> count,
      removed |-> IF gone = Null THEN r.removed ELSE IF fresh THEN 0 ELSE r.removed + 1,
      out |-> Append(r.out, IF count >= w.min THEN s ELSE Null)]

(* Of the answers walked, the first lead ones are no row's.                *)
Unled(w, s, answers) ==
  LET d == Lead(w) - s.drop IN
  LastRows(answers, IF d < Len(answers) THEN Len(answers) - d ELSE 0)

(* centred and rollingRows: the rows not yet walked, up to lead past the   *)
(* batch, and nulls past the last of all; short, the walk fails.           *)
Fed(w, s, n, ahead, there) ==
  LET through == n + Lead(w)
      feed    == SubSeq(there, s.fed - s.base + 1, IF through < Len(there) THEN through ELSE Len(there))
      pad     == IF ahead.eof THEN Bigger(0, through - Bigger(s.fed - s.base, Len(there))) ELSE 0
  IN [i \in DOMAIN feed |-> feed[i].val] \o [i \in 1..pad |-> Null]

RolledOn(w, r, vals) ==
  LET x[i \in 0..Len(vals)] == IF i = 0 THEN [r EXCEPT !.out = <<>>] ELSE RollRow(w, x[i - 1], vals[i])
  IN x[Len(vals)]

Walked(w, s, child, ahead) ==
  LET Give(pend, x) ==
        [x EXCEPT !.out = @ \o FirstRows(pend, Len(child)), !.base = @ + Len(child),
                  !.pend = SubSeq(pend, Len(child) + 1, Len(pend))]
      Keep(roll) ==
        Give(s.pend \o Unled(w, s, roll.out),
             [s EXCEPT !.roll = roll, !.fed = @ + Len(roll.out),
                       !.drop = IF @ + Len(roll.out) < Lead(w) THEN @ + Len(roll.out) ELSE Lead(w)])
  IN Keep(RolledOn(w, s.roll, Fed(w, s, Len(child), ahead, child \o ahead.rows)))

(* The rows behind the window are let go.                                  *)
Shed(r) == [r EXCEPT !.rows = LastRows(@, Len(@) - (r.from - 1 - r.pos)), !.pos = r.from - 1]

(* RollingByNext: the window's ends only rise, over the rows held.         *)
TimeRow(w, r, ends) ==
  LET l == Bigger(r.l, r.pos + ends[1])
      h == Bigger(Bigger(r.h, l), r.pos + ends[2])
  IN RollTo(w, [r EXCEPT !.l = l, !.h = h], l, h)

WalkTimes(w, by, rows) ==
  LET r[i \in 0..Len(rows)] ==
        IF i = 0 THEN [by EXCEPT !.rows = @ \o rows, !.out = <<>>]
        ELSE TimeRow(w, r[i - 1], WindowEnds(w, r[0].rows, rows[i].ord[1]))
  IN r[Len(rows)]

ByTimeNext(w, s, child) ==
  LET Timed(i) == {j \in 1..i : child[j].ord # Null}
      Answers(out) == [i \in DOMAIN child |->
                         IF child[i].ord = Null THEN Null ELSE out[Cardinality(Timed(i))]]
      Keep(walked) == [s EXCEPT !.by = Shed(walked), !.out = @ \o Answers(walked.out)]
  IN Keep(WalkTimes(w, s.by, SelectSeq(child, LAMBDA r : r.ord # Null)))

(* answer: one function's column for one batch.                            *)
OneBatch(step, total, s, child, ahead) ==
  CASE step.need.kind = "context" -> InContext(step.w, step.need, s, child, ahead)
    [] step.need.kind = "carry"   -> Carried(step.w, s, child)
    [] step.need.kind = "count"   -> Counted(step.w, total, s, child)
    [] step.need.kind = "walk"    -> Walked(step.w, s, child, ahead)
    [] step.need.kind = "by"      -> ByTimeNext(step.w, s, child)
    [] step.need.kind = "rank"    -> FoldLeft(LAMBDA x, r : RankRow(step.w, x, r.val), s, child)
    [] step.need.kind = "held"    -> FoldLeft(LAMBDA x, r : HeldRow(x, r.val), s, child)

(* walkPass and winStreamOp: the walk over every batch; an empty one is    *)
(* not walked.                                                             *)
WalkAll(step, maxL, batches, total) ==
  LET s[k \in 0..Len(batches)] ==
        IF k = 0 THEN Start(step.w)
        ELSE OneBatch(step, total, s[k - 1], batches[k], Ahead(batches, k, maxL))
  IN s[Len(batches)].out

NotEmpty(batches) == SelectSeq(batches, LAMBDA b : b # <<>>)

Walk(step, maxL, batches) ==
  WalkAll(step, maxL, NotEmpty(batches), Len(FlattenSeq(batches)))

-----------------------------------------------------------------------------

RECURSIVE Cut(_, _)
Cut(rows, n) ==
  IF Len(rows) <= n THEN <<rows>>
  ELSE <<SubSeq(rows, 1, n)>> \o Cut(SubSeq(rows, n + 1, Len(rows)), n)

(* Mutant of LastRun: the run's first row is passed on without the rest.   *)
LastRunSplit(rows) ==
  Len(rows) - Cardinality({i \in DOMAIN rows : rows[i].ord = rows[Len(rows)].ord}) + 1

(* How many rows come before the last run of one time; nulls are one run.  *)
LastRun(rows) ==
  Len(rows) - Cardinality({i \in DOMAIN rows : rows[i].ord = rows[Len(rows)].ord})

(* tieAligned: batches cut between runs of equal times.                    *)
TieAligned(batches) ==
  LET Take(s, all, cut) ==
        IF cut = 0 THEN [s EXCEPT !.carry = all]
        ELSE [out   |-> Append(s.out, SubSeq(all, 1, cut)),
              carry |-> SubSeq(all, cut + 1, Len(all))]
      Next(s, b) == IF b = <<>> THEN s ELSE Take(s, s.carry \o b, LastRun(s.carry \o b))
      All(last) == IF last.carry = <<>> THEN last.out ELSE Append(last.out, last.carry)
  IN All(FoldLeft(Next, [out |-> <<>>, carry |-> <<>>], batches))

Reversed(batches) == Reverse([k \in DOMAIN batches |-> Reverse(batches[k])])

(* InterpolateFrom: from the last value and where it is, the row's place,  *)
(* and the next value and where it is, counted from the end.               *)
InterpolateFrom(w, total, prev, prevAt, own, next, nextBack) ==
  LET q    == own[1] - 1
      last == prevAt[1]
      p    == total - 1 - nextBack[1]
  IN IF prevAt = Null \/ nextBack = Null THEN Null
     ELSE IF last = q THEN prev
     ELSE IF w.how = "nearest" THEN IF q - last < p - q THEN prev ELSE next
     ELSE prev \o next \o <<q - last, p - last>>

(* rankMax: a peer group's last place is its first, counted from the end.  *)
FromEnd(values, rev) == values + 1 - rev

Combine(w, total, values, cols) ==
  CASE w.fn = "interpolate" ->
         InterpolateFrom(w, total, cols[1], cols[2], cols[3], cols[4], cols[5])
    [] w.fn = "rank" /\ w.how \in {"max", "average"} ->
         IF cols[1] = Null THEN Null
         ELSE IF w.how = "max" THEN <<FromEnd(values, cols[1][1])>>
         ELSE <<cols[1][1] + FromEnd(values, cols[2][1])>>
    [] OTHER -> cols[1]

(* passOrder: rank's own, a window by time's by, or the order_by; then the *)
(* position.  With none, the file is walked as it is.                      *)
PassOrder(w, batches, size) ==
  LET Of(rows) ==
        IF w.fn = "rolling_by"
        THEN TieAligned(Cut(ByTime(rows) \o SelectSeq(rows, LAMBDA r : r.ord = Null), size))
        ELSE Cut(InOrder(w, rows), size)
  IN IF w.fn = "rolling_by" \/ Ordered(w) THEN Of(FlattenSeq(batches)) ELSE batches

Turned(step, seq, turned) == IF step.back THEN turned ELSE seq

Column(step, stream) ==
  LET Of(answers) == Turned(step, answers, Reverse(answers))
  IN Of(Walk(step, step.need.l, Turned(step, stream, Reversed(stream))))

(* sortedPass: each row's answer, in the order of the file.                *)
SortedPass(w, steps, rows, stream) ==
  LET Made(sorted, cols, values) ==
        [j \in DOMAIN sorted |->
           Combine(w, Len(sorted), values, [i \in DOMAIN steps |-> cols[i][j]])]
      Back(sorted, made) ==
        [p \in DOMAIN rows |-> made[CHOOSE j \in DOMAIN sorted : sorted[j].id = rows[p].id]]
  IN Back(FlattenSeq(stream),
          Made(FlattenSeq(stream), [i \in DOMAIN steps |-> Column(steps[i], stream)],
               Cardinality(Holding(rows))))

(* finishOneSpill and winStreamOp: a function's answers, row by row of the *)
(* file; maxL is the most rows any function beside it is read ahead for.   *)
OneFile(w, maxL, batches, size) ==
  IF SortedPlan(w) # <<>>
  THEN SortedPass(w, SortedPlan(w), FlattenSeq(batches), PassOrder(w, batches, size))
  ELSE IF w.fn = "agg" THEN Kernel(w, FlattenSeq(batches))
  ELSE Walk([w |-> w, need |-> StreamNeed(w)], maxL, batches)
=============================================================================
