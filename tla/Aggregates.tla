----------------------------- MODULE Aggregates -----------------------------
(***************************************************************************)
(* An aggregate of a whole input: batches taken by one sink, whose values  *)
(* spill to sorted runs when there is no room for them, or by several that *)
(* each take some and are then folded into one, or into parts by the hash  *)
(* of the key (internal/physical/agg.go, aggconsume.go, aggmerge.go,       *)
(* valuespill.go; the finishing of spilled values in internal/kernel).  A  *)
(* row is [key, val, by, pass]; a q is                                     *)
(*   [k, keyless, workers, owner, over, hash, room]                        *)
(* the aggregate and its parameters; whether there are no keys; the sinks, *)
(* and the one each batch goes to; the batches after which values spill;   *)
(* the part of each key; and whether there is room to hold it all twice.   *)
(* What is told of a group is a value in brackets, and of a refusal none.  *)
(* Which groups' rows are routed to files is SpillKeys's matter.           *)
(***************************************************************************)
EXTENDS Accumulators

CONSTANTS
  SpillChunk,          \* spillChunk, the rows written to a run at once
  SortedRun,           \* minSortedRun, the pairs a sorting spill holds
  RunFanIn,            \* runFanIn
  PartitionedFoldMin   \* partitionedFoldMin, the groups worth parting

-----------------------------------------------------------------------------
(* The runs of one aggregate's spilled values, by how many merges made     *)
(* them.  As many as the fan-in of one level become one of the next.       *)

RECURSIVE MergeRuns(_)
MergeRuns(runs) ==
  LET open == {i \in DOMAIN runs : runs[i] # <<>>}
      Before(x, y) == x.g < y.g \/ (x.g = y.g /\ KeyLess(x.key, y.key))
      Next(i) == \A j \in open : /\ ~Before(runs[j][1], runs[i][1])
                                 /\ j < i => Before(runs[i][1], runs[j][1])
      i == CHOOSE x \in open : Next(x)
  IN IF open = {} THEN <<>>
     ELSE <<runs[i][1]>> \o MergeRuns([runs EXCEPT ![i] = Tail(@)])

RECURSIVE AddRun(_, _, _)
AddRun(levels, l, run) ==
  LET grown == IF Len(levels) < l THEN Append(levels, <<run>>)
                                  ELSE [levels EXCEPT ![l] = Append(@, run)]
  IN IF Len(grown[l]) < RunFanIn THEN grown
     ELSE AddRun([grown EXCEPT ![l] = <<>>], l + 1, MergeRuns(grown[l]))

EndRun(levels, run) == IF run = <<>> THEN levels ELSE AddRun(levels, 1, run)

Ordered(levels) == MergeRuns(FlattenSeq(levels))

-----------------------------------------------------------------------------
(* What an accumulator's values are as a run: of a group, by value.        *)
Spills(k) == k.fn \in {"n_unique", "quantile", "spearman", "mode"}

EntryLess(x, y) == x.g < y.g \/ (x.g = y.g /\ KeyLess(x.key, y.key))
InRun(entries) == SortSeq(entries, EntryLess)

RunOf(k, a) ==
  CASE k.fn = "n_unique" -> InRun(SetToSeq({[g |-> p[1], key |-> p[2]] : p \in a.tab}))
    [] k.fn = "quantile" ->
         FlattenSeq([g \in Slots |->
           LET v == InTotal(a[g])
           IN [i \in DOMAIN v |-> [g |-> g, key |-> OrderKey(v[i]), val |-> v[i]]]])
    [] k.fn = "spearman" ->
         FlattenSeq([g \in Slots |->
           InRun([i \in DOMAIN a[g] |-> [g |-> g, key |-> OrderKey(a[g][i][2]), x |-> a[g][i][1]]])])
    [] OTHER ->
         FlattenSeq([g \in Slots |->
           LET counts == Counted(a, g)
           IN InRun([i \in DOMAIN counts |->
                [g |-> g, key |-> counts[i].key, rows |-> counts[i].rows,
                 first |-> a.seen + counts[i].first, val |-> counts[i].val]])])

LetGo(k, a) ==
  CASE k.fn = "n_unique" -> [a EXCEPT !.tab = {}]
    [] k.fn = "mode"     -> [nums |-> <<>>, rows |-> <<>>, seen |-> a.seen + Len(a.rows)]
    [] OTHER             -> Fresh(k)

(* A sink's values are spilled: they are a run, counted for each group.    *)
Spill(k, s) ==
  [s EXCEPT !.spilled = TRUE, !.levels = EndRun(@, RunOf(k, s.acc)), !.acc = LetGo(k, @),
            !.cnt = [g \in Slots |-> @[g] + IF k.fn \in {"quantile", "spearman"}
                                            THEN Len(s.acc[g]) ELSE 0]]

-----------------------------------------------------------------------------
(* What is told of the entries of a spill, in order.                       *)

CountsSpilled(entries) ==
  FoldLeft(LAMBDA c, e :
             [c EXCEPT !.out = IF e.g # c.g \/ e.key # c.key THEN [@ EXCEPT ![e.g] = @ + 1] ELSE @,
                       !.g = e.g, !.key = e.key],
           [g |-> 0, key |-> 0, out |-> Each(0)], entries).out

(* The values met at the two ranks of their group.                         *)
Quantiles(k, cnt, entries) ==
  LET At(c, e) ==
        LET at == IF e.g = c.g THEN c.at + 1 ELSE 0
            r  == Ranks(k, cnt[e.g])
            lo == IF at = r.lo THEN e.val ELSE c.lo
            hi == IF at = r.hi THEN e.val ELSE c.hi
        IN [g |-> e.g, at |-> at, lo |-> lo, hi |-> hi,
            out |-> [c.out EXCEPT ![e.g] = IF at < r.hi THEN @ ELSE Interpolate(k, r.frac)[lo, hi]]]
  IN FoldLeft(At, [g |-> 0, at |-> 0, lo |-> 0, hi |-> 0, out |-> Each(NullKey)], entries).out

(* The ranks of the ys: a short tie's xs are kept until it ends, a long    *)
(* one's are given the tie's number, for its rank to be looked up.         *)
RankY(cnt, entries) ==
  LET Close(p) ==
        LET t == p.pos - p.lo
            r == 2 * p.lo + t + 1
            d == r - (cnt[p.g] + 1)
            q == [p EXCEPT !.syy[p.g] = @ + t * d * d]
        IN IF p.g = 0 \/ t = 0 THEN p
           ELSE IF p.long > 0 THEN [q EXCEPT !.side[p.long] = r, !.long = 0]
           ELSE [q EXCEPT !.put = @ \o [i \in DOMAIN p.buf |-> [g |-> p.g, x |-> p.buf[i], r |-> r]],
                          !.buf = <<>>]
      Tied(p, e) ==
        IF e.g = p.g /\ e.key = p.key THEN p
        ELSE LET c == Close(p)
                 at == IF e.g = p.g THEN c.pos ELSE 0
             IN [c EXCEPT !.g = e.g, !.key = e.key, !.pos = at, !.lo = at]
      Long(p) ==
        LET n == Len(p.side) + 1
        IN [p EXCEPT !.long = n, !.side = Append(@, 0), !.buf = <<>>,
                     !.put = @ \o [i \in DOMAIN p.buf |-> [g |-> p.g, x |-> p.buf[i], r |-> -n]]]
      Step(p0, e) ==
        LET p == [Tied(p0, e) EXCEPT !.pos = @ + 1]
            l == IF p.long > 0 THEN p ELSE Long(p)
        IN IF p.long = 0 /\ Len(p.buf) < SpillChunk THEN [p EXCEPT !.buf = Append(@, e.x)]
           ELSE [l EXCEPT !.put = Append(@, [g |-> e.g, x |-> e.x, r |-> -l.long])]
  IN Close(FoldLeft(Step, [g |-> 0, key |-> 0, pos |-> 0, lo |-> 0, buf |-> <<>>, long |-> 0,
                           side |-> <<>>, put |-> <<>>, syy |-> Each(0)], entries))

(* The xs and their ranks are put a chunk at a time in a second spill,     *)
(* which sorts them itself, a run once it holds enough.                    *)
ByX(put) ==
  LET chunks == [c \in 1..((Len(put) + SpillChunk - 1) \div SpillChunk) |->
                   SelectSeq([i \in DOMAIN put |-> i], LAMBDA i : (i - 1) \div SpillChunk = c - 1)]
      Pair(i) == [g |-> put[i].g, key |-> OrderKey(put[i].x), r |-> put[i].r]
      Put(h, c) ==
        LET held == h.held \o [i \in DOMAIN chunks[c] |-> Pair(chunks[c][i])]
        IN IF Len(held) < SortedRun THEN [h EXCEPT !.held = held]
           ELSE [held |-> <<>>, levels |-> EndRun(h.levels, InRun(held))]
      all == FoldLeft(Put, [held |-> <<>>, levels |-> <<>>], [c \in DOMAIN chunks |-> c])
  IN Ordered(EndRun(all.levels, InRun(all.held)))

Correlations(cnt, entries) ==
  LET ys == RankY(cnt, entries)
      Close(p) ==
        LET d == 2 * p.lo + p.t + 1 - (cnt[p.g] + 1)
        IN IF p.t = 0 THEN p
           ELSE [p EXCEPT !.sxy = @ + d * p.sdy, !.sxx = @ + p.t * d * d, !.t = 0, !.sdy = 0]
      CloseGroup(p) ==
        LET c == Close(p)
        IN IF p.g = 0 THEN p
           ELSE [c EXCEPT !.sxy = 0, !.sxx = 0,
                          !.out[p.g] = IF cnt[p.g] >= 2 THEN Correlation(c.sxy, c.sxx, ys.syy[p.g]) ELSE @]
      Step(p, e) ==
        LET ry == IF e.r < 0 THEN ys.side[-e.r] ELSE e.r
            c  == IF e.g # p.g THEN [CloseGroup(p) EXCEPT !.g = e.g, !.pos = 0, !.lo = 0, !.key = e.key]
                  ELSE IF e.key # p.key THEN [Close(p) EXCEPT !.lo = p.pos, !.key = e.key]
                  ELSE p
        IN [c EXCEPT !.pos = @ + 1, !.t = @ + 1, !.sdy = @ + (ry - (cnt[e.g] + 1))]
  IN CloseGroup(FoldLeft(Step, [g |-> 0, key |-> 0, pos |-> 0, lo |-> 0, t |-> 0, sdy |-> 0,
                                sxy |-> 0, sxx |-> 0, out |-> Each(NaN)], ByX(ys.put))).out

(* Two passes over the entries of a mode: one finds how often the most     *)
(* frequent values are met, and where first; the other takes them there.   *)
MostMet(entries) ==
  LET Close(p) ==
        IF p.g = 0 \/ p.run < p.best THEN p
        ELSE IF p.run > p.best
        THEN [p EXCEPT !.best = p.run, !.found = Append(SubSeq(@, 1, p.mark), <<p.g, p.at>>)]
        ELSE [p EXCEPT !.found = Append(@, <<p.g, p.at>>)]
      Step(p, e) ==
        LET c == Close(p)
            m == IF e.g = p.g THEN c ELSE [c EXCEPT !.g = e.g, !.mark = Len(c.found), !.best = 0]
        IN IF e.g = p.g /\ e.key = p.key
           THEN [p EXCEPT !.run = @ + e.rows, !.at = IF e.first < @ THEN e.first ELSE @]
           ELSE [m EXCEPT !.key = e.key, !.run = e.rows, !.at = e.first]
  IN Close(FoldLeft(Step, [g |-> 0, key |-> 0, run |-> 0, at |-> 0, best |-> 0, mark |-> 0,
                           found |-> <<>>], entries)).found

SpilledModes(k, entries) ==
  LET found == MostMet(entries)
      Take(t, e) == IF t.next <= Len(found) /\ found[t.next] = <<e.g, e.first>>
                    THEN [next |-> t.next + 1, taken |-> Append(t.taken, e)] ELSE t
      all == FoldLeft(Take, [next |-> 1, taken |-> <<>>], entries)
  IN IF all.next # Len(found) + 1 THEN Each(<<>>)
     ELSE [g \in Slots |-> <<Listed(k, SelectSeq(all.taken, LAMBDA e : e.g = g))>>]

(* The answers of the groups of a sink whose values spilled: what it still *)
(* held is a last run.                                                     *)
Ended(k, s) == IF s.spilled THEN Spill(k, s) ELSE s

FinishSpilled(k, s, n) ==
  LET entries == Ordered(s.levels)
      Told1(f) == [g \in 1..n |-> <<f[g]>>]
  IN CASE k.fn = "n_unique" -> Told1(CountsSpilled(entries))
       [] k.fn = "quantile" -> Told1(Quantiles(k, s.cnt, entries))
       [] k.fn = "spearman" -> Told1(Correlations(s.cnt, entries))
       [] OTHER -> SubSeq(SpilledModes(k, entries), 1, n)

-----------------------------------------------------------------------------
(* A sink: the keys in the order of their groups, the accumulator, and the *)
(* runs of what it spilled.                                                *)
NewSink(k) ==
  [rows |-> <<>>, keys |-> <<>>, acc |-> Fresh(k), levels |-> <<>>, cnt |-> Each(0), spilled |-> FALSE]

KeyOf(q, row) == IF q.keyless THEN NullKey ELSE row.key
Inserted(keys, more) == FoldLeft(LAMBDA ks, x : IF x \in ToSet(ks) THEN ks ELSE Append(ks, x), keys, more)
GroupOf(keys, key) == CHOOSE g \in DOMAIN keys : keys[g] = key

(* A row the aggregate's own filter does not pass makes its group, and is  *)
(* not given to it.                                                        *)
AggInput(q, keys, batch) ==
  LET passing == SelectSeq(batch, LAMBDA r : r.pass)
  IN [i \in DOMAIN passing |-> [g |-> GroupOf(keys, KeyOf(q, passing[i])),
                                val |-> passing[i].val, by |-> passing[i].by]]

(* A batch is keyed, and then aggregated; and what is held may be spilled. *)
Keyed(q, s, batch) ==
  LET keys == Inserted(s.keys, [i \in DOMAIN batch |-> KeyOf(q, batch[i])])
  IN [s EXCEPT !.keys = keys, !.rows = AggInput(q, keys, batch)]

Consume(q, s) ==
  [s EXCEPT !.rows = <<>>,
            !.acc = IF q.keyless /\ TakesWhole(q.k) THEN AddAll(q.k, @, s.rows)
                                                    ELSE AddBatch(q.k, @, s.rows)]

Sunk(q, w, batches) ==
  LET mine == SelectSeq([b \in DOMAIN batches |-> b], LAMBDA b : q.owner[b] = w /\ batches[b] # <<>>)
      Of(b) == <<<<"key", b>>, <<"consume", b>>, <<"spill", b>>>>
      steps == FlattenSeq([i \in DOMAIN mine |-> Of(mine[i])]) \o <<<<"end", 0>>>>
      Step(s, x) == CASE x[1] = "key"     -> Keyed(q, s, batches[x[2]])
                      [] x[1] = "consume" -> Consume(q, s)
                      [] x[1] = "spill"   -> IF x[2] \in q.over /\ Spills(q.k) THEN Spill(q.k, s) ELSE s
                      [] x[1] = "end"     -> Ended(q.k, s)
  IN FoldLeft(Step, NewSink(q.k), steps)

(* The groups of a sink, or of some of its keys, merged into another's.    *)
MergeShare(q, s, o, share) ==
  LET keys == Inserted(s.keys, SelectSeq(o.keys, LAMBDA x : x \in share))
      remap == [g \in {x \in DOMAIN o.keys : o.keys[x] \in share} |-> GroupOf(keys, o.keys[g])]
  IN [s EXCEPT !.keys = keys, !.acc = Merge(q.k, @, o.acc, remap)]

MergeSinks(q, s, o) == MergeShare(q, s, o, ToSet(o.keys))

(* Without keys there is one group, of no rows too.                        *)
Result(q, s) ==
  LET keys == IF q.keyless THEN <<NullKey>> ELSE s.keys
  IN [keys |-> keys,
      told |-> IF s.spilled THEN FinishSpilled(q.k, s, Len(keys)) ELSE Finish(q.k, s.acc, Len(keys))]

OfPart(q, p) == {key \in DOMAIN q.hash : q.hash[key] = p}

FoldPartitioned(q, sinks) ==
  [p \in DOMAIN sinks |->
     FoldLeft(LAMBDA s, o : MergeShare(q, s, o, OfPart(q, p)), NewSink(q.k), sinks)]

(* The phases of an aggregate: each sink takes its batches, the sinks are  *)
(* folded into one or into parts, and those tell their groups' answers.    *)
Sinks(q, batches) == [w \in 1..q.workers |-> Sunk(q, w, batches)]

Folded(q, sinks) ==
  LET total == Total([w \in DOMAIN sinks |-> Len(sinks[w].keys)])
  IN IF Len(sinks) > 1 /\ ~q.keyless /\ total >= PartitionedFoldMin /\ q.room
     THEN FoldPartitioned(q, sinks)
     ELSE <<FoldLeft(LAMBDA s, o : MergeSinks(q, s, o), sinks[1], Tail(sinks))>>

Results(q, parts) == [p \in DOMAIN parts |-> Result(q, parts[p])]

Aggregate(results) ==
  FlattenSeq([p \in DOMAIN results |->
    LET r == results[p] IN [g \in DOMAIN r.keys |-> [key |-> r.keys[g], told |-> r.told[g]]]])

-----------------------------------------------------------------------------
(* What an aggregate of rows is, for each kind, of all of a group's rows   *)
(* in the order of the input; <<>> where it has none to give.              *)
Ordinary(rows) == LET there == SelectSeq(rows, LAMBDA r : r.val # NullKey)
                  IN [i \in DOMAIN there |-> there[i].val]

BestAt(v, Wins(_, _)) ==
  CHOOSE i \in DOMAIN v : /\ \A j \in DOMAIN v : ~Wins(v[j], v[i])
                          /\ \A j \in 1..(i - 1) : Wins(v[i], v[j])

Extreme(k, v) ==
  LET Wins(x, y) == IF k.fn = "max" THEN OrderKey(x) > OrderKey(y) ELSE OrderKey(x) < OrderKey(y)
  IN IF k.fn = "nan_min" /\ NaN \in ToSet(v) THEN NaN ELSE v[BestAt(v, Wins)]

(* The sum of the products of powers of the deviations of pairs, exactly.  *)
Deviations(xs, ys, a, b) ==
  LET n == Len(xs)
      sx == Total(xs)
      sy == Total(ys)
      Power(d, e) == IF e = 0 THEN 1 ELSE d^e
      term(i) == Ratio[Power(n * xs[i] - sx, a) * Power(n * ys[i] - sy, b), n^(a + b)]
  IN FoldLeft(LAMBDA t, i : Plus[t, term(i)], Zero, [i \in 1..n |-> i])

DoubledRank(v, i) ==
  1 + 2 * Cardinality({j \in DOMAIN v : OrderKey(v[j]) < OrderKey(v[i])})
    + Cardinality({j \in DOMAIN v : OrderKey(v[j]) = OrderKey(v[i])})

OfPairs(k, xs, ys) ==
  LET n == Len(xs)
      Both(a, b) == Total([i \in 1..n |-> (DoubledRank(a, i) - n - 1) * (DoubledRank(b, i) - n - 1)])
      m2x == Deviations(xs, ys, 2, 0)
      m2y == Deviations(xs, ys, 0, 2)
  IN CASE k.fn = "cov"  -> IF n <= k.n THEN NullKey ELSE Over[Deviations(xs, ys, 1, 1), n - k.n]
       [] k.fn = "corr" -> IF n = 0 \/ Zero \in {m2x, m2y} THEN NaN
                           ELSE <<Deviations(xs, ys, 1, 1), m2x, m2y>>
       [] OTHER -> IF n < 2 THEN NaN ELSE Correlation(Both(xs, ys), Both(xs, xs), Both(ys, ys))

OfTotal(k, v) ==
  LET t == Total(v) IN
  IF v = <<>> THEN <<NullKey>>
  ELSE IF k.fn = "mean" THEN <<IF k.temporal THEN Toward0(t, Len(v)) ELSE Ratio[t, Len(v)]>>
  ELSE IF (k.wide \/ k.temporal) /\ t \notin -HalfWord..(HalfWord - 1) THEN <<>> ELSE <<t>>

OddBits(v) ==
  LET Ones(b) == Cardinality({i \in DOMAIN v : (v[i] \div b) % 2 = 1})
  IN (Ones(1) % 2) + 2 * (Ones(2) % 2)

Often(rows, i) == Cardinality({j \in DOMAIN rows : ValueKey(rows[j].val) = ValueKey(rows[i].val)})

OfMode(k, rows) ==
  LET first == {i \in DOMAIN rows : /\ \A j \in DOMAIN rows : Often(rows, j) <= Often(rows, i)
                                    /\ \A j \in 1..(i - 1) : ValueKey(rows[j].val) # ValueKey(rows[i].val)}
      Earlier(i, j) == IF k.maintain THEN i < j ELSE KeyLess(ValueKey(rows[i].val), ValueKey(rows[j].val))
      order == SetToSortSeq(first, Earlier)
  IN [n \in DOMAIN order |-> rows[order[n]].val]

SortedRows(k, rows) ==
  \A i, j \in DOMAIN rows : i < j =>
    LET x == rows[i].val
        y == rows[j].val
    IN IF x = NullKey \/ y = NullKey THEN x = y \/ (IF x = NullKey THEN ~k.nullsLast ELSE k.nullsLast)
       ELSE InOrder(k, x, y)

BestK(k, rows) ==
  LET s == SortSeq(rows, LAMBDA x, y : Ahead(k, x, y))
  IN [i \in {n \in DOMAIN s : n <= k.n} |-> s[i].val]

Shape(k, v) ==
  LET M(e) == Deviations(v, v, e, 0)
  IN IF v = <<>> \/ (~k.bias /\ Len(v) < (IF k.fn = "skew" THEN 3 ELSE 4)) THEN NullKey
     ELSE <<Len(v), M(2), M(3), IF k.fn = "skew" THEN 0 ELSE M(4)>>

(* The place of the row whose value or by is best, the first of those.     *)
BestRow(k, rows) ==
  LET Of(i) == IF k.fn \in Args THEN rows[i].val ELSE rows[i].by
      there == {i \in DOMAIN rows : Of(i) # NullKey}
      best  == {i \in there : \A j \in there : ~Beats(k, Of(j), Of(i))}
  IN IF best = {} THEN 0 ELSE CHOOSE i \in best : \A j \in best : i <= j

Defined(k, rows) ==
  LET v  == Ordinary(rows)
      at == Ranks(k, Len(v))
      s  == InTotal(v)
      ps == SelectSeq(rows, LAMBDA r : NullKey \notin {r.val, r.by})
      n  == BestRow(k, rows)
  IN CASE k.fn = "len" -> <<Len(rows)>>
       [] k.fn = "count" -> <<Len(v)>>
       [] k.fn = "null_count" -> <<Len(rows) - Len(v)>>
       [] k.fn \in Totals -> OfTotal(k, v)
       [] k.fn \in {"min", "max", "nan_min"} -> <<IF v = <<>> THEN NullKey ELSE Extreme(k, v)>>
       [] k.fn = "bit_xor" -> <<IF v = <<>> THEN NullKey ELSE OddBits(v)>>
       [] k.fn = "product" -> <<IF v = <<>> THEN NullKey ELSE FoldLeft(LAMBDA x, y : x * y, 1, v)>>
       [] k.fn = "var" -> <<IF Len(v) <= k.n THEN NullKey ELSE Over[Deviations(v, v, 1, 1), Len(v) - k.n]>>
       [] k.fn \in Shapes -> <<Shape(k, v)>>
       [] k.fn \in Pairs -> <<OfPairs(k, [i \in DOMAIN ps |-> ps[i].val], [i \in DOMAIN ps |-> ps[i].by])>>
       [] k.fn = "is_sorted" -> <<SortedRows(k, rows)>>
       [] k.fn \in {"top_k", "bottom_k"} ->
            <<IF v = <<>> THEN NullKey ELSE BestK(k, SelectSeq(rows, LAMBDA r : r.val # NullKey))>>
       [] k.fn \in {"top_k_by", "bottom_k_by"} -> <<BestK(k, rows)>>
       [] k.fn = "quantile" ->
            <<IF v = <<>> THEN NullKey ELSE Interpolate(k, at.frac)[s[at.lo + 1], s[at.hi + 1]]>>
       [] k.fn = "n_unique" -> <<Cardinality(ToSet(v))>>
       [] k.fn = "implode" -> <<[i \in DOMAIN rows |-> rows[i].val]>>
       [] k.fn = "mode" -> <<OfMode(k, rows)>>
       [] k.fn \in {"first", "last"} -> <<IF rows = <<>> THEN NullKey
                                         ELSE rows[IF k.fn = "last" THEN Len(rows) ELSE 1].val>>
       [] k.fn = "item" -> IF Len(rows) = 1 THEN <<rows[1].val>>
                           ELSE IF rows = <<>> /\ k.allowEmpty THEN <<NullKey>> ELSE <<>>
       [] k.fn \in Args -> <<IF n = 0 THEN NullKey ELSE n - 1>>
       [] k.fn \in Bys  -> <<IF n = 0 THEN NullKey ELSE rows[n].val>>
=============================================================================
