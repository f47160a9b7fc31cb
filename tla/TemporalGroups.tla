--------------------------- MODULE TemporalGroups ---------------------------
(***************************************************************************)
(* The dynamic and the rolling group-by (internal/physical/tempgroup.go,   *)
(* tempstream.go, tempsegment.go).                                         *)
(*                                                                         *)
(* A sorted index makes a window a run of a bucket's rows.  A row makes    *)
(* its windows and is given to the open ones as it arrives; pairs of a row *)
(* and a window are queued, and fed to the windows' aggregates a chunk at  *)
(* a time.  Windows are numbered as they are made, in segments of a chunk, *)
(* and a segment is handed out once it is full and the last row has passed *)
(* all of it.  A row is its index, an integer, its key and its number, and *)
(* the aggregate of a window its rows in the order they were fed.  A       *)
(* grouping q is a record:                                                 *)
(*   rolling, keyed, rowOrder   which group-by it is                       *)
(*   every, period              lengths; a rolling one has no every        *)
(*   offset                     in a sequence of one, or none              *)
(*   lowerOpen, upperClosed     Closed                                     *)
(*   label                      "left", "right" or "datapoint"             *)
(*   datapoint                  StartBy the first row, and not the grid    *)
(*   spilled                    the sort after the group spilled           *)
(* Calendar intervals and a time zone's are left out, and so are a null    *)
(* index, which is refused, and what an aggregate's values do when they    *)
(* are many.                                                               *)
(***************************************************************************)
EXTENDS Integers, Sequences, FiniteSets, SequencesExt

CONSTANTS
  Chunk,         \* the windows of a segment, and the pairs fed at once
  MaxTempParts,  \* the batches held before the rows kept are gathered
  MaxWindows     \* the windows a grid may have in all

Below(q, w, t)  == IF q.lowerOpen THEN t <= w.lo ELSE t < w.lo
Passed(q, w, t) == IF q.upperClosed THEN t > w.hi ELSE t >= w.hi
Holds(q, w, t)  == ~Below(q, w, t) /\ ~Passed(q, w, t)

Segment(base) == [base |-> base, n |-> 0, hi |-> 0, accs |-> <<>>]

Started ==
  [parts |-> <<>>, bkts |-> <<>>, wBase |-> 0, wins |-> <<>>, segs |-> <<Segment(0)>>,
   pairs |-> <<>>, ready |-> <<>>, grid |-> 0, sorted |-> TRUE, tooLarge |-> FALSE,
   last |-> <<>>]

-----------------------------------------------------------------------------
(* Windows and segments.                                                   *)

(* openSeg, for the next window made, whose upper end is hi.               *)
OpenSeg(s, w, hi) ==
  LET g == Last(s.segs)
      taken == [g EXCEPT !.n = @ + 1, !.accs = Append(@, <<>>),
                         !.hi = IF g.n = 0 \/ hi > @ THEN hi ELSE @]
  IN IF w - g.base < Chunk THEN [s EXCEPT !.segs[Len(s.segs)] = taken]
     ELSE [s EXCEPT !.segs = Append(@, [base |-> w, n |-> 1, hi |-> hi, accs |-> <<<<>>>>])]

(* newWindow of bucket b, reported to start and end so.                    *)
NextWindow(s) == s.wBase + Len(s.wins)
NewWindow(q, s, b, w, start, end) ==
  [OpenSeg(s, w.id, w.hi) EXCEPT
     !.wins = Append(@, [bkt |-> b, fed |-> FALSE,
                         label |-> IF q.label = "right" THEN end ELSE start])]

(* addPair: a datapoint label is the index of the window's first row.      *)
AddPair(q, s, ref, t, w) ==
  LET at == w - s.wBase + 1 IN
  [s EXCEPT !.pairs = Append(@, [ref |-> ref, w |-> w]),
            !.wins[at].fed = TRUE,
            !.wins[at].label = IF q.label = "datapoint" /\ ~s.wins[at].fed THEN t ELSE @]

(* The first of the open windows that are not past, and on from it.        *)
FromWhere(seq, at) == IF at = 0 THEN <<>> ELSE SubSeq(seq, at, Len(seq))
UpTo(seq, at)      == IF at = 0 THEN seq ELSE SubSeq(seq, 1, at - 1)

(* place: a row to the open windows that hold it.                          *)
Given(q, s, ref, t, wins) ==
  FoldLeft(LAMBDA x, w : IF Holds(q, w, t) THEN AddPair(q, x, ref, t, w.id) ELSE x, s, wins)
Placed(q, s, b, ref, t, open) ==
  Given(q, [s EXCEPT !.bkts[b].active = open], ref, t,
        UpTo(open, SelectInSeq(open, LAMBDA w : Below(q, w, t))))
Place(q, s, b, ref, t) ==
  LET active == s.bkts[b].active IN
  Placed(q, s, b, ref, t,
         FromWhere(active, SelectInSeq(active, LAMBDA w : ~Passed(q, w, t))))

(* handOut: the segments that are full, and passed; at the end, all.       *)
Out(s, g) ==
  [i \in 1..g.n |-> [bkt |-> s.wins[i].bkt, win |-> g.base + i - 1,
                     label |-> s.wins[i].label, rows |-> g.accs[i]]]

(* Whether no row to come is in a window of the first segment, g.  Sorted  *)
(* within each bucket only, no window is known to be past.                 *)
Complete(q, s, g) ==
  /\ ~(q.rowOrder /\ q.keyed)
  /\ Len(s.segs) > 1 \/ g.n = Chunk
  /\ g.n > 0 => Passed(q, g, s.last[1])

RECURSIVE HandOut(_, _, _)
HandOut(q, s, final) ==
  LET g == Head(s.segs)
      gone == [s EXCEPT !.ready = @ \o Out(s, g), !.wBase = @ + g.n,
                        !.wins = SubSeq(@, g.n + 1, Len(@))]
      rest == IF Len(s.segs) = 1 /\ ~final THEN <<Segment(g.base + g.n)>> ELSE Tail(s.segs)
  IN IF s.segs = <<>> THEN s
     ELSE IF g.n = 0 \/ ~(final \/ Complete(q, s, g)) THEN s
     ELSE IF Len(s.segs) = 1 THEN [gone EXCEPT !.segs = rest]
     ELSE HandOut(q, [gone EXCEPT !.segs = rest], final)

(* feed: each pair's row to its window, in the segment that has it.        *)
FedPair(s, p) ==
  LET j == (p.w - s.segs[1].base) \div Chunk + 1
      row == s.parts[p.ref[1]][p.ref[2]]
  IN [s EXCEPT !.segs[j].accs[p.w - s.segs[j].base + 1] = Append(@, row.id)]
Feed(q, s) ==
  IF s.pairs = <<>> THEN s
  ELSE HandOut(q, FoldLeft(LAMBDA x, p : FedPair(x, p), [s EXCEPT !.pairs = <<>>], s.pairs), FALSE)

-----------------------------------------------------------------------------
(* Rows.                                                                   *)

(* firstGrid: the grid's point at or before t, and one before that when a  *)
(* row on it would be in no window.                                        *)
RECURSIVE StepBack(_, _, _)
StepBack(every, start, t) == IF start > t THEN StepBack(every, start - every, t) ELSE start
FirstGrid(q, t) ==
  LET offset == IF q.offset = <<>> THEN 0 ELSE q.offset[1]
      start  == IF q.datapoint THEN t ELSE t - (t % q.every) + offset
  IN StepBack(q.every, start, t) - (IF q.lowerOpen THEN q.every ELSE 0)

(* gridRow: the windows from the bucket's next point to t, unless the grid *)
(* would have too many.                                                    *)
RECURSIVE MakeGrid(_, _, _, _)
MakeGrid(q, s, b, t) ==
  LET lo == s.bkts[b].next[1]
      w  == [id |-> NextWindow(s), lo |-> lo, hi |-> lo + q.period]
      made == [NewWindow(q, s, b, w, w.lo, w.hi) EXCEPT
                 !.grid = @ + 1, !.bkts[b].active = Append(@, w), !.bkts[b].next = <<lo + q.every>>]
  IN IF lo > t THEN s ELSE MakeGrid(q, made, b, t)

Points(q, s, b, t) == IF s.bkts[b].next[1] > t THEN 0 ELSE (t - s.bkts[b].next[1]) \div q.every + 1
Gridded(q, s, b, ref, t) ==
  IF s.grid + Points(q, s, b, t) > MaxWindows THEN [s EXCEPT !.tooLarge = TRUE]
  ELSE Place(q, MakeGrid(q, s, b, t), b, ref, t)
GridRow(q, s, b, ref, t) ==
  Gridded(q, IF s.bkts[b].next = <<>> THEN [s EXCEPT !.bkts[b].next = <<FirstGrid(q, t)>>] ELSE s,
          b, ref, t)

(* rollRow: the row's own window, of the bucket's rows it reaches back to, *)
(* of itself, and of the rows to come.                                     *)
OwnWindow(q, s, t) ==
  LET offset == IF q.offset = <<>> THEN -q.period ELSE q.offset[1]
      behind == q.offset = <<>> \/ offset = -q.period
  IN [id |-> NextWindow(s), lo |-> t + offset, hi |-> IF behind THEN t ELSE t + offset + q.period]

Reached(q, s, b, w, ref, t) ==
  LET pair(x, r) == IF Holds(q, w, r.t) THEN AddPair(q, x, r.ref, r.t, w.id) ELSE x
      kept == Append(s.bkts[b].recent, [ref |-> ref, t |-> t])
  IN [FoldLeft(pair, NewWindow(q, s, b, w, t, w.hi), kept) EXCEPT
        !.bkts[b].active = IF Passed(q, w, t) THEN @ ELSE Append(@, w),
        !.bkts[b].recent = kept]

(* Mutant of RollRow: the rows at a window's lower end are let go with     *)
(* those below it, closed or open.                                         *)
RollRowPast(q, s, b, ref, t) ==
  LET recent == s.bkts[b].recent
      in(w)  == [s EXCEPT !.bkts[b].recent =
                   FromWhere(recent, SelectInSeq(recent, LAMBDA r : r.t > w.lo))]
      placed(w) == Reached(q, Place(q, in(w), b, ref, t), b, w, ref, t)
  IN placed(OwnWindow(q, s, t))

RollRow(q, s, b, ref, t) ==
  LET recent == s.bkts[b].recent
      in(w)  == [s EXCEPT !.bkts[b].recent =
                   FromWhere(recent, SelectInSeq(recent, LAMBDA r : r.t >= w.lo))]
      placed(w) == Reached(q, Place(q, in(w), b, ref, t), b, w, ref, t)
  IN placed(OwnWindow(q, s, t))

(* bucketOf, a new one as its key first appears.                           *)
Bucketed(q, s, r) ==
  IF \E b \in DOMAIN s.bkts : ~q.keyed \/ s.bkts[b].key = r.key THEN s
  ELSE [s EXCEPT !.bkts = Append(@, [key |-> r.key, next |-> <<>>, active |-> <<>>,
                                     recent |-> <<>>, last |-> <<>>])]
BucketOf(q, s, r) == CHOOSE b \in DOMAIN s.bkts : ~q.keyed \/ s.bkts[b].key = r.key

(* Whether the index went backwards: of its bucket, for an expression's    *)
(* rolling over a partition, and else of all.                              *)
PerBucket(q) == q.rowOrder /\ q.keyed
Backwards(q, s, b, t) ==
  LET last == IF PerBucket(q) THEN s.bkts[b].last ELSE s.last
  IN last # <<>> /\ t < last[1]

Read(q, s, b, ref, t) ==
  LET max(old) == IF PerBucket(q) /\ old # <<>> /\ old[1] > t THEN old ELSE <<t>>
      next == [s EXCEPT !.bkts[b].last = <<t>>, !.last = max(@)]
      fed(x) == IF Len(x.pairs) >= Chunk THEN Feed(q, x) ELSE x
  IN IF Backwards(q, s, b, t) THEN [s EXCEPT !.sorted = FALSE]
     ELSE fed(IF q.rolling THEN RollRow(q, next, b, ref, t) ELSE GridRow(q, next, b, ref, t))

ConsumeRow(q, s, ref, r) ==
  LET into(x) == Read(q, x, BucketOf(q, x, r), ref, r.t)
  IN IF ~s.sorted \/ s.tooLarge THEN s ELSE into(Bucketed(q, s, r))

(* letGo: the rows kept, of all buckets, gathered into one batch.          *)
Kept(s) == FlattenSeq([b \in DOMAIN s.bkts |-> s.bkts[b].recent])
Gathered(s) ==
  LET refs == Kept(s)
      moved(x, r) == [next |-> x.next + 1, recent |-> Append(x.recent, [r EXCEPT !.ref = <<1, x.next>>])]
      bucket(x, b) == LET y == FoldLeft(moved, [next |-> x.next, recent |-> <<>>], b.recent)
                      IN [next |-> y.next, bkts |-> Append(x.bkts, [b EXCEPT !.recent = y.recent])]
  IN [s EXCEPT !.parts = IF refs = <<>> THEN <<>>
                         ELSE <<[i \in DOMAIN refs |-> @[refs[i].ref[1]][refs[i].ref[2]]]>>,
               !.bkts  = FoldLeft(bucket, [next |-> 1, bkts |-> <<>>], @).bkts]
LetGo(q, s) ==
  IF ~q.rolling THEN [s EXCEPT !.parts = <<>>]
  ELSE IF Len(s.parts) < 2 \/ (Len(s.parts) < MaxTempParts /\ Len(Kept(s)) > Chunk \div 8) THEN s
  ELSE Gathered(s)

Consume(q, s, in) ==
  LET part == Len(s.parts) + 1
      row(x, i) == ConsumeRow(q, x, <<part, i>>, in[i])
  IN IF in = <<>> \/ ~s.sorted \/ s.tooLarge THEN s
     ELSE LetGo(q, Feed(q, FoldLeft(row, [s EXCEPT !.parts = Append(@, in)],
                                    [i \in DOMAIN in |-> i])))

(* bucketOrderSink: a bucket at a time, by a sort if it spilled, and else  *)
(* by a count of each bucket's windows; or in the windows' own order.      *)
Ordered(q, wins) ==
  LET before(v, w) == IF v.bkt = w.bkt \/ q.rowOrder THEN v.win < w.win ELSE v.bkt < w.bkt
  IN CASE ~q.keyed   -> wins
       [] q.keyed /\ q.spilled -> SortSeq(wins, before)
       [] q.keyed /\ ~q.spilled /\ q.rowOrder -> wins
       [] OTHER -> FlattenSeq([b \in 1..Len(wins) |-> SelectSeq(wins, LAMBDA w : w.bkt = b)])

Windows(q, batches) ==
  LET end(s) == IF ~s.sorted \/ s.tooLarge THEN [windows |-> <<>>, refused |-> TRUE]
                ELSE [windows |-> Ordered(q, HandOut(q, Feed(q, s), TRUE).ready), refused |-> FALSE]
  IN end(FoldLeft(LAMBDA s, in : Consume(q, s, in), Started, batches))

-----------------------------------------------------------------------------
(* The windows by their definition, of the whole input.                    *)

KeysIn(q, rows) ==
  FoldLeft(LAMBDA ks, r : IF ~q.keyed \/ r.key \in ToSet(ks) THEN ks ELSE Append(ks, r.key),
           IF q.keyed \/ rows = <<>> THEN <<>> ELSE <<rows[1].key>>, rows)
RowsIn(q, rows, key) == SelectSeq(rows, LAMBDA r : ~q.keyed \/ r.key = key)

InOrder(q, rows) ==
  \A i, j \in DOMAIN rows :
    i < j /\ (PerBucket(q) => rows[i].key = rows[j].key) => rows[i].t <= rows[j].t

Within(q, rows, lo, hi) ==
  SelectSeq(rows, LAMBDA r : /\ IF q.lowerOpen THEN r.t > lo ELSE r.t >= lo
                             /\ IF q.upperClosed THEN r.t <= hi ELSE r.t < hi)
Reported(q, rows, lo, hi, start) ==
  LET in == Within(q, rows, lo, hi)
  IN [rows |-> [i \in DOMAIN in |-> in[i].id],
      label |-> CASE q.label = "right" -> hi
                  [] q.label = "datapoint" /\ in # <<>> -> in[1].t
                  [] OTHER -> start]

(* A grid starts at its point of the first row, moved by the offset, or at *)
(* the last point before that row if that is past it.                      *)
GridOf(q, rows) ==
  LET first   == rows[1].t
      aligned == first - (first % q.every) + (IF q.offset = <<>> THEN 0 ELSE q.offset[1])
      start   == CASE q.datapoint -> first
                   [] ~q.datapoint /\ aligned <= first -> aligned
                   [] OTHER -> CHOOSE p \in (first - q.every + 1)..first : (p - aligned) % q.every = 0
      lowest  == start - (IF q.lowerOpen THEN q.every ELSE 0)
  IN [k \in 1..((rows[Len(rows)].t - lowest) \div q.every + 1) |-> lowest + (k - 1) * q.every]

WindowsIn(q, rows) ==
  LET reach(t) == t + (IF q.offset = <<>> THEN -q.period ELSE q.offset[1])
  IN IF q.rolling
     THEN [i \in DOMAIN rows |-> Reported(q, rows, reach(rows[i].t), reach(rows[i].t) + q.period, rows[i].t)]
     ELSE [k \in DOMAIN GridOf(q, rows) |->
             Reported(q, rows, GridOf(q, rows)[k], GridOf(q, rows)[k] + q.period, GridOf(q, rows)[k])]

AllWindows(q, rows) ==
  LET keys == KeysIn(q, rows)
      place(i) == Cardinality({j \in 1..i : rows[j].key = rows[i].key})
  IN IF PerBucket(q)
     THEN [i \in DOMAIN rows |-> WindowsIn(q, RowsIn(q, rows, rows[i].key))[place(i)]]
     ELSE FlattenSeq([k \in DOMAIN keys |-> WindowsIn(q, RowsIn(q, rows, keys[k]))])
=============================================================================
