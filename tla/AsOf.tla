-------------------------------- MODULE AsOf --------------------------------
(***************************************************************************)
(* The as-of join (internal/physical/asof.go, asofstream.go): each left    *)
(* row takes the nearest right row of its by-key, and both sides stream.   *)
(*                                                                         *)
(* The right side is read up to each left key, and on from it as far as a  *)
(* forward match needs.  A by-key's latest row, the rows it has read ahead *)
(* and the matches not yet gathered are places, <<part, row>>, in the      *)
(* right batches held; when those are many the rows still pointed at are   *)
(* gathered into one, and every place is changed.  A row is its key, its   *)
(* by-key and its number; a join without by-keys has one for all.  A join  *)
(* q is a record:                                                          *)
(*   strategy   "backward", "forward" or "nearest"                         *)
(*   exact      a row at the left key may match                            *)
(*   tolerance  how far a match may be, in a sequence of one, or none      *)
(* Keys are integers that are not null, and a tolerance of months is left  *)
(* out.                                                                    *)
(***************************************************************************)
EXTENDS Integers, Sequences, FiniteSets, SequencesExt

CONSTANTS
  NullKey,      \* a by-key that is null
  MaxAsOfParts  \* the right batches held before they are gathered into one

Nowhere == <<0, 0>>

Opened(right) ==
  [todo |-> right, parts |-> <<>>, reading |-> <<>>, pos |-> 1, cur |-> 0,
   seen |-> <<>>, ended |-> FALSE, refused |-> FALSE,
   ids |-> <<>>, latest |-> <<>>, lkey |-> <<>>, fq |-> <<>>, pend |-> <<>>,
   out |-> <<>>]

(* id: a by-key's number, a new one without a latest row.                  *)
Numbered(s, by) ==
  IF by = NullKey \/ by \in ToSet(s.ids) THEN s
  ELSE [s EXCEPT !.ids = Append(@, by), !.latest = Append(@, Nowhere),
                 !.lkey = Append(@, 0), !.fq = Append(@, <<>>)]
IdOf(s, by) == CHOOSE i \in DOMAIN s.ids : s.ids[i] = by

(* Whether one of these rows has a key before that of the row ahead of it. *)
Backwards(seen, rows) ==
  LET keys == seen \o [i \in DOMAIN rows |-> rows[i].key]
  IN \E i \in 2..Len(keys) : keys[i] < keys[i - 1]

-----------------------------------------------------------------------------
(* The right side.                                                         *)

(* The places that point at the parts that are gathered, in the order they *)
(* are, the current part's apart: it is kept as it is.                     *)
Moves(s, ref) == ref # Nowhere /\ ref[1] # s.cur
Pointed(s) ==
  LET queues == FlattenSeq(s.fq) IN
  SelectSeq(s.latest \o s.out \o [i \in DOMAIN queues |-> queues[i].ref],
            LAMBDA ref : Moves(s, ref))

(* compact: each place in turn, as it is once the rows are gathered, next  *)
(* being how many of them there were before.                               *)
Remapped(s, x, ref) ==
  CASE Moves(s, ref) -> [next |-> x.next + 1, refs |-> Append(x.refs, <<1, x.next + 1>>)]
    [] ref = Nowhere -> [x EXCEPT !.refs = Append(@, ref)]
    [] OTHER         -> [x EXCEPT !.refs = Append(@, <<2, ref[2]>>)]
Remap(s, refs, next) ==
  FoldLeft(LAMBDA x, ref : Remapped(s, x, ref), [next |-> next, refs |-> <<>>], refs)

RemapQueue(s, x, queue) ==
  LET done(y) == [next |-> y.next,
                  fq |-> Append(x.fq, [j \in DOMAIN queue |-> [queue[j] EXCEPT !.ref = y.refs[j]]])]
  IN done(Remap(s, [j \in DOMAIN queue |-> queue[j].ref], x.next))

Compacted(s, latest, out) ==
  LET kept == Pointed(s)
      current == IF s.cur = 0 THEN <<>> ELSE <<s.parts[s.cur]>>
  IN [s EXCEPT
        !.parts  = <<[k \in DOMAIN kept |-> @[kept[k][1]][kept[k][2]]]>> \o current,
        !.cur    = Len(current) * 2,
        !.latest = latest.refs,
        !.out    = out.refs,
        !.fq     = FoldLeft(LAMBDA x, queue : RemapQueue(s, x, queue),
                            [next |-> out.next, fq |-> <<>>], @).fq]
Compact(s) ==
  LET rest(latest) == Compacted(s, latest, Remap(s, s.out, latest.next))
  IN rest(Remap(s, s.latest, 0))

(* fillRight: the next batch with rows, checked against the one before.    *)
Filled(s, todo) ==
  LET seen == IF s.reading = <<>> THEN s.seen ELSE <<Last(s.reading).key>>
      took == [s EXCEPT !.todo = Tail(todo), !.parts = Append(@, Head(todo)),
                        !.reading = Head(todo), !.pos = 1, !.cur = Len(s.parts) + 1,
                        !.seen = seen, !.refused = @ \/ Backwards(seen, Head(todo))]
  IN IF todo = <<>> THEN [s EXCEPT !.ended = TRUE, !.reading = <<>>, !.pos = 1, !.seen = seen]
     ELSE FoldLeft(LAMBDA t, r : Numbered(t, r.by), took, Head(todo))

FillRight(s) ==
  Filled(IF Len(s.parts) >= MaxAsOfParts THEN Compact([s EXCEPT !.cur = 0]) ELSE s,
         SelectSeq(s.todo, LAMBDA b : b # <<>>))

Row(s)    == s.reading[s.pos]
Place(s)  == <<s.cur, s.pos>>
Used(s)   == s.pos > Len(s.reading)

(* The row read becomes its by-key's latest, or waits in its queue.        *)
Latest(s, r) ==
  [s EXCEPT !.pos = @ + 1,
            !.latest = IF r.by = NullKey THEN @ ELSE [@ EXCEPT ![IdOf(s, r.by)] = Place(s)],
            !.lkey   = IF r.by = NullKey THEN @ ELSE [@ EXCEPT ![IdOf(s, r.by)] = r.key]]
Enqueue(s, r) ==
  IF r.by = NullKey THEN [s EXCEPT !.pos = @ + 1]
  ELSE [s EXCEPT !.pos = @ + 1, !.pend = Append(@, IdOf(s, r.by)),
                 !.fq[IdOf(s, r.by)] = Append(@, [ref |-> Place(s), key |-> r.key])]

RECURSIVE Advance(_, _, _)
Advance(q, s, k) ==
  IF Used(s) THEN IF s.ended THEN s ELSE Advance(q, FillRight(s), k)
  ELSE IF Row(s).key > k \/ (~q.exact /\ Row(s).key = k) THEN s
  ELSE Advance(q, Latest(s, Row(s)), k)

(* passTo: the queued rows the left key has passed leave their queues, and *)
(* the right side is read through it.                                      *)
RECURSIVE Unqueue(_, _), ReadThrough(_, _)
Unqueue(s, k) ==
  LET passed(id, e) == [s EXCEPT !.latest[id] = e.ref, !.lkey[id] = e.key,
                                 !.fq[id] = Tail(@), !.pend = Tail(@)]
  IN IF s.pend = <<>> THEN s
     ELSE IF Head(s.fq[Head(s.pend)]).key >= k THEN s
     ELSE Unqueue(passed(Head(s.pend), Head(s.fq[Head(s.pend)])), k)
ReadThrough(s, k) ==
  IF Used(s) THEN IF s.ended THEN s ELSE ReadThrough(FillRight(s), k)
  ELSE IF Row(s).key > k THEN s
  ELSE ReadThrough(IF Row(s).key < k /\ s.pend = <<>> THEN Latest(s, Row(s))
                   ELSE Enqueue(s, Row(s)), k)
PassTo(s, k) == ReadThrough(Unqueue(s, k), k)

(* The right side read on to the next row of by-key id, all of it queued.  *)
RECURSIVE ReadOn(_, _), ForwardOf(_, _, _, _)
ReadOn(s, id) ==
  IF Used(s) THEN s
  ELSE IF Row(s).by # NullKey /\ Row(s).by = s.ids[id] THEN Enqueue(s, Row(s))
  ELSE ReadOn(Enqueue(s, Row(s)), id)

(* forwardOf: the first queued row at or after k, and the side as it is    *)
(* once it was found, or once there is none.                               *)
ForwardOf(q, s, id, k) ==
  LET ahead == SelectSeq(s.fq[id], LAMBDA e : e.key > k \/ (q.exact /\ e.key = k))
  IN CASE ahead # <<>> -> [s |-> s, found |-> <<Head(ahead)>>]
       [] ahead = <<>> /\ Used(s) /\ s.ended -> [s |-> s, found |-> <<>>]
       [] ahead = <<>> /\ Used(s) /\ ~s.ended -> ForwardOf(q, FillRight(s), id, k)
       [] OTHER -> ForwardOf(q, ReadOn(s, id), id, k)

(* Mutant of BackOf: a row at k waits in its queue, and is not looked for. *)
BackOfPassed(q, s, id, k) ==
  IF s.latest[id] = Nowhere THEN <<>> ELSE <<[ref |-> s.latest[id], key |-> s.lkey[id]]>>

(* backOf: the last queued row at k, or the latest.                        *)
BackOf(q, s, id, k) ==
  LET at == SelectSeq(s.fq[id], LAMBDA e : e.key = k)
  IN CASE q.exact /\ at # <<>>      -> <<Last(at)>>
       [] s.latest[id] # Nowhere /\ ~(q.exact /\ at # <<>>) ->
            <<[ref |-> s.latest[id], key |-> s.lkey[id]]>>
       [] OTHER -> <<>>

-----------------------------------------------------------------------------
(* The left side.                                                          *)

Apart(a, b)  == IF a < b THEN b - a ELSE a - b
Within(q, a, b) == q.tolerance = <<>> \/ Apart(a, b) <= q.tolerance[1]

(* preferBack, and the choice between what there is.                       *)
Picked(q, k, back, fwd) ==
  IF back # <<>> /\ (fwd = <<>> \/ Apart(k, back[1].key) <= Apart(fwd[1].key, k))
  THEN back ELSE fwd

(* The match of left row l: none, or put out, rsel being its place there.  *)
Matched(q, m, l, s, pick) ==
  IF pick # <<>> /\ Within(q, l.key, pick[1].key)
  THEN [m EXCEPT !.s = [s EXCEPT !.out = Append(@, pick[1].ref)],
                 !.rsel = Append(@, Len(s.out) + 1)]
  ELSE [m EXCEPT !.s = s, !.rsel = Append(@, 0)]

MatchBack(q, m, l, s) ==
  Matched(q, m, l, s,
          IF l.by \notin ToSet(s.ids) THEN <<>>
          ELSE IF s.latest[IdOf(s, l.by)] = Nowhere THEN <<>>
          ELSE <<[ref |-> s.latest[IdOf(s, l.by)], key |-> s.lkey[IdOf(s, l.by)]]>>)

(* The forward candidate is found first: it may read on, and gather.       *)
MatchFound(q, m, l, id, f) ==
  Matched(q, m, l, f.s,
          IF q.strategy = "nearest" THEN Picked(q, l.key, BackOf(q, f.s, id, l.key), f.found)
          ELSE f.found)
MatchAhead(q, m, l, s) ==
  MatchFound(q, m, l, IdOf(s, l.by), ForwardOf(q, s, IdOf(s, l.by), l.key))

MatchRow(q, m, l) ==
  CASE q.strategy = "backward" -> MatchBack(q, m, l, Advance(q, m.s, l.key))
    [] q.strategy # "backward" /\ l.by = NullKey ->
         Matched(q, m, l, PassTo(m.s, l.key), <<>>)
    [] OTHER -> MatchAhead(q, m, l, Numbered(PassTo(m.s, l.key), l.by))

(* match: a left batch, whose matches are gathered at its end.             *)
Gathered(x, in, m) ==
  [s |-> m.s, left |-> <<Last(in).key>>,
   rows |-> x.rows \o [i \in DOMAIN in |->
     [l |-> in[i].id,
      r |-> IF m.rsel[i] = 0 THEN 0
            ELSE LET ref == m.s.out[m.rsel[i]] IN m.s.parts[ref[1]][ref[2]].id]]]
Match(q, x, in) ==
  IF in = <<>> \/ x.s.refused THEN x
  ELSE IF Backwards(x.left, in) THEN [x EXCEPT !.s.refused = TRUE]
  ELSE Gathered(x, in, FoldLeft(LAMBDA m, l : MatchRow(q, m, l),
                                [s |-> [x.s EXCEPT !.out = <<>>], rsel |-> <<>>], in))

(* Next at the left side's end: the right side is read out for its order.  *)
RECURSIVE ReadRest(_)
ReadRest(s) == IF s.ended THEN s ELSE ReadRest(FillRight([s EXCEPT !.pos = Len(s.reading) + 1]))

Ended(x) ==
  LET end(s) == [rows |-> x.rows, refused |-> s.refused]
  IN end(ReadRest([x.s EXCEPT !.fq = [i \in DOMAIN @ |-> <<>>], !.pend = <<>>]))

AsOfJoin(q, left, right) ==
  Ended(FoldLeft(LAMBDA x, in : Match(q, x, in),
                 [s |-> Opened(right), left |-> <<>>, rows |-> <<>>], left))

-----------------------------------------------------------------------------
(* The join by its definition.                                             *)

InOrder(rows) == ~Backwards(<<>>, rows)

Nearest(q, l, right) ==
  LET here     == SelectSeq(right, LAMBDA r : l.by # NullKey /\ r.by = l.by)
      before   == SelectSeq(here, LAMBDA r : r.key < l.key \/ (q.exact /\ r.key = l.key))
      after    == SelectSeq(here, LAMBDA r : r.key > l.key \/ (q.exact /\ r.key = l.key))
      back     == IF before = <<>> \/ q.strategy = "forward" THEN {} ELSE {Last(before)}
      forward  == IF after = <<>> \/ q.strategy = "backward" THEN {} ELSE {Head(after)}
      closest  == {r \in back \union forward :
                     \A x \in back \union forward : Apart(l.key, r.key) <= Apart(l.key, x.key)}
      match    == IF closest \intersect back # {} THEN closest \intersect back ELSE closest
      near     == {r \in match : Within(q, l.key, r.key)}
  IN IF near = {} THEN 0 ELSE (CHOOSE r \in near : TRUE).id

NearestRows(q, left, right) ==
  [i \in DOMAIN left |-> [l |-> left[i].id, r |-> Nearest(q, left[i], right)]]
=============================================================================
