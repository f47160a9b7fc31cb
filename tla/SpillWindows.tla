---------------------------- MODULE SpillWindows ----------------------------
(***************************************************************************)
(* The window functions' sink and its spill (internal/physical/window.go,  *)
(* extwindow.go, winskew.go).                                              *)
(*                                                                         *)
(* The rows are held until the query is over its limit.  Then, whichever   *)
(* serves: one partition is written to a file and streamed; one key is     *)
(* parted from the others and streamed; or the rows go to files by the     *)
(* hash of their key, a sink of their own each, and once more for each     *)
(* further partitioning.  A question q is a record:                        *)
(*   ws     the windows, a sequence: see WindowKernels                     *)
(*   hash   the bucket of a key at each level                              *)
(*   over   the batches, by level and place, after which the account is    *)
(*          over the room it has                                           *)
(*   alone  the query alone is over its limit whenever it is over that     *)
(*   size   the rows of a batch                                            *)
(* A sink answers [refused, rows], a row [row, ans] with an answer for     *)
(* each of its windows.                                                    *)
(***************************************************************************)
EXTENDS WindowStream

CONSTANTS
  Parts,          \* the hash buckets
  MaxSpillDepth   \* the levels past which a partition is not divided

PartOf(by, r) == IF by = "none" THEN by ELSE r[by]

(* The windows of a partitioning, and the partitionings as first met.      *)
Sharing(q, is, by) == {i \in is : q.ws[i].by = by}

Partitionings(q, is) ==
  SetToSortSeq({Sharing(q, is, q.ws[i].by) : i \in is}, LAMBDA a, b : Min(a) < Min(b))

Keyless(q, is) == Sharing(q, is, "none")

ByOf(q, is) == q.ws[Min(is)].by

AnswersTo(is, rows, cols) ==
  [p \in DOMAIN rows |-> [row |-> rows[p], ans |-> [i \in is |-> cols[i][p]]]]

(* One window in memory: each partition's rows in its order, and every     *)
(* answer put where its row is.                                            *)
ColumnInMemory(w, rows) ==
  LET parts   == {PartOf(w.by, r) : r \in ToSet(rows)}
      segment == [k \in parts |-> InOrder(w, SelectSeq(rows, LAMBDA r : PartOf(w.by, r) = k))]
      answers == [k \in parts |-> Kernel(w, segment[k])]
      At(k, r) == answers[k][CHOOSE j \in DOMAIN segment[k] : segment[k][j].id = r.id]
  IN [p \in DOMAIN rows |-> At(PartOf(w.by, rows[p]), rows[p])]

InMemory(q, is, rows) ==
  AnswersTo(is, rows, [i \in is |-> ColumnInMemory(q.ws[i], rows)])

(* finishOneSpill: every function over the one file.                       *)
Streamed(q, is, batches) ==
  LET unsorted == {i \in is : SortedPlan(q.ws[i]) = <<>>}
      maxL == Max({0} \union {StreamNeed(q.ws[i]).l : i \in unsorted})
  IN AnswersTo(is, FlattenSeq(batches),
               [i \in is |-> OneFile(q.ws[i], maxL, batches, q.size)])

(* Whether the sink's one keyed partitioning holds but one partition.      *)
OneHeld(q, is, rows) ==
  /\ Len(Partitionings(q, is)) = 1 /\ Keyless(q, is) = {}
  /\ Cardinality({PartOf(ByOf(q, is), r) : r \in ToSet(rows)}) = 1

AllStream(q, is) == \A i \in is : StreamsAlone(q.ws[i])

(* overBudget: what becomes of a sink that is over its limit.  There is a  *)
(* limit, for a query without one is never over it (budget.go:193).        *)
Turn(q, is, level, rows) ==
  LET refuse == IF q.alone THEN "refused" ELSE "held" IN
  IF Keyless(q, is) = is /\ AllStream(q, is) THEN "one"
  ELSE IF ~AllStream(q, Keyless(q, is)) THEN refuse
  ELSE IF level > 0 /\ OneHeld(q, is, rows) /\ AllStream(q, is) THEN "skew"
  ELSE IF level >= MaxSpillDepth \/ (level > 0 /\ OneHeld(q, is, rows)) THEN refuse
  ELSE "routed"

(* Consume, until the sink turns: how, and after which of the batches.     *)
TurnedAt(q, is, level, batches) ==
  LET HowAt(n) == IF <<level, n>> \in q.over
                  THEN Turn(q, is, level, FlattenSeq(SubSeq(batches, 1, n)))
                  ELSE "held"
  IN FoldLeft(LAMBDA t, n : IF t.how # "held" THEN t ELSE [how |-> HowAt(n), at |-> n],
              [how |-> "held", at |-> 0], [n \in DOMAIN batches |-> n])

(* mergeRuns on the ordinal.                                               *)
Merged(rows) == SortSeq(rows, LAMBDA x, y : x.row.id < y.row.id)

Both(f, g) == [i \in DOMAIN f \union DOMAIN g |-> IF i \in DOMAIN f THEN f[i] ELSE g[i]]

(* A pass's file: each batch's rows of one bucket; a window of no key has  *)
(* every row in one.                                                       *)
FileOf(q, is, level, batches, p) ==
  LET by == ByOf(q, is)
      Bucket(r) == IF by = "none" THEN Min(Parts) ELSE q.hash[level][r[by]]
  IN
  NotEmpty([b \in DOMAIN batches |-> SelectSeq(batches[b], LAMBDA r : Bucket(r) = p)])

(* runPass: the fragments joined back into batches of a batch's rows.      *)
Joined(fragments, size) ==
  LET last == FoldLeft(LAMBDA s, f :
                         LET all == s.held \o f IN
                         IF Len(all) >= size THEN [out |-> Append(s.out, all), held |-> <<>>]
                         ELSE [s EXCEPT !.held = all],
                       [out |-> <<>>, held |-> <<>>], fragments)
  IN IF last.held = <<>> THEN last.out ELSE Append(last.out, last.held)

(* consumeSkew: the batches' rows of the key, or of the others.            *)
OfKey(by, batches, key, mine) ==
  NotEmpty([b \in DOMAIN batches |->
              SelectSeq(batches[b], LAMBDA r : (PartOf(by, r) = key) <=> mine)])

RECURSIVE Answer(_, _, _, _)

(* finishSpilled: a pass for each partitioning, over everything computed   *)
(* so far, cut into batches again by the merge before it.                  *)
Passes(q, is, level, batches) ==
  LET parts == Partitionings(q, is)
      Files(s, ks) == SelectSeq([j \in 1..Cardinality(Parts) |->
                                   FileOf(q, ks, level, s.batches, SetToSortSeq(Parts, <)[j])],
                                LAMBDA f : f # <<>>)
      After(s, subs) ==
        LET pass == Merged(FlattenSeq([f \in DOMAIN subs |-> subs[f].rows])) IN
        [refused |-> s.refused \/ \E f \in DOMAIN subs : subs[f].refused,
         rows    |-> [p \in DOMAIN pass |->
                        IF s.rows = <<>> THEN pass[p]
                        ELSE [pass[p] EXCEPT !.ans = Both(s.rows[p].ans, @)]],
         batches |-> Cut([p \in DOMAIN pass |-> pass[p].row], q.size)]
      Pass(s, ks) ==
        IF s.refused THEN s
        ELSE After(s, LET files == Files(s, ks) IN
                      [f \in DOMAIN files |-> Answer(q, ks, level + 1, Joined(files[f], q.size))])
      last == FoldLeft(Pass, [refused |-> FALSE, rows |-> <<>>, batches |-> batches], parts)
  IN [refused |-> last.refused, rows |-> last.rows]

(* finishOneSpill: one file streamed, of all the rows; or of the rows of   *)
(* the one partition held, beside the answers of those that come after.    *)
OneSpill(q, is, level, turn, batches) ==
  LET by   == ByOf(q, is)
      key  == PartOf(by, batches[1][1])
      rest == IF turn.how = "one" THEN [refused |-> FALSE, rows |-> <<>>]
              ELSE Answer(q, is, level + 1,
                          OfKey(by, SubSeq(batches, turn.at + 1, Len(batches)), key, FALSE))
      mine == IF turn.how = "one" THEN batches ELSE OfKey(by, batches, key, TRUE)
  IN [refused |-> rest.refused, rows |-> Merged(Streamed(q, is, mine) \o rest.rows)]

(* A sink given these batches, in the end.                                 *)
Answer(q, is, level, all) ==
  LET batches == NotEmpty(all)
      turn    == TurnedAt(q, is, level, batches)
  IN CASE turn.how = "held"    -> [refused |-> FALSE,
                                   rows |-> InMemory(q, is, FlattenSeq(batches))]
       [] turn.how = "routed"  -> Passes(q, is, level, batches)
       [] turn.how = "refused" -> [refused |-> TRUE, rows |-> <<>>]
       [] OTHER                -> OneSpill(q, is, level, turn, batches)
=============================================================================
