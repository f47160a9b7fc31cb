---------------------------- MODULE ExternalSort ----------------------------
(***************************************************************************)
(* The sort, its runs on disk and their merge (internal/physical/sort.go,  *)
(* extsort.go, internal/kernel/order.go, sort.go, merge.go), and the merge *)
(* of two sorted frames (internal/physical/mergesorted.go).                *)
(*                                                                         *)
(* A row is its key, a number or NullKey, and its place in the input.  A   *)
(* sort q is a record:                                                     *)
(*   descending, nullsLast                                                 *)
(*   limit   the rows asked for, 0 for all of them                         *)
(*   over    the batches after which the query is over its budget          *)
(*   large   those of them after which it still is, once only limit rows   *)
(*           are kept                                                      *)
(***************************************************************************)
EXTENDS Integers, Sequences, FiniteSets, SequencesExt

CONSTANTS
  NullKey,     \* the key of a row whose key is null
  SortFanIn    \* how many runs of one level are merged into one of the next

(* The comparator: a null's place does not turn with the direction.        *)
Before(q, a, b) ==
  CASE a = NullKey /\ b = NullKey -> FALSE
    [] a = NullKey /\ b # NullKey -> ~q.nullsLast
    [] a # NullKey /\ b = NullKey -> q.nullsLast
    [] OTHER -> IF q.descending THEN b < a ELSE a < b

(* ArgSort, stable: the rows' places in order, ties by the place.          *)
Sorted(q, rows) ==
  LET Sooner(i, j) == \/ Before(q, rows[i].key, rows[j].key)
                      \/ ~Before(q, rows[j].key, rows[i].key) /\ i < j
  IN [k \in DOMAIN rows |->
        rows[CHOOSE i \in DOMAIN rows :
               Cardinality({j \in DOMAIN rows : Sooner(j, i)}) = k - 1]]

Limited(q, rows) == IF q.limit = 0 \/ Len(rows) <= q.limit THEN rows
                    ELSE SubSeq(rows, 1, q.limit)

(* Mutant of Least: a tie is given to the later run.                       *)
LeastLast(q, runs) ==
  CHOOSE i \in DOMAIN runs : /\ runs[i] # <<>>
    /\ \A j \in DOMAIN runs \ {i} : runs[j] # <<>> =>
         ~Before(q, runs[j][1].key, runs[i][1].key)
         /\ (j > i => Before(q, runs[i][1].key, runs[j][1].key))

(* Merger.Pop: of the runs that have a row, the least head's, and of equal *)
(* heads the first run's.                                                  *)
Least(q, runs) ==
  CHOOSE i \in DOMAIN runs : /\ runs[i] # <<>>
    /\ \A j \in DOMAIN runs \ {i} : runs[j] # <<>> =>
         ~Before(q, runs[j][1].key, runs[i][1].key)
         /\ (j < i => Before(q, runs[i][1].key, runs[j][1].key))

Pop(q, s) ==
  LET i == Least(q, s.runs) IN
  IF \A j \in DOMAIN s.runs : s.runs[j] = <<>> THEN s
  ELSE [runs |-> [s.runs EXCEPT ![i] = Tail(@)], out |-> Append(s.out, s.runs[i][1])]

MergeRuns(q, runs) ==
  LET popped[k \in 0..Len(FlattenSeq(runs))] ==
        IF k = 0 THEN [runs |-> runs, out |-> <<>>] ELSE Pop(q, popped[k - 1])
  IN popped[Len(FlattenSeq(runs))].out

(* The last SortFanIn runs, if they are all of one level, are merged into  *)
(* one of the next, in their place.                                        *)
Carry(q, runs) ==
  LET k    == Len(runs) - SortFanIn
      last == SubSeq(runs, k + 1, Len(runs))
  IN IF k < 0 \/ \E i \in DOMAIN last : last[i].level # last[SortFanIn].level
     THEN runs
     ELSE Append(SubSeq(runs, 1, k),
            [level |-> last[1].level + 1,
             rows  |-> MergeRuns(q, [i \in DOMAIN last |-> last[i].rows])])

(* cascade: as often as there are such runs; each time leaves fewer.       *)
Cascade(q, runs) ==
  LET carried[k \in 0..Len(runs)] == IF k = 0 THEN runs ELSE Carry(q, carried[k - 1])
  IN carried[Len(runs)]

(* Consume: over the budget, a bounded sort first keeps its best rows      *)
(* (compact), and what is still too much is sorted and written as a run.   *)
SinkRows(q, s, in) ==
  LET held == s.held \o in
      kept == IF q.limit > 0 THEN Limited(q, Sorted(q, held)) ELSE held
      t    == [s EXCEPT !.batch = @ + 1]
  IN CASE in = <<>>                            -> s
       [] in # <<>> /\ s.batch \notin q.over   -> [t EXCEPT !.held = held]
       [] in # <<>> /\ s.batch \in q.over /\ q.limit > 0 /\ s.batch \notin q.large
                                               -> [t EXCEPT !.held = kept]
       [] OTHER -> [t EXCEPT !.held = <<>>,
            !.runs = Cascade(q, Append(@, [level |-> 0, rows |-> Sorted(q, kept)]))]

Sunk(q, batches) ==
  LET s[k \in 0..Len(batches)] ==
        IF k = 0 THEN [batch |-> 1, held |-> <<>>, runs |-> <<>>]
        ELSE SinkRows(q, s[k - 1], batches[k])
  IN s[Len(batches)]

(* Finish: the runs in input order and the rows in memory last.            *)
SortAnswer(q, batches) ==
  LET s    == Sunk(q, batches)
      tail == Limited(q, Sorted(q, s.held))
      runs == [i \in DOMAIN s.runs |-> s.runs[i].rows]
  IN IF runs = <<>> THEN tail ELSE Limited(q, MergeRuns(q, Append(runs, tail)))

-----------------------------------------------------------------------------
(* mergeSortedOp: nulls first, ascending.  A side holds a batch and what   *)
(* is to come after it; last is the last key of the batch before, in a     *)
(* sequence of one, or none.                                               *)
Ascending == [descending |-> FALSE, nullsLast |-> FALSE]

SideOf(batches) == [todo |-> batches, cur |-> <<>>, pos |-> 1, last |-> <<>>, unsorted |-> FALSE]

AtEnd(sd) == sd.pos > Len(sd.cur)

(* Mutant of Backwards: a batch is looked at by itself.                    *)
BackwardsWithin(sd, in) ==
  \E i \in 2..Len(in) : Before(Ascending, in[i].key, in[i - 1].key)

(* keysOf: a row goes backwards within a batch, or from the one before.    *)
Backwards(sd, in) ==
  LET keys == sd.last \o [i \in DOMAIN in |-> in[i].key] IN
  \E i \in 2..Len(keys) : Before(Ascending, keys[i], keys[i - 1])

FillOnce(sd) ==
  LET kept == [sd EXCEPT !.last = IF sd.cur = <<>> THEN @ ELSE <<sd.cur[Len(sd.cur)].key>>]
      in   == Head(sd.todo)
  IN IF ~AtEnd(sd) \/ sd.unsorted \/ sd.todo = <<>> THEN sd
     ELSE [kept EXCEPT !.todo = Tail(@), !.cur = in, !.pos = 1,
                       !.unsorted = Backwards(kept, in)]

(* fill: batch after batch, until there is a row to read or none to come.  *)
Fill(sd) ==
  LET filled[k \in 0..Len(sd.todo)] == IF k = 0 THEN sd ELSE FillOnce(filled[k - 1])
  IN filled[Len(sd.todo)]

Stepped(sd) == [sd EXCEPT !.pos = @ + 1]

(* Next, row by row: both sides have a row to read or are done.            *)
NextRow(s) ==
  LET left  == Fill(s.left)
      right == Fill(s.right)
      takeLeft == AtEnd(right) \/ (~AtEnd(left)
                    /\ ~Before(Ascending, right.cur[right.pos].key, left.cur[left.pos].key))
  IN CASE left.unsorted \/ right.unsorted \/ (AtEnd(left) /\ AtEnd(right)) ->
            [s EXCEPT !.left = left, !.right = right]
       [] ~(left.unsorted \/ right.unsorted \/ (AtEnd(left) /\ AtEnd(right))) /\ takeLeft ->
            [left |-> Stepped(left), right |-> right, rows |-> Append(s.rows, left.cur[left.pos])]
       [] OTHER ->
            [left |-> left, right |-> Stepped(right), rows |-> Append(s.rows, right.cur[right.pos])]

MergedBy(n, left, right) ==
  LET merged[k \in 0..n] ==
        IF k = 0 THEN [left |-> SideOf(left), right |-> SideOf(right), rows |-> <<>>]
        ELSE NextRow(merged[k - 1])
  IN merged[n]

MergeSorted(left, right) ==
  LET s == MergedBy(Len(FlattenSeq(left)) + Len(FlattenSeq(right)) + 1, left, right)
  IN [rows |-> s.rows, refused |-> s.left.unsorted \/ s.right.unsorted]
=============================================================================
