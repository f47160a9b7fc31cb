------------------------------ MODULE Answers ------------------------------
(***************************************************************************)
(* What the operators that spill answer, whenever they are made to, beside *)
(* what they are asked for; and what a CSV read in parallel blocks gives,  *)
(* beside one read in one piece.  A question is what one operator is given *)
(* under one course of the memory budget: which batches leave the query    *)
(* over it is chosen freely, as another operator or another query may be   *)
(* what fills it.  The group-by and the unique are in SpillKeys, and the   *)
(* operators that put rows in order in SpillOrder.                         *)
(***************************************************************************)
EXTENDS SpillOrder

CONSTANTS
  MaxSpillLevels,  \* maxSpillLevels
  Joins,           \* the joins asked: [q, build, probe]
  Sep, Quote, Newline, Return, Comment, BadValue,   \* the characters of a CSV
  Csvs,            \* the CSV streams: [q]
  MaxAsOfParts,    \* maxAsOfParts
  AsOfs,           \* the as-of joins: [q, left, right]
  Chunk,           \* the windows of a segment, and the pairs fed at once
  MaxTempParts,    \* the batches held before the rows kept are gathered
  MaxWindows,      \* the windows a grid may have in all
  Temporals,       \* the temporal group-bys: [q, batches]
  MaxWindowDepth,  \* maxSpillDepth, again: a level more for the windows
  WindowAsks,      \* the window functions: [q, batches]
  NaN, NegZero,    \* the floats that are not a number, and -0
  Slots,           \* the groups an accumulator has room for
  HalfWord,        \* a word holds -HalfWord..HalfWord-1
  NarrowFold,      \* narrowFold
  MaxDead,         \* the rows no group points at that are kept
  SpillChunk,      \* spillChunk
  SortedRun,       \* minSortedRun
  RunFanIn,        \* runFanIn
  PartitionedFoldMin,   \* partitionedFoldMin
  Aggregations     \* the aggregates: [q, batches]

J == INSTANCE SpillJoin
C == INSTANCE CsvBlocks
A == INSTANCE AsOf
T == INSTANCE TemporalGroups
W == INSTANCE SpillWindows WITH MaxSpillDepth <- MaxWindowDepth
K == INSTANCE Aggregates

Operators == {"groups", "unique", "join", "sort", "merge", "tail", "reverse", "csv",
              "asof", "temporal", "window", "aggregate"}

Init == op \in Operators /\ question = NoAnswer /\ answer = NoAnswer

AnswerJoin ==
  /\ Asks("join")
  /\ \E x \in Joins : question' = x /\ answer' = J!Join(x.q, 0, x.build, x.probe)

AnswerCsv ==
  /\ Asks("csv")
  /\ \E x \in Csvs : question' = x /\ answer' = C!Parallel(x.q)

AnswerAsOf ==
  /\ Asks("asof")
  /\ \E x \in AsOfs : question' = x /\ answer' = A!AsOfJoin(x.q, x.left, x.right)

AnswerTemporal ==
  /\ Asks("temporal")
  /\ \E x \in Temporals : question' = x /\ answer' = T!Windows(x.q, x.batches)

AnswerWindow ==
  /\ Asks("window")
  /\ \E x \in WindowAsks : question' = x /\ answer' = W!Answer(x.q, DOMAIN x.q.ws, 0, x.batches)

AnswerAggregate ==
  /\ Asks("aggregate")
  /\ \E x \in Aggregations :
       \E sinks \in {K!Sinks(x.q, x.batches)} :
         \E parts \in {K!Folded(x.q, sinks)} :
           \E results \in {K!Results(x.q, parts)} :
             question' = x /\ answer' = K!Aggregate(results)

Next == \/ KeysNext
        \/ OrderNext
        \/ AnswerJoin \/ AnswerCsv
        \/ AnswerAsOf \/ AnswerTemporal \/ AnswerWindow
        \/ AnswerAggregate

Spec == Init /\ [][Next]_vars

-----------------------------------------------------------------------------

(* A join that is not refused gives exactly the rows of the join, each     *)
(* once, however often and wherever its build side spilled, and says a     *)
(* side Validate wants unique is not exactly when it is not; and put back  *)
(* in order it is in the probe's order, the build rows with no partner     *)
(* last (extjoin.go, joinprobe.go, joinemit.go, joinorder.go).             *)
JoinIsExact ==
  LET q     == question.q
      build == FlattenSeq(question.build)
      dup   == \/ q.rightUnique /\ J!Duplicated(q, build)
               \/ q.leftUnique /\ J!Duplicated(q, question.probe)
      spilled == \E p \in J!Buckets : J!Build(q, 0, question.build).files[p] # <<>>
      Exact(out) == /\ ToSet(out) = J!JoinRows(q, build, question.probe)
                    /\ Len(out) = Len(answer.out)
                    /\ Cardinality(ToSet(out)) = Len(out)
                    /\ J!InProbeOrder(out)
  IN Answered("join") /\ ~answer.refused =>
       /\ answer.duplicate <=> dup
       /\ dup \/ Exact(IF spilled
                       THEN J!OrderedProbe(answer.out, Len(question.probe), Len(build))
                       ELSE answer.out)

(* A CSV stream cut into blocks gives the rows, and fails, as read in one  *)
(* piece: it gives no row that reading does not, and all of them if that   *)
(* does not fail; and it fails if and only if that does.  Read whole, it   *)
(* fails of the same thing, and at the same row and line unless a record   *)
(* may pass the limit (csv/split.go, parallel.go).                         *)
CsvAsSerial ==
  LET As(serial) ==
        /\ IsPrefix(answer.rows, serial.rows)
        /\ answer.error = <<>> <=> serial.error = <<>>
        /\ serial.error = <<>> => answer.rows = serial.rows
        /\ serial.error # <<>> /\ ~question.q.fault =>
             /\ answer.error[1].what = serial.error[1].what
             /\ Len(question.q.stream) < question.q.maxRec => answer.error = serial.error
  IN Answered("csv") => As(C!Serial(question.q))

(* An as-of join gives each left row the right row its strategy asks for,  *)
(* of its own group, though it keeps of the right no more than it may      *)
(* still need; and it is refused exactly if a side goes backwards          *)
(* (asof.go, asofstream.go).                                               *)
AsOfIsExact ==
  Answered("asof") =>
    LET left  == FlattenSeq(question.left)
        right == FlattenSeq(question.right)
    IN IF A!InOrder(left) /\ A!InOrder(right)
       THEN ~answer.refused /\ answer.rows = A!NearestRows(question.q, left, right)
       ELSE answer.refused

(* A temporal group-by gives the windows of the whole input, each of the   *)
(* rows in it, in order, though it lets a row go once no window to come    *)
(* can hold it, and reads a spilled group back a few groups and a few rows *)
(* at a time; and it is refused exactly if a group goes backwards or       *)
(* windows are too many (tempgroup.go, tempstream.go, tempsegment.go).     *)
TemporalIsExact ==
  Answered("temporal") =>
    LET rows  == FlattenSeq(question.batches)
        q     == question.q
        Of(windows) == [i \in DOMAIN windows |->
                          [label |-> windows[i].label, rows |-> windows[i].rows]]
    IN IF T!InOrder(q, rows) /\ (q.rolling \/ Len(T!AllWindows(q, rows)) <= MaxWindows)
       THEN ~answer.refused /\ Of(answer.windows) = T!AllWindows(q, rows)
       ELSE answer.refused

(* Window functions answer over partitions that are streamed, parted from  *)
(* the others or routed to files as over the whole input in memory, each   *)
(* answer beside its row and the rows in the order of the input: a walk    *)
(* keeps enough of the rows before and reads enough of those after, and a  *)
(* float's window is added to, removed from and made afresh at the same    *)
(* rows, wherever the batches are cut.  They are refused only if the query *)
(* alone is over its limit, and a function needs all of a partition, or    *)
(* two keys are never parted, or are first met a level deeper, when a      *)
(* third has been parted from them (window.go, extwindow.go, winskew.go,   *)
(* winstream.go, winsorted.go).                                            *)
WindowsAreExact ==
  Answered("window") =>
    LET q    == question.q
        rows == FlattenSeq(question.batches)
        whole == {i \in DOMAIN q.ws : ~W!StreamsAlone(q.ws[i])}
        keys  == UNION {{r.key, r.also} : r \in ToSet(rows)}
        Together(l, ks) == Cardinality({q.hash[l][k] : k \in ks}) = 1
        Unparted(ks) == \A l \in 0..(MaxWindowDepth - 1) : Together(l, ks)
    IN IF answer.refused
       THEN q.alone /\ (whole # {} \/ \E ks \in SUBSET keys :
                                         \/ Cardinality(ks) = 2 /\ Unparted(ks)
                                         \/ Cardinality(ks) = 3 /\ Together(0, ks))
       ELSE answer.rows = W!InMemory(q, DOMAIN q.ws, rows)

(* An aggregate gives each key one answer, that of all of its rows that    *)
(* pass in the order of the input, however its values were spilled and     *)
(* merged, its batches shared among sinks and the sinks folded: a sum or a *)
(* mean that wraps on the way is still that of all, and is refused exactly *)
(* when all of it does not fit; moments are joined to be those of all; of  *)
(* rows alike, the earlier one stays; and one sink's groups come in the    *)
(* order they are first met (agg.go, aggmerge.go, valuespill.go; kernel's  *)
(* agg*.go, topk.go, keyspill.go, pairspill.go, quantspill.go).            *)
AggregatesAreExact ==
  Answered("aggregate") =>
    LET q    == question.q
        rows == FlattenSeq(question.batches)
        keys == IF q.keyless THEN {NullKey} ELSE {r.key : r \in ToSet(rows)}
        Of(key) == SelectSeq(rows, LAMBDA r : r.pass /\ (q.keyless \/ r.key = key))
        First(key) == CHOOSE i \in DOMAIN rows : /\ rows[i].key = key
                                                 /\ \A j \in 1..(i - 1) : rows[j].key # key
    IN /\ Len(answer) = Cardinality(keys)
       /\ ToSet(answer) = {[key |-> key, told |-> K!Defined(q.k, Of(key))] : key \in keys}
       /\ q.workers = 1 /\ ~q.keyless =>
            \A i, j \in DOMAIN answer : i < j => First(answer[i].key) < First(answer[j].key)

=============================================================================
