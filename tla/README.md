# Verification of ursus

ursus (module `github.com/advenn/ursus`) is a dataframe library in Go: lazy queries are
planned, optimised and run as a tree of pull operators, on several threads and under a
memory limit past which they spill to disk. This directory holds TLA+ models of three
things in it: the parts where several goroutines, or several queries, meet; the operators
that spill or stream, beside what they promise; and the optimizer's rules, beside what a
plan answers. TLC checks them on small instances, and for all of the first kind, and the two
operators that spill by key, TLAPS proves what they promise for every value of the constants.

    tlc -workers 2 -config ParallelOp_order.cfg MCParallelOp     # model-check
    tlapm ParallelOpProofs.tla                                   # prove

`PROJECT.json` lists the components, the runs, a mutant of the code for each property of
each run, the lines each definition models, the hazards and the theorems.

## The system

### Inventory

| Component | State | Operations | Meets | Hard about it |
|---|---|---|---|---|
| Ordered parallel pipeline, `internal/physical/parallel.go` | lanes of jobs and results, the turn | `Next`, `launch`, `apply`, `Close` | its source below (`Pull`), `exec`'s loop above | order without sequence numbers; cancellation, Goexit and a full lane |
| Parallel pipeline breaker, `parallelsink.go`, `aggconsume.go`, `aggmerge.go` | lanes, a sink a worker, `failed`, `serial` | `drain`, `Consume`, `Merge`, `Finish` | its child, the ledger through its sinks | a worker that stops, that fails, that asks for serial |
| Parallel join probe, `parjoin.go` | lanes with terminators | `Next`, `runJob`, `Close` | the frozen join table | many answers a job |
| Shared subplans, `cache.go` | batches or a file, the sites | `run`, `release` | every site of a common subplan | whose run, whose error, who closes |
| Memory ledger, `internal/execopt/budget.go` | an entry an allocation, two totals, a peak | `Retain`, `RetainBytes`, `Release`, `Over` | every operator that holds rows; the pool | allocations shared by operators and by the result |
| Engine memory pool, `internal/execopt/pool.go` | a sum, a count, a peak, each query's share | `Join`, `Leave`, `tell`, `Pressure`, `room` | ledgers of the engine's queries; Parquet scans | atomics with no lock in common |
| Engine threads, `engine.go`, `lazy.go` | one count | `share`, `hold`, `release` | queries as they are planned and end | two accesses a share |
| Source's first read, `internal/source/once.go` | the answer, the run in progress | `Do` | queries that share a source | one query's cancellation and another's answer |
| Parquet row-group reader, `internal/source/parquet/parallel.go` | row groups in flight, the gate, the files' users | `Next`, `decode`, `Close` | the scan above; files | the gate against the order; `Close` from another goroutine |
| CSV reader, `internal/source/csv/{scanner,split,parallel}.go` | blocks in flight, the splitter's mode | `Next`, `cut`, `resume` | a file | a block cut through a quoted field |
| External sort and merge, `sort.go`, `extsort.go`, `mergesorted.go` | rows, runs | `Consume`, `spillRun`, `Finish`, merge | spill files, the ledger | stability over levels of runs |
| Spilling group-by, `agg.go`, `aggconsume.go`, `extagg.go` | resident groups, partitions | `Consume`, `route`, descent | spill files, the ledger | which keys are resident, the order of what is routed |
| Aggregates, `kernel/agg*.go`, `*spill.go`, `topk*.go`, `valuespill.go`, `aggmerge.go` | a state a group, rows kept, runs | `AddBatch`, `Merge`, `Finish`, the spills of values | the group-by's sinks, spill files | sinks folded in any shape, places kept into what is gathered, sums that wrap |
| Distinct, `ops2.go`, `extdistinct.go` | keys held, partitions | `Next`, freeze, merge | spill files, the ledger | what was given out before the freeze |
| Hash join and its spill, `join*.go`, `extjoin.go` | a table, partitions | build, probe, descent | spill files, the ledger | rows matched over partitions, the order put back |
| Windows, `window.go`, `extwindow.go`, `win*.go`, `kernel/window.go`, `rolling*.go` | rows, partitions, a stream's state | `Consume`, `Finish`, passes | the external sort | a walk that holds only a few rows at a time |
| As-of join, `asof.go`, `asofstream.go` | places in the right batches held | `Next`, gather | two sorted inputs | places kept into what is gathered |
| Temporal group-bys, `tempgroup.go`, `tempstream.go`, `tempsegment.go` | open windows, segments, rows kept | `Consume`, `Finish` | a sorted input | which row no window to come can hold |
| Tail and reverse, `tail.go`, `reverse.go` | pieces | `Consume`, `Finish` | spill files | what a run holds of what is asked |
| Plan and optimizer, `internal/plan` | none | the rules | the public API | a rewrite that changes the answer, or fails where the plan did not |
| Spill files, `internal/spill/spill.go` | a file | `Write`, `Close`, `Next` | all that spills | a file cut short |
| NDJSON, other sources, writers, Parquet's pages | a position | `Next`, `Write` | files | values |
| Expressions, kernels, columns, types, Arrow | none | functions of values | operators | values, not control |

Operators call each other by `Pull`, from the result down to the scans; an operator that
runs goroutines owns them and its `Close` ends them. What they share besides is the context
(cancelled by the caller at any moment), the query's ledger, and, through it, the engine's
pool and threads. A panic in a goroutine is turned into an error by `uerr`'s guards, and a
`runtime.Goexit` by `goexitGuard`. Whether a sink spills is decided by the ledger, after a
batch, from what the whole query and, through the pool, every query of the engine holds: to a
sink it may come after any batch.

### What makes each correct

- Pipeline and probe: the serial operator's answers in the input's order; an end only of an
  input that ended; every goroutine ends.
- Breaker: an answer is of every batch once; a failure is told; a given input comes out in
  one order; it ends.
- Shared subplan: every site is given all of it, in order, or its failure; what it holds goes
  with the last site, and not before.
- Ledger: an allocation is counted once, for as long as one account holds it, as much as any
  holds of it, in the operators' total or the result's.
- Pool: its sum, count and peak are the queries'; it is not past its limit with no one over.
- Threads: the count is exact and the shares fit the engine's threads.
- Once: one run at a time, one answer, one's own cancellation, every call returns.
- Row groups: the serial reader's batches; bounded read-ahead that never blocks the order;
  files closed once and not under a worker; `Next` and `Close` return.
- CSV: the serial reader's records, and its error, wherever the blocks were cut.
- What spills or streams: the answer of the operator's definition, whenever it is made to
  spill, and a refusal only where no partitioning serves.
- Optimizer: after each rule the plan answers the same rows in the same order, fails only
  where it failed, and gives the same schema.

## The modules

| Module | Models | Notes |
|---|---|---|
| `OrderedStream` | what a parallel operator promises | abstract specification: `Deliver`, `Skip`, `Fail`, `End`, `GiveUp`, `Cancel` |
| `ParallelOp` | `parallelOp`, `exec`'s `drain` and `Batches` | extends and refines `OrderedStream` |
| `ParProbe` | `parProbeOp` | refines `OrderedStream` by `INSTANCE ... WITH` |
| `ParallelSink` | `parallelSink.drain`, and what it needs of `hashAggSink` | |
| `SharedResult` | `sharedResult`, `cacheOp` | |
| `Ledger` | `Budget`, `Account` | |
| `EnginePool` | `Pool`, a `Budget`'s share | |
| `EngineThreads` | `Engine.share`, `hold`, `release` | |
| `SourceOnce` | `source.Once` | |
| `RowGroupReader` | `parallelReader`, `aheadGate`, `sharedFile` | |
| `SpillKeys` | the hash group-by and the streaming unique, and their spill | extended by `SpillOrder` |
| `ExternalSort`, `SpillRing` | the sort and the merge of two frames; the tail and the reverse | extended by `SpillOrder` |
| `SpillOrder` | what a caller sees of those four | extended by `Answers`, which asks it too |
| `SpillJoin`, `CsvBlocks`, `AsOf`, `TemporalGroups`, `WindowKernels`, `WindowStream`, `SpillWindows`, `Accumulators`, `Aggregates` | an operator each, as functions of a question, beside its definition | used by `Answers` |
| `Answers` | what a caller sees of them | a question is posed, and answered |
| `PlanAlgebra`, `PlanPredicates`, `PlanShape` | plans and what they answer; the rules | used by `Optimizer` |
| `Optimizer` | `Optimize` | a state a rule |
| `MC...` | small instances of each; `EnginePool`, `EngineThreads`, `SourceOnce` and `ParallelSink` need none, `MCAnswers` is `SpillKeys`'s and `SpillOrder`'s | |
| `...Proofs` | theorems | of `ParallelOp`, `ParProbe`, `ParallelSink` and `RowGroupReader`; of `SpillKeys` and `SpillOrder` in `SpillProofs`; of `Ledger` and `SharedResult` in `QueryProofs`; of `EnginePool`, `EngineThreads` and `SourceOnce` in `EngineProofs` |
| `FoldFacts` | nothing: lemmas on induction, sums over sets and joined sequences | used by six of them |

In the models of goroutines, steps are as long as what a goroutine does between two accesses
to what others see: a channel operation, an atomic, a locked section. Batches, allocations and
queries are numbers or model values. `Init` is what the constructor leaves. A definition that
its comment calls a mutant of another is a plausible bug in that one, and no specification
uses it.

### OrderedStream, ParallelOp and ParProbe

The input is a sequence of pulls: batches that survive the operators, are filtered away to
nothing, fail or panic, or stop their goroutine, and an end, an error or a Goexit of the
source. `OrderedStream` says what a caller may be told of it. `ParallelOp` has the
dispatcher (`dpc`: pull, send), the workers (`wpc`: receive, apply, send), their lanes and the
caller, whose program counter follows `drain`'s loop and `Next`'s within it. Channels are
sequences; `close` is the end of the goroutine that closes it. A `select` on a send and
`ctx.Done()` is two actions. Messages carry the number of their pull, which the code's do
not: the properties need it, no action looks at it. `Done` is the derived context. The
caller may cancel at any time and break out after any batch, and then closes.

`ParProbe` differs where `parProbeOp` does: a probe batch gives none, one or many batches, each
a message in its worker's lane, and a terminator after them, at which alone the consumer's turn
moves. A message carries the number of the answer it is of and its place in it, again for the
properties alone. It implements `OrderedStream` over the flattened outputs: a probe batch without
rows is a `Skip`, and the rest is a `Deliver` an output.

### ParallelSink

The dispatcher deals batches out round-robin, a worker consumes them or fails in one of the
`Faults`, `drain` then judges, folds, in worker order or all partitions at once, reads the
rest serially where a worker asked for it, and finishes. A sink is the sequence of batches
it was given. `fail` is one step, as nobody reads `errs` before the workers end. A Goexit in a
call that `drain` makes itself ends its goroutine (`DrainExits`): the deferred cancel is
called, but nobody closes the lanes, so that a worker with an empty one waits for good.
`DrainEnds` counts that as drain's end. Bounds: `MaxBatches`, `Faults`.

### SharedResult

A site's goroutine calls `Next` until its answer is final, and then, or before, `Close`. The
first enters `once.Do`; the run keeps batches until it is over its room, then turns to a file and
writes what it held first; sites that come later wait in the `Once`, then replay, from memory or
through a reader of their own. The last site's `Close` releases. Whether a write, the file's
close, the subplan's close or a site's read fails is chosen as it is made, so a disk may fill in
the middle of a run; a file whose close failed may lack any of its end. The subplan's answers,
which end in an end, a failure or a Goexit, and `Rooms`, how many batches are held before the
file, are inputs. Only the removal of the spill directory never fails.

### Ledger

`ids[a][id]` is the view account `a` has of an allocation, `held[id]` the budget's entry. The
budget's mutex is taken an allocation at a time, so `Retain` of a column and each step of
`Release` are actions of their own; `released` is how far a `Release` has come. A view is
an interval counted back from the end, as in `data.Span`. `RetainBytes` is only bounded
(`MaxRaw`). Which spans a column has (`data.Spans`) is the input.

### EnginePool

Each query's `total` moves under its budget's mutex and is told to the pool by a grain;
`Add` is `held.Add` and then the loop that lifts `peak`. While `pc[q]` is not idle one
goroutine of the query has its mutex. `Leave` may come before a release, after one, or from
the collector. `room` is two steps, for its two atomics. `high` and `wasOver` are history.
Join's steps exclude the query's other goroutines because it is called (`lazy.go:744`) before
they run. Bounds: `MaxTotal`, `MaxPages`.

### EngineThreads

A query or an eager operation holds the threads its caller gave it (`HoldThreads`), runs on one
(`ShareOne`), or takes a share in two accesses (`ShareAdd`, `ShareEnd`). `workers.release`
runs once; that it does is `lazy.go`'s nil-ing of the engine, part of `Release`'s guard.
Bound: `MaxWant`.

### SourceOnce

A caller's program counter follows `Do` and `run`. `f` answers, fails, returns the context's
error once that ended, or panics (which a Goexit is the same as here). `keep` is whether the
deferred function will keep the answer. Bound: `MaxCalls`.

### RowGroupReader

The input is files that open or not, of row groups whose statistics keep, skip or break them,
of batches with rows or without, that end, fail or stop. `Next` issues row groups under
`r.mu` a step at a time, waits on the head's channel, and gives back what it took; a worker
asks the gate, decodes, sends; `parked` is in `cond.Wait`. A context that ends as a later file is
opened (`OpenEnds`) is answered, and its error not kept: every later call answers it too. `Close` may come between any two
steps outside `r.mu`. A batch's size is 1. Floor, limit and capacity are constants, as the
code's are 3, 64 MiB and 1024.

### SpillKeys, SpillOrder, Answers and the operators they ask

An operator that spills is, between two calls of its caller, a function of what it was given and
of the moments at which it was told that the query is over its limit. `SpillKeys`, for the group-by
and the unique, `SpillOrder`, for the operators that order rows, and `Answers`, for the others too, choose those moments freely: a question is a
record `q` of the operator's options, of the batches, by level and place, after which the account is over (`over`), of whether the query alone is over its limit
then (`alone`), of the hash bucket of each key at each level (`hash`), and the input in batches.
One state poses nothing, its successors a question and the operator's answer each; an invariant
compares the answer with a definition that knows of no budget. Each module's header says what
its `q` holds. A row is its key and a number, its place in the input, so an answer says which
rows it is of and in which order; a row's other columns ride along and are left out.

- `SpillKeys`: the freeze, the routing by hash (`RouteGroups`, `RouteRows`), the descent through
  the files (`Collected`, `Uniqued`), the refusal once no partitioning is left, and the ordered
  output (`FirstSeen`, `MergeByOrdinal`). It and the next two are written so as to be proved
  about: their recursion over batches and over levels is by recursive functions.
- `ExternalSort`: the batches a sort takes (`Sunk`), its spill and the top-k's compaction
  (`SinkRows`), the cascade of merges by `sortFanIn` (`Carry`), the merge, a pop at a time (`Pop`);
  `mergeSortedOp`, a row at a time (`NextRow`), and its refusal of a side that goes backwards.
- `SpillRing`: the pieces of `tailOp`, from which a run or a batch at a time is dropped
  (`DropOne`), and of `reverseSink`, with the merge of two of them.
- `SpillOrder` asks the four and has their definitions: the stable sort, the last rows, the input
  backwards.
- `SpillJoin`: `joinSink.Consume` and its escalation (`Build`), the probe of the table and the
  routing of what a bucket's file may match (`ProbeSide`), the replay of each bucket a level
  deeper (`Join`), and `joinorder`'s merge by ordinals (`OrderedProbe`).
- `CsvBlocks`: the scanner's rules (`Scan`), the speculative cut, the exact cut (which reads the
  same rules over again in the code, and so here), `specNext`'s taking back, the window.
- `AsOf`: `asOfStreamOp`'s reading on, its queues and matches as places in the right batches
  held, and `gather`, which moves them all.
- `TemporalGroups`: the windows a row makes and joins, the segments handed out, the rows kept
  until no window to come can hold them.
- `WindowKernels` answers a partition in memory; `WindowStream` walks one a batch at a time with
  the rows each function keeps and reads ahead; `SpillWindows` is the sink: one partition
  streamed, one key parted from the rest, or files by hash and a sink of their own each.
- `Accumulators` has each aggregate's state: of one group for those that fold values (`Nothing`,
  `Add`, `Join`), of all groups for those that keep values or rows, with the gathering of rows
  that are no longer anyone's and the places moved by it. A mean or a variance is an exact ratio
  of integers, a word is `-HalfWord..HalfWord - 1`. `Aggregates` is the rest of the way: batches
  dealt to sinks (`Sunk`), values spilled to sorted runs that are merged level by level
  (`AddRun`), sinks folded into one (`MergeSinks`) or into a part each by the hash of the key
  (`FoldPartitioned`), and the answer of each part. Its last section (`Defined`) says what each
  aggregate is of a group's rows, knowing nothing of that.

### Optimizer

A plan is a tree of records with a schema (`Schema`) and an answer (`RowsOf`: rows, and whether it
fails), both in `PlanAlgebra`, read from `nodes*.go` and from what the operators do. Every
rule is a function from plans to plans in `PlanPredicates` and `PlanShape`. A state of `Optimizer`
is a query and how many of the rules it has been through, in `optimize.go`'s order; the
last step is the exchange that `joinswap` makes as a marked join runs. Values are few, but
each kind the rules tell apart is there: null, NaN, the two zeros, an integer that wraps, a
text a strict cast refuses, a udf.

## The runs

| Run | Instance | Shows |
|---|---|---|
| `parallel_op` | 2 workers, lanes of 1, every stream of at most 2 batches and two of 8 | nothing left behind; refinement of `OrderedStream`; every goroutine ends |
| `par_probe` | 2 workers, lanes of 1, every probe side of at most 2 batches, of 3 that do not fail, and one of 6 | refinement of `OrderedStream`; every goroutine ends |
| `parallel_sink` | 2 workers, lanes of 1, 5 batches, every fault | whole answers or a failure told, one order, `drain` ends |
| `shared_result` | 3 sites, subplans of at most 2 batches and of 4, that end, fail or stop, room for one batch or no limit | every site replays all of it or is told of a failure; released by the last; every `Next` returns |
| `ledger` | 2 operators, a result, 2 allocations of 2 bytes | references, spans, totals, and that a result moves no operator's total |
| `engine_pool` | 2 queries, limit 3, grain 2 | sum, count, peak, someone over, over is seen |
| `engine_threads` | 4 queries, 6 threads | the count and the shares |
| `source_once` | 3 callers of 2 calls | own context, one run, one answer, every call returns |
| `row_groups` | 2 row groups at once, limit, floor and capacity 1; 78 short inputs and 2 longer | the serial reader's answer, files, read-ahead, `Next` and `Close` return |
| `answers` | every question of `MCAnswers`, some 354,000 | each operator's answer, however it spilled, is its definition's |
| `plans` | 26 bases, 19 operators over them, 17 filters and projections over those, under 2 sets of flags | after each rule the same answer, no new error, the same schema |
| `plans_hasty` | one plan | a comment's claim that fails |

Why the bounds are enough:

- `parallel_op`: two lanes are the fewest that can be misread in turn; a stream of two batches
  puts every pair of kinds of batch and every end at every lane; eight rows are what fills
  every queue (2 * (1 + 1 + 1 + 1)) with the caller not reading. The theorems cover any number.
- `par_probe`: as there; a batch of two answers is the least whose terminator can be missed or
  be taken too early, and six of them fill every channel.
- `parallel_sink`: five batches are enough that a worker that stops on its first leaves a
  full lane (one consumed, one in the lane, one to send) while the other goes on.
- `shared_result`: three sites are one that runs, one that waits and one that comes late or never;
  the longer subplans turn to their file in the middle and write another batch after, so that the
  disk fails before, at and after the turn.
- `ledger`: an allocation of two bytes has disjoint, nested and equal views; two operators and
  a result give each mix of holders.
- `engine_pool`: the limit is what one query may reach alone, so two go past it; a grain of 2
  leaves something untold.
- `engine_threads`: six threads divide into 6, 3, 2 and 1 over four queries.
- `source_once`: one caller runs, one waits on it, and one runs after; two calls each, so a
  caller meets what another's first call left.
- `row_groups`: with limit, floor and capacity at 1, three batches reach all three.
- `answers`: inputs are four to six rows, cut so that batches end inside every group of equal
  keys, with an empty batch among them. Two buckets and two levels part keys at once, a level
  deeper, or never, and a budget passed at every batch of each level reaches each way out: held,
  frozen, routed, descended, refused. A sort's six batches and a fan-in of 2 make runs of runs
  of runs. A CSV stream of six characters in blocks of one or two and a window of three has a
  quote opened in one block and closed two blocks on, with blocks past it cut already. An as-of
  join's right side is gathered at two parts, so that every place is moved while queued and
  while matched. A segment of two windows, two pairs fed at once and two parts make a
  temporal group-by hand out and let go inside one group. A window's partition of six rows in
  batches of at most three puts what it must keep and read ahead across two cuts. An
  aggregate's six rows in five batches, an empty one among them, go to one sink, to two or to
  three; runs of one batch, merged two by two, are merged three levels up; one row no longer kept
  is enough to gather the rest; words of -8..7 wrap and come back under values of at most 7, and
  three groups are enough to fold by parts.
- `plans`: a rule that moves a node past another meets every other node below it and every kind
  of predicate above; a merge lies over a join worth exchanging, of the order the merge needs; the tables have a null, a duplicate key, a key of one side only, and a row
  on which each fallible expression fails.

Deadlock is checked where the system never stops: ledger, pool, threads, and the row-group
reader, whose caller may call `Next` for ever. The others end: `drain`, the sites, the callers of
a bounded number of calls, the driver, a question answered, a plan rewritten, and their runs say
`CHECK_DEADLOCK FALSE`; that goroutines do not stop too early is their liveness property.

### Fairness

Safety is checked without regard to it. For liveness: each goroutine is weakly fair, which is
the Go scheduler's promise and that reads and operators return; where a `select` has two ready
cases nothing says which is taken. The caller calls `Next` again (`drain` and `Batches` loop)
and closes what has ended (`exec` defers `Close`), but whether it cancels or breaks out is
left to it; so in `ParProbe`, and in `SharedResult`, where each site's goroutine is fair in a
`Next` it has called and nothing makes it call one. In `RowGroupReader` `Close` is strongly
fair, because it needs a mutex `Next` takes again and again: Go's mutex passes to a goroutine
that has waited a millisecond. In `SourceOnce` `f` returns. Nothing else is assumed.

### What the violation shows

`plans_hasty`: the optimizer promises that no rule makes an error of a query that has none
(`optimize.go:20-22`), and `PredicatePushdown` is careful not to move a conjunct that can fail
past one that may guard it. `CollapseCrossJoin` (`rule_collapse.go:86`) is not: an equality above
a cross join becomes a join key, which is evaluated on every row of its side, and so on rows a
conjunct beside it would have dropped. A text that is no number on such a row fails the query.

### Other disagreements met

Found in reading or in a run's making, and kept out of the properties, each of which asks what
does hold:

- CSV: once `specNext` has given up and blocks are cut exactly (`split.go:157-161`), speculative
  blocks before them that wait to be delivered still add their rows and lines to the splitter's
  count (`split.go:187-191`), and `resume` (`split.go:113-120`) does not take them back. A
  later error's row and line are then past the serial reader's, against `split.go:27-29`, as in the
  stream `,,\n\n,,` with a record limit below it. `CsvAsSerial` asks for them only below the limit.
  And a read error drops what the splitter has buffered (`parallel.go:22`).
- Shared subplans: the first site's run keeps its own context's error for every site
  (`cache.go:84`), though the comment on `run` (`cache.go:26`) speaks of the subplan's failure only;
  and a Goexit in it leaves the `Once` done with no error and the batches it had, which every other
  site then replays and ends after, as if they were all. The comment has the subplan run "to the
  end", and `parallel.go:212-216` calls the same outcome a fault in the pool, "every row after the exit
  was dropped with no error", for which `goexitGuard` is there; `run` calls `drain` without it.
  `EverySiteReplays` claims nothing of the end of such a subplan, and TLC finds it violated with two
  sites and a subplan of an exit alone once `Last(child) # "exit"` is taken from it. That its
  batches come in order, what is released and that every `Next` returns is asked of it too.
- Pool: `room`'s comment (`pool.go:168-171`) says that whenever the pool is over, a query
  holding more than its share is told so. `Pressure` keeps a query's own pages out of its own
  figure (`pool.go:177`), so a pool pushed past its limit by one query's pages has that query not
  over. What holds is `SomeoneOver`.
- Breaker: the comment beside the dispatcher's error calls a `context.Canceled` that a failure's
  own cancel provoked an echo (`parallelsink.go:188-190`). The dispatcher's is filtered; a
  worker's, from a `Consume` under way when another failed (`parallelsink.go:154`), is returned
  beside the cause.
- Aggregates: the comment on `IsOrderDependent` (`internal/expr/agg.go:124-126`) has a
  minimum not depend on the order in which sinks are folded. Of 0.0 and -0.0, which compare equal,
  the one met first is kept. `AggregatesAreExact` is asked of the sinks' order there.
- Build side: a comment (`rule_buildside.go:41-44`) says an exchange is made only where nobody
  sees a join's order; `keepsOrderOf` (`146-157`) does not list `TemporalGroup` and `Distinct`. Over
  the second a query may give other rows of ties. The first refuses an index that goes backwards
  (`tempsegment.go:235-248`), so that a query that ran, a temporal group by a row index of a join's
  smaller left input, fails once the inputs are exchanged: TLC shows it where `NoRuleAddsAnError` is
  asked of that plan alone. `RulesKeepTheAnswer` asks nothing of a query that picks rows of an
  unordered join by their place; a join below a merge is not one.

## The proofs

Each proof module extends its component (`EngineProofs` the three things an engine's queries
share: its memory, its threads, a source's first read; `QueryProofs` two a query's operators do:
its ledger, its shared subplans) and states an inductive invariant, a lemma
per action that keeps it, and the theorems that follow.

- **`ParallelOpProofs`** (`IInv`). The order is not inductive: that the head of the turn's lane
  is the next pull says nothing of the lane behind it. `LaneInStep` says of each lane that what
  is in its results, in its worker and in its jobs is, in order, its residue of the pulls not
  yet read, with no gap; `DispatcherInStep` and `ReadInStep` tie the dispatcher's lane and the
  caller's turn to their counts; `AllGenuine` says a message is what the stream has at its
  number, or the context's error; `EndExplained` says why a lane that ended did. From it,
  `TypeCorrect`, `ReadsInOrder`, `NothingIsLeft`, and `Refinement`: `PSafe => OrderedStream`'s
  `Spec`, each action a step of it or a stutter. For every `N`, `Depth` and `Streams`, from
  `LanesAssumption` and `StreamsAssumption`.
- **`ParProbeProofs`** (`PInv`). A probe batch gives any number of messages, so a lane cannot be
  read off by counting. What is inductive is what each lane owes: from the answer the consumer
  wants of it next (`Owed`) to the answer the dispatcher hands it next (`Due`), the messages in
  the lane, those its worker has yet to send of its job and those of its jobs follow one another,
  N answers on each time, with none left out (`LanesInStep`). Those of the first answer begin
  where the consumer is in it if it is the lane's turn (`Got`), and at the first otherwise.
  `WorkInStep` says that a worker that sends has something to send, and the messages, but for a
  context's error, are those of the probe side (`Genuine`). So the head of the turn's lane is
  the next pull of the serial stream, and a lane found closed and empty under a context that has
  not ended is its end. How much was read is then the length of the answers finished and of what
  is had of the next (`Counted`), from which each step is one of `OrderedStream`'s or a stutter:
  `ProbeIsSerial`. That the flattened outputs are streams in the sense `OrderedStream` assumes is
  `ProbesAreStreams`. For every `N`, `Depth` and `Probes`, from `ProbeAssumption` and
  `ProbesAssumption`.
- **`QueryProofs`**, of the ledger: `LInv` has the types, `RefsExact`, `SpanCoversHolders`, and that a release
  gives up only what the account holds, without which the count could pass zero. `EInv` adds what
  the totals need: `EntriesExact`, that each total is the sum of the entries its accounts hold,
  and `PeakCovers`. From it `TotalsAreExact` and, of a step, `ResultStaysApart`. Cardinalities
  and sums move by one element at a time. From `LedgerAssumption`.
  Of shared subplans, `Inv`: one site runs (`OneRuns`), what is held, in memory or in the file, is
  the rows of what it has taken (`Drained`), each site has the front of that, as far as its place
  (`Replayed`), a site's error is the run's or its own reader's, and a run without one had the
  subplan's end or its exit (`Told`), and the subplan is closed by its end or by the last site
  (`LetGo`). Hence `SitesReplay`, which claims nothing of a subplan's exit, and `LastReleases`. From `SitesAssumption` and `ChildrenAssumption`.
- **`EngineProofs`**, of the pool: `PInv` has `ToldToAGrain` (the pool has each running query's total to a
  grain), nothing held before a query joins, and
  `PeakComes`: the highest sum is the peak already, or is in the hands of a query that is still
  in `add` and cannot leave without it. `CInv` adds that the pool's sum and count are its queries'
  (`SumIsTheirs`, `CountIsTheirs`), between any two atomics of theirs, and gives `PoolIsExact`,
  `OverIsNotMissed`, and `SomeoneIsOver`: rooms that add up to the limit, to a rounding, cannot all
  hold a sum past it. From `PoolAssumption`.
  Of the threads, `TInv`: the exact count, and `FewDivide`: at most `k` of the counted
  queries divided by `k` or less, since each that begins raises the count for the next. Hence at
  most `Threads \div m` got `m` threads. From `ThreadsAssumption`.
  Of a source's first read, `OInv`: `runner` is the one caller in a run, what is kept is what a
  run answered, with the source whole where that was no error, and what callers were told agrees
  with it. From `OnceAssumption`.
- **`ParallelSinkProofs`** (`WInv`). While no error is raised, what a worker's sink holds, the batch it
  consumes and what its lane holds are, in order and with no gap, the batches dealt to it
  (`LanesInStep`); once drain's own goroutine is gone there is no answer to speak of; each flag was raised for a reason (`Raised`) and so did the dispatcher stop
  (`Stopped`), so that a drain which comes to its fold with nothing raised has dealt all its
  input or was asked for serial, and every sink is exactly its deal. `Folding` then says what the
  fold has made of the sinks: the deals of the first workers in their order (`Turned`), which
  hold every batch once, and the rest behind them. Hence `AnswerHasEveryBatch` and `OrderIsFixed`.
  The order is `FlattenSeq` of the deals (`FoldFacts`). From `SinkAssumption`.
- **`RowGroupReaderProofs`**: `FInv`, on the files: that a file's references are its workers and the
  reader while it issues of it (`RefsCount`), and that it is closed exactly when it was opened and
  has none (`ClosedByLast`). Hence `NoFileClosedEarly` and `ClosedWhole`. `AInv`, on what is held
  ahead: `held` bounds nothing by itself, since a worker below its floor passes the gate however
  much the others hold. What is inductive is `ExcessBounded`: what the row groups hold past their
  floors, a batch about to be decoded counted, is together less than the limit. A worker let on
  while less than the limit is held keeps it so, because no row group's excess is then more than its
  part of `held` (`HeldIsPending`); one let on below its floor adds none. `AheadIsBounded` then
  needs that no more row groups than threads hold anything (`FewUnsettled`), which follows from
  their being in flight while any are issued, and that from `PendingCovers`: a row group read to its
  end holds nothing. `SInv`, on the order: row groups are issued in the files' order, and none is
  left out but those a predicate skips or an error stops at (`TasksOrdered`, `IssuedSoFar`); each
  delivers its batches in order, those not yet given lying in its channel behind those given, and
  ends or fails as its row group does, whenever its worker is let on (`AllDeliver`); Next is at the
  oldest in flight, all before it given whole and of those behind it nothing (`InTurn`). Hence what
  was given is a front of the serial read, and an error comes where the serial read meets one
  (`GivenInOrder`, `Answered`): `SerialOrder`, of `AsSerial`, which compares places, a file, a row
  group and a batch, and so needs no recursion over the files. From `ReaderAssumption`.
- **`SpillProofs`**, of `SpillKeys`: what the operators keep is never followed place by place. The rows of an
  input rise by their numbers, of one set of rows there is one rising sequence (`RisingAgree`), and
  choosing, joining and sorting keep what rises (`OnlyThose`, `JoinRises`, `SortedRises`); so a
  sequence is its set of rows and its order. Over the batches, by induction of their number,
  `DrainHolds`: the rows read are the resident ones and those of the files, each file numbered,
  of its bucket, and of no resident key; nothing is written before the freeze, and at the last
  level there is none unless the query alone is over. `PullHolds` says of a unique that what was
  given out is the first rows of its keys, all before any row in a file. So the files part the
  rows by key, and over the levels, from the last one up, `CollectedHolds`: the groups gathered
  are those of all the rows, each once (`Lists`), and `UniquedHolds`, the same of first rows.
  Sorted by the numbers of their first rows, the groups are the rising sequence that one group-by
  with room for all would have given (`FirstSeenRestores`). Hence `GroupsExact` and `FirstsExact`,
  together `KeysExact`, for every input, hash, number of buckets, depth and course of the budget,
  from `KeysAssumption`: that rows are numbered in the order they come and that a hash gives a
  bucket.
  Of `SpillOrder`: the rows of an input are finitely many and of one order, by the comparator and,
  of equal keys, by the place, so there are numbers that have that order (`EmbeddingExists`), and
  the stable sort of rows is their one rising sequence. A merge takes of equal heads the first
  run's, and so gives the rising sequence of all the rows (`MergeRises`) as long as a run's rows come
  before those of every later run: `Leveled`, which is what a cascade must keep, and does, because
  it merges neighbours in their place (`CarryHolds`). A top-k keeps fewer rows than it was given:
  `Keeps` says that whatever it has let go is after `limit` rows it still has, which holds of a
  union, of a merge and of a compaction again, and is all that the first `limit` rows depend on
  (`KeptAgree`). `SinkHolds` has the two together, of each batch. A merge of frames has read of
  each side the rows before a place, and it says it is out of order exactly when two neighbours of
  those are, in one batch or across the cut (`SideAt`); what it has put out is the rising sequence of
  what it has read, before all that is to come (`RowsAt`). The pieces of a tail are a back of the
  input of at least `n` rows, or all of it (`TailHolds`); those of a reverse, of two sinks merged
  too, are all of the input in order (`HoldsBoth`). Hence `SortExact`, `MergeExact`, `TailExact`
  and `ReverseExact`, together `OrderExact`, for every input, fan-in and course of the budget, from
  `OrderAssumption`: that rows are numbered in the order they come and that a merge is of two runs
  or more.
- **`FoldFacts`**: sums over finite sets, as the community modules' `SumFunctionOnSet` defines them by a
  fold: how they change with a term, with an element, and against one another. The library's
  induction theorems take an operator, which the provers here cannot supply; `NaturalInduction`
  and `SubsetInduction` state induction of a set instead, and are proved from the well-foundedness
  of the naturals. `FlattenSeq`, a recursive function, is unfolded by induction of the set of
  lengths it has been unfolded for: what one sequence more adds (`FlattenMore`), and where in the
  whole each part stands (`FlattenStands`).

Only model-checked: liveness (`AllEnd`, `ProbeEnds`, `EveryCallReturns`, `DrainEnds`, `NextReturns`,
`CallsComeBack`), which the prover has no way to with fairness; and what `Answers`
itself, beside `KeysAreExact` and `OrderIsExact`, and `Optimizer` check, which is of what recursive operators compute over an input, and those the
prover does not take.

## Plan

What is left, in the order of what matters to an answer's correctness:

1. `ScanPages` (`parquet/pool.go`) composed with `EnginePool`: pages freed after a scan's close,
   pages held before the query joins.
2. `SpillFile` (`spill.go`): a writer cut short at any record, and what a reader may take for the
   end.
3. A query's life: plan, join the pool, run, close, leave.

## Not modelled, and why

- In the operators that are modelled: of aggregates `bit_and` and `bit_or` (like `bit_xor`), entropy,
  the two bounds, a decimal's limit of digits, a float's rounding and overflow, and a group-by
  that routes its rows to files while its values spill; what a window's aggregate spills;
  `crossspill.go`; `keychunk.go`, which
  bounds memory only; of as-of joins null keys, a tolerance of months, float distances and the
  refusal of its own limit; of temporal group-bys calendar intervals, time zones, `StartBy` a
  weekday, a null index, filtered aggregates; of windows `ewm`, `rle_id`, `cat_codes`, rolling rank
  and map, moments and quantiles' own states, `interpolate_by`, an `order_by` that descends or puts
  nulls last, several functions that share a pass, and the refusal of too dense a period.
- In the optimizer: the plan nodes AsOf, Explode, Unnest, Unpivot, HStack and Pivot; a `Validate` of
  more than a flag, a join order of the right input; the keys a runtime filter publishes are
  taken as published before its scan reads.
- Values: most kernels and expressions, encodings, types, formatting and parsing are functions
  over wide domains, which the repository tests against other engines; a small instance of them
  says little.
- Readers and writers that run on one goroutine: their control is a loop over a file.
- The resolution of plan nodes: done once, and the plan is immutable after.
- What is listed in the plan, until it is modelled. `PROJECT.json` has each with its status, and
  the hazards that no property covers yet.
