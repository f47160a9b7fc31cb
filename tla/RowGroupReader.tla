--------------------------- MODULE RowGroupReader ---------------------------
(***************************************************************************)
(* The parallel Parquet reader: parallelReader, its row-group workers, the *)
(* gate on how far they read ahead, and the files they share               *)
(* (internal/source/parquet/parallel.go).                                  *)
(*                                                                         *)
(* One goroutine calls Next; another may call Close while it waits.  r.mu  *)
(* is held through head, whose row groups are issued a step at a time, and *)
(* otherwise for what is one step here.  A batch's bytes are its one.      *)
(***************************************************************************)
EXTENDS Integers, Sequences, FiniteSets, SequencesExt

CONSTANTS
  Inputs,     \* the files a scan may read
  Threads,    \* row groups in flight: threads
  Limit,      \* the gate's limit
  Floor,      \* aheadFloor
  Capacity    \* maxRGBatches, the most a row group's channel holds

(* A file opens or does not; a row group's statistics keep it, skip it or  *)
(* do not read; it decodes to batches with rows or, by a dictionary's      *)
(* conjunct, without, and then ends, fails, or stops its goroutine.        *)
Groups == [stats : {"keep", "skip", "bad"}, batches : Seq({"rows", "empty"}),
           end : {"ok", "err", "exit"}]

(* The first file opens: openFirst runs before there is a reader.          *)
ASSUME ReaderAssumption ==
  /\ \A s \in Inputs : /\ s \in Seq([opens : BOOLEAN, groups : Seq(Groups)])
                       /\ s # <<>> /\ s[1].opens
  /\ Threads \in Nat \ {0} /\ Limit \in Nat \ {0}
  /\ Floor \in Nat \ {0} /\ Capacity \in Nat \ {0}

None == 0

VARIABLES
  files,      \* the input
  fileIdx,    \* the file to open next
  cur,        \* the file row groups are issued of, None when none is open
  rgIndex,    \* the last row group of cur considered
  issuedAll, issueErr, err,
  inflight,   \* the row groups in flight, oldest first
  tasks,      \* every row group issued, with its worker and its channel
  held, gateStopped, \* the gate
  refs,       \* each file's users
  closes,     \* how often each was closed
  stopped,    \* r.stop is closed
  pc,         \* Next: "out", "head" under the lock, "wait", "taken"
  closing,    \* Close: "no", "gate", "wait", "done"
  head,       \* the row group Next waits on
  cancelled,  \* Next's context has ended
  given,      \* the batches Next has returned
  answer      \* what it last returned

issuing == <<fileIdx, cur, rgIndex, issuedAll, issueErr, inflight>>
gate    == <<held, gateStopped>>
shared  == <<refs, closes>>
next    == <<pc, head, given, answer>>
vars == <<files, issuing, err, tasks, gate, shared, stopped, next, closing, cancelled>>

Init ==
  /\ files \in Inputs
  /\ fileIdx = 2 /\ cur = 1 /\ rgIndex = 0
  /\ issuedAll = FALSE /\ issueErr = FALSE /\ err = FALSE
  /\ inflight = <<>> /\ tasks = <<>>
  /\ held = 0 /\ gateStopped = FALSE
  /\ refs = [f \in DOMAIN files |-> IF f = 1 THEN 1 ELSE 0]
  /\ closes = [f \in DOMAIN files |-> 0]
  /\ stopped = FALSE
  /\ pc = "out" /\ head = None /\ given = <<>> /\ answer = "none"
  /\ closing = "no"
  /\ cancelled = FALSE

(* sharedFile.release: the last user closes the file.                      *)
Release(f) ==
  /\ refs' = [refs EXCEPT ![f] = @ - 1]
  /\ closes' = [closes EXCEPT ![f] = IF refs[f] = 1 THEN @ + 1 ELSE @]

-----------------------------------------------------------------------------
(* The caller.                                                             *)

Cancel ==
  /\ ~cancelled /\ cancelled' = TRUE
  /\ UNCHANGED <<files, issuing, err, tasks, gate, shared, stopped, next, closing>>

NextReturns(a) ==
  pc' = "out" /\ answer' = a /\ head' = None

(* Next is called: its context's error, or on to head, under the lock.     *)
NextStarts ==
  /\ pc = "out"
  /\ IF cancelled THEN NextReturns("ctx") /\ UNCHANGED given
     ELSE pc' = "head" /\ answer' = "none" /\ UNCHANGED <<head, given>>
  /\ UNCHANGED <<files, issuing, err, tasks, gate, shared, stopped, closing, cancelled>>

-----------------------------------------------------------------------------
(* head: an error met before, a reader closed, row groups up to the        *)
(* threads, then the oldest in flight.                                     *)

HeadRefuses ==
  /\ pc = "head" /\ (err \/ stopped)
  /\ NextReturns(IF err THEN "err" ELSE "closed")
  /\ UNCHANGED <<files, issuing, err, tasks, gate, shared, stopped, given, closing, cancelled>>

Issues == pc = "head" /\ ~err /\ ~stopped
          /\ ~issuedAll /\ ~issueErr /\ Len(inflight) < Threads

OpenFile ==
  /\ Issues /\ cur = None
  /\ CASE fileIdx > Len(files) ->
            issuedAll' = TRUE /\ UNCHANGED <<fileIdx, cur, rgIndex, issueErr, refs>>
       [] fileIdx <= Len(files) /\ ~files[fileIdx].opens ->
            issueErr' = TRUE /\ UNCHANGED <<fileIdx, cur, rgIndex, issuedAll, refs>>
       [] OTHER ->
            /\ cur' = fileIdx /\ rgIndex' = 0 /\ fileIdx' = fileIdx + 1
            /\ refs' = [refs EXCEPT ![fileIdx] = 1]
            /\ UNCHANGED <<issuedAll, issueErr>>
  /\ UNCHANGED <<files, inflight, err, tasks, gate, closes, stopped, next, closing, cancelled>>

(* Mutant of IssueGroup: the worker does not count among the file's users. *)
IssueGroupUncounted ==
  /\ Issues /\ cur # None /\ rgIndex < Len(files[cur].groups)
  /\ LET g == files[cur].groups[rgIndex + 1] IN
       CASE g.stats = "skip" -> rgIndex' = rgIndex + 1 /\ UNCHANGED <<issueErr, inflight, tasks, refs>>
         [] g.stats = "bad"  -> rgIndex' = rgIndex + 1 /\ issueErr' = TRUE /\ UNCHANGED <<inflight, tasks, refs>>
         [] g.stats = "keep" ->
              /\ rgIndex' = rgIndex + 1
              /\ tasks' = Append(tasks, [file |-> cur, group |-> rgIndex + 1, pc |-> "loop",
                                         at |-> 0, out |-> <<>>, pending |-> 0, closed |-> FALSE])
              /\ inflight' = Append(inflight, Len(tasks) + 1)
              /\ UNCHANGED <<issueErr, refs>>
  /\ UNCHANGED <<files, fileIdx, cur, issuedAll, err, gate, closes, stopped, next, closing, cancelled>>

IssueGroup ==
  /\ Issues /\ cur # None /\ rgIndex < Len(files[cur].groups)
  /\ rgIndex' = rgIndex + 1
  /\ LET g == files[cur].groups[rgIndex + 1] IN
       CASE g.stats = "skip" -> UNCHANGED <<issueErr, inflight, tasks, refs>>
         [] g.stats = "bad"  -> issueErr' = TRUE /\ UNCHANGED <<inflight, tasks, refs>>
         [] g.stats = "keep" ->
              /\ refs' = [refs EXCEPT ![cur] = @ + 1]
              /\ tasks' = Append(tasks, [file |-> cur, group |-> rgIndex + 1, pc |-> "loop",
                                         at |-> 0, out |-> <<>>, pending |-> 0, closed |-> FALSE])
              /\ inflight' = Append(inflight, Len(tasks) + 1)
              /\ UNCHANGED issueErr
  /\ UNCHANGED <<files, fileIdx, cur, issuedAll, err, gate, closes, stopped, next, closing, cancelled>>

LeaveFile ==
  /\ Issues /\ cur # None /\ rgIndex = Len(files[cur].groups)
  /\ Release(cur)
  /\ cur' = None
  /\ UNCHANGED <<files, fileIdx, rgIndex, issuedAll, issueErr, inflight, err, tasks, gate,
                 stopped, next, closing, cancelled>>

(* The context may end as a later file is opened: what that answers waits  *)
(* for those in flight, and is the context's error as every later call's   *)
(* is, so nobody sees that it is kept.                                     *)
OpenEnds == Issues /\ cur = None /\ fileIdx <= Len(files) /\ cancelled

(* Mutant of HeadAnswers: a failure to issue goes ahead of those in flight. *)
HeadAnswersFirst ==
  /\ pc = "head" /\ ~err /\ ~stopped /\ (~Issues \/ OpenEnds)
  /\ CASE issueErr -> err' = TRUE /\ NextReturns("err")
       [] ~issueErr /\ inflight # <<>> ->
            pc' = "wait" /\ head' = inflight[1] /\ UNCHANGED <<err, answer>>
       [] OTHER -> NextReturns(IF OpenEnds THEN "ctx" ELSE "eof") /\ UNCHANGED err
  /\ UNCHANGED <<files, issuing, tasks, gate, shared, stopped, given, closing, cancelled>>

HeadAnswers ==
  /\ pc = "head" /\ ~err /\ ~stopped /\ (~Issues \/ OpenEnds)
  /\ CASE inflight # <<>> ->
            pc' = "wait" /\ head' = inflight[1] /\ UNCHANGED <<err, answer>>
       [] inflight = <<>> /\ issueErr -> err' = TRUE /\ NextReturns("err")
       [] OTHER -> NextReturns(IF OpenEnds THEN "ctx" ELSE "eof") /\ UNCHANGED err
  /\ UNCHANGED <<files, issuing, tasks, gate, shared, stopped, given, closing, cancelled>>

-----------------------------------------------------------------------------
(* Next, waiting on the head.                                              *)

(* A batch, or the row group's error, which every later Next returns too.  *)
Receive ==
  /\ pc = "wait" /\ tasks[head].out # <<>>
  /\ LET i == Head(tasks[head].out) IN
       /\ tasks' = [tasks EXCEPT ![head].out = Tail(@)]
       /\ IF i = None
          THEN err' = TRUE /\ NextReturns("err") /\ UNCHANGED given
          ELSE /\ pc' = "taken"
               /\ given' = Append(given, <<tasks[head].file, tasks[head].group, i>>)
               /\ UNCHANGED <<err, answer, head>>
  /\ UNCHANGED <<files, issuing, gate, shared, stopped, closing, cancelled>>

(* gate.taken: the batch is given back, and the waiting workers look again. *)
Wakes(ts) == [t \in DOMAIN ts |-> IF ts[t].pc = "parked" THEN [ts[t] EXCEPT !.pc = "gate"] ELSE ts[t]]

Taken ==
  /\ pc = "taken"
  /\ tasks' = Wakes([tasks EXCEPT ![head].pending = @ - 1])
  /\ held' = held - 1
  /\ NextReturns("batch")
  /\ UNCHANGED <<files, issuing, err, gateStopped, shared, stopped, given, closing, cancelled>>

(* The row group is read to its end: out of the queue it goes, unless      *)
(* Close has emptied that, and on to the next.                             *)
ReceiveClosed ==
  /\ pc = "wait" /\ tasks[head].out = <<>> /\ tasks[head].closed
  /\ inflight' = IF inflight # <<>> /\ inflight[1] = head THEN Tail(inflight) ELSE inflight
  /\ pc' = "head" /\ head' = None
  /\ UNCHANGED <<files, fileIdx, cur, rgIndex, issuedAll, issueErr, err, tasks, gate, shared,
                 stopped, given, answer, closing, cancelled>>

WaitEnds ==
  /\ pc = "wait"
  /\ \/ cancelled /\ NextReturns("ctx")
     \/ stopped /\ NextReturns("closed")
  /\ UNCHANGED <<files, issuing, err, tasks, gate, shared, stopped, given, closing, cancelled>>

-----------------------------------------------------------------------------
(* A row group's worker.                                                   *)

Group(t) == files[tasks[t].file].groups[tasks[t].group]

Goes(t, to) == tasks' = [tasks EXCEPT ![t].pc = to]

WorkerOnly == UNCHANGED <<files, issuing, err, gate, shared, stopped, next, closing, cancelled>>

(* The loop's head: read to the end, or stopped.                           *)
WorkerLoops(t) ==
  /\ tasks[t].pc = "loop"
  /\ Goes(t, IF stopped \/ (tasks[t].at = Len(Group(t).batches) /\ Group(t).end = "ok")
             THEN "close" ELSE "gate")
  /\ WorkerOnly

(* Mutants of Waits: no worker has a floor; a worker waits past the floor. *)
WaitsWithoutFloor(t) == ~gateStopped /\ held >= Limit /\ tasks[t].pending >= 0
WaitsPastFloor(t) == ~gateStopped /\ tasks[t].pending > Floor /\ held >= Limit

(* gate.wait: a worker holding the floor waits while they hold the limit.  *)
Waits(t) == ~gateStopped /\ tasks[t].pending >= Floor /\ held >= Limit

WorkerAsks(t) ==
  /\ tasks[t].pc = "gate"
  /\ Goes(t, IF Waits(t) THEN "parked" ELSE IF gateStopped THEN "close" ELSE "decode")
  /\ WorkerOnly

(* readBatch: a batch, counted before it is sent; one without rows is not  *)
(* sent.                                                                   *)
WorkerDecodes(t) ==
  LET n == tasks[t].at + 1 IN
  /\ tasks[t].pc = "decode" /\ n <= Len(Group(t).batches)
  /\ IF Group(t).batches[n] = "rows"
     THEN /\ tasks' = [tasks EXCEPT ![t].pc = "send", ![t].at = n, ![t].pending = @ + 1]
          /\ held' = held + 1
     ELSE /\ tasks' = [tasks EXCEPT ![t].pc = "loop", ![t].at = n]
          /\ UNCHANGED held
  /\ UNCHANGED <<files, issuing, err, gateStopped, shared, stopped, next, closing, cancelled>>

(* Where a row group fails: opening its columns, or decoding past its last *)
(* batch.                                                                  *)
AtFailure(t) ==
  /\ tasks[t].at = Len(Group(t).batches) /\ Group(t).end # "ok"
  /\ tasks[t].pc = "decode" \/ (tasks[t].pc = "loop" /\ tasks[t].at = 0)

(* It fails, panics or is stopped by Goexit: all three send an error.      *)
WorkerFails(t) ==
  /\ AtFailure(t)
  /\ Goes(t, "fail")
  /\ WorkerOnly

WorkerSends(t) ==
  /\ tasks[t].pc \in {"send", "fail"}
  /\ Len(tasks[t].out) < Capacity
  /\ IF tasks[t].pc = "send"
     THEN tasks' = [tasks EXCEPT ![t].pc = "loop", ![t].out = Append(@, tasks[t].at)]
     ELSE tasks' = [tasks EXCEPT ![t].pc = "close", ![t].out = Append(@, None)]
  /\ WorkerOnly

WorkerGivesUp(t) ==
  /\ tasks[t].pc \in {"send", "fail"} /\ stopped
  /\ Goes(t, "close")
  /\ WorkerOnly

(* The defers: the channel closes, the file is let go, the worker is done. *)
WorkerCloses(t) ==
  /\ tasks[t].pc = "close"
  /\ tasks' = [tasks EXCEPT ![t].pc = "release", ![t].closed = TRUE]
  /\ WorkerOnly

WorkerEnds(t) ==
  /\ tasks[t].pc = "release"
  /\ Goes(t, "done")
  /\ Release(tasks[t].file)
  /\ UNCHANGED <<files, issuing, err, gate, stopped, next, closing, cancelled>>

Work(t) ==
  \/ WorkerLoops(t) \/ WorkerAsks(t) \/ WorkerDecodes(t) \/ WorkerFails(t)
  \/ WorkerSends(t) \/ WorkerGivesUp(t) \/ WorkerCloses(t) \/ WorkerEnds(t)

-----------------------------------------------------------------------------
(* Close.                                                                  *)

CloseStops ==
  /\ closing = "no" /\ pc # "head"
  /\ stopped' = TRUE /\ closing' = "gate"
  /\ UNCHANGED <<files, issuing, err, tasks, gate, shared, next, cancelled>>

CloseGate ==
  /\ closing = "gate"
  /\ gateStopped' = TRUE /\ tasks' = Wakes(tasks)
  /\ closing' = "wait"
  /\ UNCHANGED <<files, issuing, err, held, shared, stopped, next, cancelled>>

(* Mutant of CloseEnds: the file being issued of is not let go.            *)
CloseEndsHolding ==
  /\ closing = "wait" /\ pc # "head"
  /\ \A t \in DOMAIN tasks : tasks[t].pc = "done"
  /\ inflight' = <<>> /\ closing' = "done"
  /\ UNCHANGED <<files, fileIdx, cur, rgIndex, issuedAll, issueErr, err, tasks, gate, shared,
                 stopped, next, cancelled>>

CloseEnds ==
  /\ closing = "wait" /\ pc # "head"
  /\ \A t \in DOMAIN tasks : tasks[t].pc = "done"
  /\ IF cur = None THEN UNCHANGED shared ELSE Release(cur)
  /\ cur' = None /\ inflight' = <<>>
  /\ closing' = "done"
  /\ UNCHANGED <<files, fileIdx, rgIndex, issuedAll, issueErr, err, tasks, gate, stopped, next, cancelled>>

-----------------------------------------------------------------------------

Reads == HeadRefuses \/ OpenFile \/ IssueGroup \/ LeaveFile \/ HeadAnswers
           \/ Receive \/ Taken \/ ReceiveClosed \/ WaitEnds

Closes == CloseGate \/ CloseEnds

Next == Cancel \/ NextStarts \/ Reads \/ CloseStops \/ Closes
        \/ \E t \in DOMAIN tasks : Work(t)

Safe == Init /\ [][Next]_vars

MaxTasks == 4

(* Every goroutine goes on: reads return.  Whether Next is called again,   *)
(* and when Close is, is the caller's.  A select goes one of its ways.  A  *)
(* mutex is handed to the goroutine that has waited for it, so Close has   *)
(* r.mu however often Next takes it.                                       *)
Spec == /\ Safe /\ WF_vars(Reads) /\ SF_vars(Closes)
        /\ \A t \in 1..MaxTasks : WF_vars(t \in DOMAIN tasks /\ Work(t))

-----------------------------------------------------------------------------
(* What holds of it.                                                       *)

(* What a serial reader meets, as <<file, row group, batch>>: the batches  *)
(* with rows, and what fails: a file to open, a row group's statistics, or *)
(* its batch after the last.                                               *)
KeptGroups(f) ==
  {g \in DOMAIN files[f].groups : files[f].opens /\ files[f].groups[g].stats = "keep"}
RowBatches(f, g) ==
  {i \in DOMAIN files[f].groups[g].batches : files[f].groups[g].batches[i] = "rows"}
Batches == UNION {UNION {{<<f, g, i>> : i \in RowBatches(f, g)} : g \in KeptGroups(f)}
                  : f \in DOMAIN files}

FailureIn(f, g) ==
  CASE files[f].groups[g].stats = "bad" -> {<<f, g, 0>>}
    [] files[f].groups[g].stats = "keep" /\ files[f].groups[g].end # "ok" ->
         {<<f, g, Len(files[f].groups[g].batches) + 1>>}
    [] OTHER -> {}
Failures ==
  UNION {IF files[f].opens THEN UNION {FailureIn(f, g) : g \in DOMAIN files[f].groups}
                           ELSE {<<f, 0, 0>>}
         : f \in DOMAIN files}

(* The order it meets them in.                                             *)
Before(p, q) ==
  \/ p[1] < q[1]
  \/ p[1] = q[1] /\ p[2] < q[2]
  \/ p[1] = q[1] /\ p[2] = q[2] /\ p[3] < q[3]
BatchesBefore(p) == {b \in Batches : Before(b, p)}

(* Next gives the serial reader's batches in its order, each once and none *)
(* left out, whichever worker is first; it ends when they are all given    *)
(* and nothing failed, and it fails where the serial reader does, after    *)
(* the batches before the failure and none behind it.                      *)
AsSerial ==
  /\ \A j, k \in DOMAIN given : j < k => Before(given[j], given[k])
  /\ \A p \in ToSet(given) : /\ p \in Batches /\ BatchesBefore(p) \subseteq ToSet(given)
                             /\ \A x \in Failures : ~Before(x, p)
  /\ answer = "eof" => Failures = {} /\ ToSet(given) = Batches
  /\ answer = "err" => \E x \in Failures : ToSet(given) = BatchesBefore(x)

(* No file is closed under a worker that reads it, nor twice.              *)
FileOpenWhileRead ==
  /\ \A t \in DOMAIN tasks : tasks[t].pc # "done" => closes[tasks[t].file] = 0
  /\ \A f \in DOMAIN files : closes[f] <= 1

(* Once Close has returned no worker runs and every file opened is closed. *)
CloseIsWhole ==
  closing = "done" =>
    /\ \A t \in DOMAIN tasks : tasks[t].pc = "done"
    /\ \A f \in DOMAIN files : refs[f] = 0 /\ (f < fileIdx => closes[f] = 1)

(* What the workers hold ahead of Next, decoded or about to be, is less    *)
(* than the limit and the floor of each row group in flight together.      *)
Decoding == {t \in DOMAIN tasks : tasks[t].pc = "decode"}
AheadBounded == held + Cardinality(Decoding) < Limit + Threads * Floor

(* Next returns, whatever the workers ahead of its row group hold: a row   *)
(* group it waits on is never kept from decoding.  And Close returns, with *)
(* workers at the gate, at a full channel or decoding.                     *)
CallsComeBack == (pc # "out" ~> pc = "out") /\ (stopped ~> closing = "done")

=============================================================================
