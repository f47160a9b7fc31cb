----------------------------- MODULE ParallelOp -----------------------------
(***************************************************************************)
(* parallelOp (internal/physical/parallel.go): an ordered worker pool over *)
(* a chain of stateless batch operators, and the driver that pulls from it *)
(* (drain and Batches of internal/exec/exec.go).                           *)
(*                                                                         *)
(* A dispatcher goroutine pulls the source serially and hands each batch   *)
(* to the workers round-robin; the caller reads the workers' result lanes  *)
(* round-robin in the same order.  There is no sequence number in the      *)
(* code: messages carry one here so that the order can be stated.          *)
(***************************************************************************)
EXTENDS OrderedStream

CONSTANTS
  N,       \* how many workers, p.n
  Depth    \* parQueueDepth, the capacity of every lane

ASSUME LanesAssumption == N \in Nat \ {0} /\ Depth \in Nat \ {0}

Lanes == 0..(N - 1)

VARIABLES
  seq,        \* the number of the source's next pull, from 1
  lane,       \* seq%p.n: the lane that pull is handed to
  dpc,        \* the dispatcher: "unborn", "pull", "send", "done"
  djob,       \* the job it is sending
  jobs,       \* jobs[i]: a worker's queue
  wpc,        \* worker i: "unborn", "recv", "apply", "send", "done"
  held,       \* the job or result worker i holds
  results,    \* results[i]: what worker i has answered, closed once wpc[i] = "done"
  turn,       \* p.turn: the next lane the caller reads
  cpc,        \* the caller: "idle", "next", "loop", "recv", "eof", "over", "wait", "closed"
  stopped     \* Close has called p.cancel

dispatcherVars == <<seq, lane, dpc, djob>>
workerVars == <<wpc, held>>
laneVars == <<jobs, results>>
callerVars == <<turn, cpc, stopped, read, out, answer>>
envVars == <<stream, cancelled>>
vars == <<dispatcherVars, workerVars, laneVars, callerVars, envVars>>

(* A message of a lane: a pull and what became of it, "ctx" where it met   *)
(* the context's error.                                                    *)
Kinds == Pulls \union {"ctx"}
Message == [seq : Nat \ {0}, kind : Kinds]

(* job.err # nil, before an operator has seen the batch, and res.err # nil. *)
SourceFailed(m) == m.kind \in {"err", "quit", "ctx"}
Failed(m) == m.kind \in Errors \union {"ctx"}

NextLane(i) == IF i + 1 = N THEN 0 ELSE i + 1

(* ctx.Done() of the context the goroutines run under: derived from the    *)
(* caller's, and cancelled by Close.                                       *)
Done == cancelled \/ stopped

(* A send into a lane goes ahead while its channel has a free slot.        *)
HasRoom(q) == Len(q) < Depth

Nothing == [seq |-> 1, kind |-> "eof"]

PInit ==
  /\ Init
  /\ seq = 1
  /\ lane = 0
  /\ dpc = "unborn"
  /\ djob = Nothing
  /\ jobs = [i \in Lanes |-> <<>>]
  /\ wpc = [i \in Lanes |-> "unborn"]
  /\ held = [i \in Lanes |-> Nothing]
  /\ results = [i \in Lanes |-> <<>>]
  /\ turn = 0
  /\ cpc = "idle"
  /\ stopped = FALSE

-----------------------------------------------------------------------------
(* The dispatcher.                                                         *)

(* Pull(ctx, p.base): the source's next answer, or the context's error     *)
(* once it has ended.  The end of the input closes every lane.             *)
DispatcherPull ==
  /\ dpc = "pull"
  /\ \E k \in {stream[seq]} \union (IF Done THEN {"ctx"} ELSE {}) :
       IF k = "eof"
       THEN dpc' = "done" /\ UNCHANGED djob
       ELSE dpc' = "send" /\ djob' = [seq |-> seq, kind |-> k]
  /\ UNCHANGED <<seq, lane, workerVars, laneVars, callerVars, envVars>>

(* jobs[seq%p.n] <- job.  An error is handed out at its place in the       *)
(* order, a Goexit's by goexitGuard's report, and is the last job.         *)
DispatcherSend ==
  /\ dpc = "send"
  /\ HasRoom(jobs[lane])
  /\ jobs' = [jobs EXCEPT ![lane] = Append(@, djob)]
  /\ seq' = seq + 1
  /\ lane' = NextLane(lane)
  /\ dpc' = IF SourceFailed(djob) THEN "done" ELSE "pull"
  /\ UNCHANGED <<djob, results, workerVars, callerVars, envVars>>

(* A send into a lane gives up once the context has ended.                 *)
DispatcherStop ==
  /\ dpc = "send"
  /\ Done
  /\ dpc' = "done"
  /\ UNCHANGED <<seq, lane, djob, workerVars, laneVars, callerVars, envVars>>

Dispatcher == DispatcherPull \/ DispatcherSend \/ DispatcherStop

-----------------------------------------------------------------------------
(* A worker.                                                               *)

WorkerReceive(i) ==
  /\ wpc[i] = "recv"
  /\ jobs[i] # <<>>
  /\ held' = [held EXCEPT ![i] = Head(jobs[i])]
  /\ jobs' = [jobs EXCEPT ![i] = Tail(@)]
  /\ wpc' = [wpc EXCEPT ![i] = "apply"]
  /\ UNCHANGED <<results, dispatcherVars, callerVars, envVars>>

(* The range over jobs[i] ends: the lane is closed and empty.              *)
WorkerEnd(i) ==
  /\ wpc[i] = "recv"
  /\ jobs[i] = <<>>
  /\ dpc = "done"
  /\ wpc' = [wpc EXCEPT ![i] = "done"]
  /\ UNCHANGED <<held, laneVars, dispatcherVars, callerVars, envVars>>

(* p.apply: the chain of operators over the batch; a panic is caught and   *)
(* is the result's error, and an operator may answer the context's error   *)
(* once it has ended.  A job that is an error already is passed on.        *)
WorkerApply(i) ==
  /\ wpc[i] = "apply"
  /\ \/ UNCHANGED held
     \/ /\ Done
        /\ ~SourceFailed(held[i])
        /\ held' = [held EXCEPT ![i].kind = "ctx"]
  /\ wpc' = [wpc EXCEPT ![i] = "send"]
  /\ UNCHANGED <<laneVars, dispatcherVars, callerVars, envVars>>

(* p.results[i] <- res: every job gives one result, an empty one too, and  *)
(* a worker stops at its first error.                                      *)
WorkerSend(i) ==
  /\ wpc[i] = "send"
  /\ held[i].kind # "exit"
  /\ HasRoom(results[i])
  /\ results' = [results EXCEPT ![i] = Append(@, held[i])]
  /\ wpc' = [wpc EXCEPT ![i] = IF Failed(held[i]) THEN "done" ELSE "recv"]
  /\ UNCHANGED <<jobs, held, dispatcherVars, callerVars, envVars>>

(* Mutant of WorkerReport: the lane of a worker ended by Goexit closes with *)
(* nothing in the place of its rows (audit O14, before goexitGuard).       *)
WorkerReportLost(i) ==
  /\ wpc[i] = "send"
  /\ held[i].kind = "exit"
  /\ wpc' = [wpc EXCEPT ![i] = "done"]
  /\ UNCHANGED <<held, laneVars, dispatcherVars, callerVars, envVars>>

(* goexitGuard: a Goexit ends the worker, and its report takes the place   *)
(* of the rows before the worker's own defers close its lane.              *)
WorkerReport(i) ==
  /\ wpc[i] = "send"
  /\ held[i].kind = "exit"
  /\ HasRoom(results[i])
  /\ results' = [results EXCEPT ![i] = Append(@, held[i])]
  /\ wpc' = [wpc EXCEPT ![i] = "done"]
  /\ UNCHANGED <<jobs, held, dispatcherVars, callerVars, envVars>>

(* Mutant of WorkerStop: a blocked send does not hear ctx.Done().          *)
WorkerStopUnheard(i) == wpc[i] = "stopped" /\ UNCHANGED vars

(* A send that is blocked, or not, gives up once the context has ended.    *)
WorkerStop(i) ==
  /\ wpc[i] = "send"
  /\ Done
  /\ wpc' = [wpc EXCEPT ![i] = "done"]
  /\ UNCHANGED <<held, laneVars, dispatcherVars, callerVars, envVars>>

Worker(i) ==
  \/ WorkerReceive(i)
  \/ WorkerEnd(i)
  \/ WorkerApply(i)
  \/ WorkerSend(i)
  \/ WorkerReport(i)
  \/ WorkerStop(i)

-----------------------------------------------------------------------------
(* The caller: Next, pulled from in the loop of exec's drain, then Close.  *)

(* The head of drain's loop asks the context before it calls Next.         *)
Ask ==
  /\ cpc = "idle"
  /\ IF cancelled
     THEN cpc' = "over" /\ answer' = "ctx"
     ELSE cpc' = "next" /\ UNCHANGED answer
  /\ UNCHANGED <<turn, stopped, read, out, laneVars, dispatcherVars, workerVars, envVars>>

(* The head of Next's loop: launch, once, then the context again.          *)
Enter ==
  /\ cpc \in {"next", "loop"}
  /\ IF dpc = "unborn"
     THEN /\ dpc' = "pull"
          /\ wpc' = [i \in Lanes |-> "recv"]
     ELSE UNCHANGED <<dpc, wpc>>
  /\ IF cancelled
     THEN cpc' = "over" /\ answer' = "ctx"
     ELSE cpc' = "recv" /\ UNCHANGED answer
  /\ UNCHANGED <<seq, lane, djob, held, laneVars, turn, stopped, read, out, envVars>>

(* The result at the turn's lane: an error ends the stream, a batch that   *)
(* filtered away to nothing does not.                                      *)
Receive ==
  /\ cpc = "recv"
  /\ results[turn] # <<>>
  /\ LET m == Head(results[turn]) IN
       CASE m.kind = "rows"  -> /\ out' = Append(out, m.seq)
                                /\ cpc' = "idle"
                                /\ UNCHANGED answer
         [] m.kind = "empty" -> cpc' = "loop" /\ UNCHANGED <<out, answer>>
         [] m.kind = "ctx"   -> cpc' = "over" /\ answer' = "ctx" /\ UNCHANGED out
         [] OTHER            -> cpc' = "over" /\ answer' = "err" /\ UNCHANGED out
  /\ results' = [results EXCEPT ![turn] = Tail(@)]
  /\ turn' = NextLane(turn)
  /\ read' = read + 1
  /\ UNCHANGED <<jobs, stopped, dispatcherVars, workerVars, envVars>>

(* The turn's lane is closed and empty: the end of the stream, unless the  *)
(* query was cancelled, which closes the lanes too.                        *)
ReceiveClosed ==
  /\ cpc = "recv"
  /\ results[turn] = <<>>
  /\ wpc[turn] = "done"
  /\ turn' = NextLane(turn)
  /\ IF cancelled
     THEN cpc' = "over" /\ answer' = "ctx"
     ELSE cpc' = "eof" /\ UNCHANGED answer
  /\ UNCHANGED <<stopped, read, out, laneVars, dispatcherVars, workerVars, envVars>>

(* Mutant of TakeEnd: the end of the stream is the answer (before step 394). *)
TakeEndUnasked ==
  /\ cpc = "eof"
  /\ cpc' = "over"
  /\ answer' = "eof"
  /\ UNCHANGED <<turn, stopped, read, out, laneVars, dispatcherVars, workerVars, envVars>>

(* drain asks the context again before it takes the end for an answer.     *)
TakeEnd ==
  /\ cpc = "eof"
  /\ cpc' = "over"
  /\ answer' = IF cancelled THEN "ctx" ELSE "eof"
  /\ UNCHANGED <<turn, stopped, read, out, laneVars, dispatcherVars, workerVars, envVars>>

(* Close cancels, once the stream ended or the caller broke out of its     *)
(* loop after a batch: the consumer's break, or the result over its limit. *)
Close ==
  /\ cpc = "over" \/ (cpc = "idle" /\ out # <<>>)
  /\ cpc' = "wait"
  /\ stopped' = (dpc # "unborn")
  /\ UNCHANGED <<turn, read, out, answer, laneVars, dispatcherVars, workerVars, envVars>>

(* Then it waits for every goroutine, and closes the source beneath.       *)
CloseBase ==
  /\ cpc = "wait"
  /\ dpc \in {"unborn", "done"}
  /\ \A i \in Lanes : wpc[i] \in {"unborn", "done"}
  /\ cpc' = "closed"
  /\ UNCHANGED <<turn, stopped, read, out, answer, laneVars, dispatcherVars, workerVars, envVars>>

Caller == Ask \/ Enter \/ Receive \/ ReceiveClosed \/ TakeEnd \/ Close \/ CloseBase

PCancel ==
  /\ ~cancelled
  /\ cancelled' = TRUE
  /\ UNCHANGED <<stream, callerVars, laneVars, dispatcherVars, workerVars>>

PNext == Dispatcher \/ (\E i \in Lanes : Worker(i)) \/ Caller \/ PCancel

(* Each goroutine runs on, and exec's drain calls Next until it ends; only *)
(* the caller's context and a break out of the loop are left to chance.    *)
Fairness ==
  /\ WF_vars(Dispatcher)
  /\ \A i \in Lanes : WF_vars(Worker(i))
  /\ WF_vars(Ask \/ Enter \/ Receive \/ ReceiveClosed \/ TakeEnd \/ CloseBase)
  /\ WF_vars(cpc = "over" /\ Close)

PSafe == PInit /\ [][PNext]_vars
PSpec == PSafe /\ Fairness

-----------------------------------------------------------------------------
(* What holds of it.                                                       *)

(* Every variable has its type, and no lane holds more than its channel's  *)
(* capacity.                                                               *)
TypeOK ==
  /\ stream \in Streams
  /\ cancelled \in BOOLEAN
  /\ read \in Nat
  /\ out \in Seq(Nat)
  /\ answer \in {"none", "eof", "err", "ctx"}
  /\ seq \in Nat \ {0}
  /\ lane \in Lanes
  /\ dpc \in {"unborn", "pull", "send", "done"}
  /\ djob \in Message
  /\ jobs \in [Lanes -> Seq(Message)]
  /\ results \in [Lanes -> Seq(Message)]
  /\ \A i \in Lanes : Len(jobs[i]) <= Depth /\ Len(results[i]) <= Depth
  /\ wpc \in [Lanes -> {"unborn", "recv", "apply", "send", "done"}]
  /\ held \in [Lanes -> Message]
  /\ turn \in Lanes
  /\ cpc \in {"idle", "next", "loop", "recv", "eof", "over", "wait", "closed"}
  /\ stopped \in BOOLEAN

(* Round-robin reading is round-robin dispatch undone: whatever the workers' *)
(* speeds, what waits at the lane whose turn it is answers the first pull    *)
(* the caller has not had.                                                   *)
HeadIsNext ==
  cpc \in {"idle", "next", "loop", "recv"} /\ results[turn] # <<>>
    => Head(results[turn]).seq = read + 1

(* "Once the lane whose turn it is has closed, every later lane in this      *)
(* round has too": when a closed lane is taken for the end of an uncancelled *)
(* stream, no lane has anything left and no worker will give another result. *)
NothingLeftBehind ==
  cpc = "eof" /\ ~cancelled =>
    \A i \in Lanes : jobs[i] = <<>> /\ results[i] = <<>> /\ wpc[i] \in {"recv", "done"}

(* The pool gives the answers of the serial pipeline in the order of the     *)
(* input: every row, every error at its place, the end only where the input  *)
(* ends, and the cancellation before the end.                                *)
ImplementsOrder == Spec

(* Whatever is cancelled, fails, or is left by a consumer that breaks out,   *)
(* every goroutine ends and Close returns.                                   *)
AllEnd == <>(cpc = "closed")
=============================================================================
