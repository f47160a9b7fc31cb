---------------------------- MODULE ParallelSink ----------------------------
(***************************************************************************)
(* A pipeline breaker on several workers: parallelSink.drain               *)
(* (internal/physical/parallelsink.go), with hashAggSink's Consume as far  *)
(* as the driver sees it, and the driver above it (internal/exec).         *)
(*                                                                         *)
(* The goroutine that pulls the answer deals the child's batches, waits    *)
(* for the workers and folds their sinks.  A batch is its number in the    *)
(* child's order.  A worker's fail (note the error, raise failed, cancel)  *)
(* is one step: nothing reads the errors until every worker has ended, and *)
(* a worker that sees failed late is one that looked before.               *)
(***************************************************************************)
EXTENDS Integers, Sequences, SequencesExt

CONSTANTS
  N,          \* workers: len(sinks)
  Depth,      \* parQueueDepth
  MaxBatches, \* bound: the most batches the child has
  Faults      \* bound: the ways a call below may fail, of AllFaults

AllFaults == {"error", "panic", "exit"}

ASSUME SinkAssumption ==
  /\ N \in Nat \ {0} /\ Depth \in Nat \ {0} /\ MaxBatches \in Nat
  /\ Faults \subseteq AllFaults

Workers == 0..N-1

VARIABLES
  batches,    \* how many batches the child has
  pulled,     \* how many it has given
  jobs,       \* the lanes, one a worker
  closed,     \* whether they are closed
  worker,     \* "idle", "consume" or "ended"
  batch,      \* the batch each worker consumes
  sinks,      \* what each sink holds, in the order it was given it
  bad,        \* history: the workers whose sink failed in Consume
  failed, serial, \* the two atomics
  errs,       \* the errors noted
  parent,     \* whether the caller's context has ended
  cancelled,  \* whether the one derived from it has
  pc,         \* where drain is
  folded,     \* how many sinks are folded
  dispatchErr,\* what stopped the dispatcher: "none", "ctx" or a fault
  out,        \* the answer's batches
  returned    \* what the driver was told

lanes    == <<jobs, closed>>
crew     == <<worker, batch, sinks, bad>>
flags    == <<failed, serial, errs>>
contexts == <<parent, cancelled>>
fold     == <<folded, out, returned>>
vars == <<batches, pulled, lanes, crew, flags, contexts, pc, fold, dispatchErr>>

Init ==
  /\ batches \in 0..MaxBatches
  /\ pulled = 0
  /\ jobs = [w \in Workers |-> <<>>]
  /\ closed = FALSE
  /\ worker = [w \in Workers |-> "idle"]
  /\ batch = [w \in Workers |-> 0]
  /\ sinks = [w \in Workers |-> <<>>]
  /\ bad = {}
  /\ failed = FALSE /\ serial = FALSE /\ errs = {}
  /\ parent = FALSE /\ cancelled = FALSE
  /\ pc = "pull"
  /\ folded = 0
  /\ dispatchErr = "none"
  /\ out = <<>>
  /\ returned = "none"

-----------------------------------------------------------------------------
(* The caller.                                                             *)

ParentEnds ==
  /\ ~parent
  /\ parent' = TRUE
  /\ cancelled' = TRUE
  /\ UNCHANGED <<batches, pulled, lanes, crew, flags, pc, fold, dispatchErr>>

-----------------------------------------------------------------------------
(* The dispatcher.  The child may see its context ended and say so, or end *)
(* its stream for it, as a parallel operator below does; or not see it.    *)

Stop(why) == pc' = "close" /\ dispatchErr' = why

PullBatch ==
  /\ pc = "pull" /\ ~serial
  /\ pulled < batches
  /\ pulled' = pulled + 1
  /\ pc' = "send"
  /\ UNCHANGED <<batches, lanes, crew, flags, contexts, fold, dispatchErr>>

PullStops ==
  /\ pc = "pull"
  /\ \/ serial /\ Stop("none")
     \/ ~serial /\ (pulled = batches \/ cancelled) /\ Stop("none")
     \/ ~serial /\ cancelled /\ Stop("ctx")
     \/ ~serial /\ \E f \in Faults \ {"exit"} : Stop(f)
  /\ UNCHANGED <<batches, pulled, lanes, crew, flags, contexts, fold>>

(* A Goexit in a call of drain's own takes its goroutine with it: what is   *)
(* deferred cancels, and where the lanes are open no one closes them.      *)
DrainExits ==
  /\ pc \in {"pull", "fold", "rest", "finish"} /\ "exit" \in Faults
  /\ pc = "pull" => ~serial
  /\ pc' = "gone"
  /\ cancelled' = TRUE
  /\ UNCHANGED <<batches, pulled, lanes, crew, flags, parent, fold, dispatchErr>>

Lane(b) == (b - 1) % N

(* Mutant of Send: a batch goes to any lane that has room.                 *)
SendAnywhere ==
  /\ pc = "send"
  /\ \E w \in Workers : Len(jobs[w]) < Depth /\ jobs' = [jobs EXCEPT ![w] = Append(@, pulled)]
  /\ pc' = "pull"
  /\ UNCHANGED <<batches, pulled, closed, crew, flags, contexts, fold, dispatchErr>>

Send ==
  /\ pc = "send"
  /\ Len(jobs[Lane(pulled)]) < Depth
  /\ jobs' = [jobs EXCEPT ![Lane(pulled)] = Append(@, pulled)]
  /\ pc' = "pull"
  /\ UNCHANGED <<batches, pulled, closed, crew, flags, contexts, fold, dispatchErr>>

(* Mutant of SendCancelled: a full lane is waited on, whatever happens.    *)
SendCancelledNever == FALSE /\ UNCHANGED vars

SendCancelled ==
  /\ pc = "send" /\ cancelled
  /\ Stop("ctx")
  /\ UNCHANGED <<batches, pulled, lanes, crew, flags, contexts, fold>>

CloseLanes ==
  /\ pc = "close"
  /\ closed' = TRUE
  /\ pc' = "wait"
  /\ UNCHANGED <<batches, pulled, jobs, crew, flags, contexts, fold, dispatchErr>>

-----------------------------------------------------------------------------
(* A worker.                                                               *)

(* A worker takes a batch from its lane and drops it once one has failed.  *)
WorkerTakes(w) ==
  /\ worker[w] = "idle" /\ jobs[w] # <<>>
  /\ jobs' = [jobs EXCEPT ![w] = Tail(@)]
  /\ IF failed
     THEN UNCHANGED <<worker, batch>>
     ELSE /\ worker' = [worker EXCEPT ![w] = "consume"]
          /\ batch' = [batch EXCEPT ![w] = Head(jobs[w])]
  /\ UNCHANGED <<batches, pulled, closed, sinks, bad, flags, contexts, pc, fold, dispatchErr>>

(* Mutant of WorkerConsumes: the batch that asks for serial is not taken.  *)
WorkerConsumesLess(w) ==
  /\ worker[w] = "consume"
  /\ serial' \in {serial, TRUE}
  /\ sinks' = [sinks EXCEPT ![w] = IF serial' = serial THEN Append(@, batch[w]) ELSE @]
  /\ worker' = [worker EXCEPT ![w] = "idle"]
  /\ batch' = [batch EXCEPT ![w] = 0]
  /\ UNCHANGED <<batches, pulled, lanes, bad, failed, errs, contexts, pc, fold, dispatchErr>>

(* Consume answers, or asks for serial with the batch consumed.            *)
WorkerConsumes(w) ==
  /\ worker[w] = "consume"
  /\ sinks' = [sinks EXCEPT ![w] = Append(@, batch[w])]
  /\ worker' = [worker EXCEPT ![w] = "idle"]
  /\ batch' = [batch EXCEPT ![w] = 0]
  /\ serial' \in {serial, TRUE}
  /\ UNCHANGED <<batches, pulled, lanes, bad, failed, errs, contexts, pc, fold, dispatchErr>>

(* It fails: with an error of its own, the context's where that has ended, *)
(* a panic, or by ending the goroutine, which leaves its lane to no one.   *)
WorkerFails(w, f) ==
  /\ worker[w] = "consume"
  /\ f = "ctx" => cancelled
  /\ worker' = [worker EXCEPT ![w] = IF f = "exit" THEN "ended" ELSE "idle"]
  /\ batch' = [batch EXCEPT ![w] = 0]
  /\ bad' = bad \union {w}
  /\ errs' = errs \union {f}
  /\ failed' = TRUE
  /\ cancelled' = TRUE
  /\ UNCHANGED <<batches, pulled, lanes, sinks, serial, parent, pc, fold, dispatchErr>>

WorkerEnds(w) ==
  /\ worker[w] = "idle" /\ jobs[w] = <<>> /\ closed
  /\ worker' = [worker EXCEPT ![w] = "ended"]
  /\ UNCHANGED <<batches, pulled, lanes, batch, sinks, bad, flags, contexts, pc, fold, dispatchErr>>

-----------------------------------------------------------------------------
(* After the workers.                                                      *)

Fail(es) == pc' = "done" /\ returned' = "error" /\ errs' = es

(* Every worker has ended.  The dispatcher's error is noted but where it   *)
(* is the echo of a worker's; and with none, the caller's end is one.      *)
Judge ==
  /\ pc = "wait" /\ \A w \in Workers : worker[w] = "ended"
  /\ LET echo == errs # {} /\ dispatchErr = "ctx" /\ ~parent
         all  == IF dispatchErr = "none" \/ echo THEN errs ELSE errs \union {dispatchErr}
     IN CASE all # {}         -> Fail(all) /\ UNCHANGED folded
          [] all = {} /\ parent -> Fail({"ctx"}) /\ UNCHANGED folded
          [] OTHER            -> pc' = "fold" /\ folded' = 1 /\ UNCHANGED <<returned, errs>>
  /\ UNCHANGED <<batches, pulled, lanes, crew, failed, serial, contexts, out, dispatchErr>>

(* The sinks' contents, in worker order.                                   *)
InWorkerOrder == FlattenSeq([i \in 1..N |-> sinks[i - 1]])

(* The partitioned fold, where it applies: every sink at once.             *)
FoldPartitioned ==
  /\ pc = "fold" /\ ~serial /\ folded = 1
  /\ out' = InWorkerOrder
  /\ pc' = "answer"
  /\ UNCHANGED <<batches, pulled, lanes, crew, flags, contexts, folded, returned, dispatchErr>>

(* The serial fold: one sink merged into the first, and its state dropped. *)
FoldOne ==
  /\ pc = "fold" /\ folded < N
  /\ sinks' = [sinks EXCEPT ![0] = @ \o sinks[folded], ![folded] = <<>>]
  /\ folded' = folded + 1
  /\ UNCHANGED <<batches, pulled, lanes, worker, batch, bad, flags, contexts, pc, out, returned, dispatchErr>>

FoldEnds ==
  /\ pc = "fold" /\ folded = N
  /\ pc' = IF serial THEN "rest" ELSE "finish"
  /\ UNCHANGED <<batches, pulled, lanes, crew, flags, contexts, fold, dispatchErr>>

(* The rest of the input, into the one sink.                               *)
RestBatch ==
  /\ pc = "rest" /\ pulled < batches
  /\ pulled' = pulled + 1
  /\ sinks' = [sinks EXCEPT ![0] = Append(@, pulled')]
  /\ UNCHANGED <<batches, lanes, worker, batch, bad, flags, contexts, pc, fold, dispatchErr>>

RestEnds ==
  /\ pc = "rest" /\ (pulled = batches \/ cancelled)
  /\ pc' = "finish"
  /\ UNCHANGED <<batches, pulled, lanes, crew, flags, contexts, fold, dispatchErr>>

Finish ==
  /\ pc = "finish"
  /\ out' = sinks[0]
  /\ pc' = "answer"
  /\ UNCHANGED <<batches, pulled, lanes, crew, flags, contexts, folded, returned, dispatchErr>>

(* Any of these may fail, and what sees the context ended may say so.      *)
FoldFails ==
  /\ pc \in {"fold", "rest", "finish"}
  /\ \/ \E f \in Faults \ {"exit"} : Fail({f})
     \/ cancelled /\ Fail({"ctx"})
  /\ UNCHANGED <<batches, pulled, lanes, crew, failed, serial, contexts, folded, out, dispatchErr>>

(* The driver pulls the answer to its end, and asks its context then.      *)
Answer ==
  /\ pc = "answer"
  /\ pc' = "done"
  /\ returned' = IF parent THEN "error" ELSE "answer"
  /\ errs' = IF parent THEN {"ctx"} ELSE errs
  /\ UNCHANGED <<batches, pulled, lanes, crew, failed, serial, contexts, folded, out, dispatchErr>>

-----------------------------------------------------------------------------

Work(w) ==
  \/ WorkerTakes(w) \/ WorkerConsumes(w) \/ WorkerEnds(w)
  \/ \E f \in Faults \union {"ctx"} : WorkerFails(w, f)

Drain ==
  \/ PullBatch \/ PullStops \/ Send \/ SendCancelled \/ CloseLanes \/ Judge
  \/ FoldPartitioned \/ FoldOne \/ FoldEnds \/ RestBatch \/ RestEnds
  \/ Finish \/ FoldFails \/ DrainExits \/ Answer

Next == ParentEnds \/ Drain \/ \E w \in Workers : Work(w)

Safe == Init /\ [][Next]_vars

(* Every goroutine goes on: the child's reads and the sinks' calls return. *)
Spec == Safe /\ WF_vars(Drain) /\ \A w \in Workers : WF_vars(Work(w))

-----------------------------------------------------------------------------
(* What holds of it.                                                       *)

(* An answer is of every batch of the child's, each consumed once, however *)
(* the workers shared them and whenever one asked for serial: a fault, or  *)
(* a cancellation read as the end of the input, is never answered over:    *)
(* the answer is of no sink that failed.                                   *)
AnswerIsWhole ==
  returned = "answer" =>
    /\ Len(out) = batches
    /\ ToSet(out) = 1..batches
    /\ bad = {} /\ errs = {} /\ dispatchErr = "none"

(* A given input comes out in the same order every run, on a number of     *)
(* workers that reach no budget: theirs in turn, each in the child's.      *)
Dealt(w, n) == [k \in 1..((n + N - 1 - w) \div N) |-> (k - 1) * N + w + 1]
DealtOut == FlattenSeq([i \in 1..N |-> Dealt(i - 1, batches)])
SameEveryRun == returned = "answer" /\ ~serial => out = DealtOut

(* drain ends, or its goroutine does, whoever failed or stopped draining a *)
(* full lane.                                                              *)
DrainEnds == <>(pc \in {"done", "gone"})

=============================================================================
