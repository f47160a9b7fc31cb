----------------------------- MODULE ParProbe -----------------------------
(***************************************************************************)
(* parProbeOp: the probe side of a join, across N workers, in input order  *)
(* (internal/physical/parjoin.go).                                         *)
(*                                                                         *)
(* A probe batch gives none, one or many batches of rows, where a batch of *)
(* ParallelOp gives exactly one.  A worker says in its lane that a batch   *)
(* is finished, and only there does the consumer move to the next lane.    *)
(*                                                                         *)
(* A probe batch is what its probing gives: <<"empty">> no row at all,     *)
(* else batches of "rows", the last answer of which may be "fail", an      *)
(* error or a panic of the probing, or "exit", a Goexit.                   *)
(***************************************************************************)
EXTENDS Integers, Sequences, SequencesExt, FiniteSetsExt

CONSTANTS
  Probes,   \* the probe sides considered: batches and how the child ends
  N,        \* the workers
  Depth     \* parQueueDepth: the slots of a channel

ASSUME ProbeAssumption == N \in Nat \ {0} /\ Depth \in Nat \ {0}

(* What probing a batch may give.                                          *)
FanOut(b) ==
  \/ b = <<"empty">>
  \/ /\ b \in Seq({"rows", "fail", "exit"}) /\ Len(b) > 0
     /\ \A i \in 1..(Len(b) - 1) : b[i] = "rows"

ASSUME ProbesAssumption ==
  \A p \in Probes : /\ p.batches \in Seq(Seq({"empty", "rows", "fail", "exit"}))
                    /\ \A k \in 1..Len(p.batches) : FanOut(p.batches[k])
                    /\ p.end \in {"eof", "err", "quit"}

Workers == 0..N-1

VARIABLES
  probe,      \* the probe child's answers
  cancelled,  \* the caller's context has ended
  stopped,    \* Close has cancelled the goroutines' context
  seq,        \* the next answer the dispatcher pulls
  dpc,        \* the dispatcher
  jobs,       \* the dispatcher's channel to each worker
  wpc, todo,  \* each worker, and what it has yet to send of its job
  results,    \* the lane of each worker
  turn,       \* the lane whose turn it is
  cpc,        \* the consumer
  out,        \* the places in StreamOf(probe) of the rows it was given
  finished,   \* how many probe batches it has seen the end of
  answer      \* how the stream ended for it, "none" while it has not

dispatcherVars == <<seq, dpc>>
workerVars     == <<wpc, todo>>
callerVars     == <<turn, cpc, out, finished, answer, stopped>>
vars == <<probe, cancelled, dispatcherVars, jobs, workerVars, results, callerVars>>

Batches == probe.batches

(* What a join run serially gives, pull by pull, and where the k first     *)
(* batches end in it.                                                      *)
StreamOf(p) == FlattenSeq(p.batches) \o <<p.end>>
Offset(k)   == Len(FlattenSeq(SubSeq(Batches, 1, k)))

Done == cancelled \/ stopped
HasRoom(q) == Len(q) < Depth

(* What a lane is told of the k-th answer: the batches of rows in order,   *)
(* then the terminator, except after an error.                             *)
Told(k) ==
  IF k > Len(Batches) THEN <<probe.end>>
  ELSE LET b == Batches[k] IN
       CASE b = <<"empty">>            -> <<"last">>
         [] Last(b) \in {"fail", "exit"} -> b
         [] OTHER                      -> Append(b, "last")

(* Its messages, numbered here by the answer they are of and their place   *)
(* in it, so that the order can be stated; the code numbers nothing.       *)
Messages(k) ==
  [i \in 1..Len(Told(k)) |-> [kind |-> Told(k)[i], of |-> k, no |-> i]]

(* Where a batch of rows stands in what a join run serially gives.         *)
Place(m) == Offset(m.of - 1) + m.no

Init ==
  /\ probe \in Probes
  /\ cancelled = FALSE /\ stopped = FALSE
  /\ seq = 1 /\ dpc = "unborn"
  /\ jobs = [i \in Workers |-> <<>>]
  /\ wpc = [i \in Workers |-> "unborn"]
  /\ todo = [i \in Workers |-> <<>>]
  /\ results = [i \in Workers |-> <<>>]
  /\ turn = 0 /\ cpc = "idle"
  /\ out = <<>> /\ finished = 0 /\ answer = "none"

-----------------------------------------------------------------------------
(* The dispatcher: batch k to worker k % N; an error, or a Goexit's report *)
(* by goexitGuard, at its place in the order and as the last job.          *)

DispatchEnd ==
  /\ dpc = "pull"
  /\ seq > Len(Batches) /\ probe.end = "eof"
  /\ dpc' = "done"
  /\ UNCHANGED <<probe, cancelled, seq, jobs, workerVars, results, callerVars>>

Dispatch ==
  /\ dpc = "pull"
  /\ seq <= Len(Batches) \/ probe.end # "eof"
  /\ LET w == (seq - 1) % N IN
       /\ HasRoom(jobs[w])
       /\ jobs' = [jobs EXCEPT ![w] = Append(@, Messages(seq))]
  /\ seq' = seq + 1
  /\ dpc' = IF seq > Len(Batches) THEN "done" ELSE "pull"
  /\ UNCHANGED <<probe, cancelled, workerVars, results, callerVars>>

(* A pull under an ended context may answer the context's error, and a     *)
(* send under one gives up.                                                *)
DispatchCancelled ==
  /\ dpc = "pull" /\ Done
  /\ dpc' = "done"
  /\ LET w == (seq - 1) % N IN
       \/ UNCHANGED jobs
       \/ /\ HasRoom(jobs[w])
          /\ jobs' = [jobs EXCEPT ![w] = Append(@, <<[kind |-> "ctx", of |-> seq, no |-> 1]>>)]
  /\ UNCHANGED <<probe, cancelled, seq, workerVars, results, callerVars>>

Dispatcher == DispatchEnd \/ Dispatch \/ DispatchCancelled

-----------------------------------------------------------------------------
(* A worker: runJob, one step of the probing at a time.                    *)

Receive(i) ==
  /\ wpc[i] = "recv" /\ jobs[i] # <<>>
  /\ todo' = [todo EXCEPT ![i] = Head(jobs[i])]
  /\ jobs' = [jobs EXCEPT ![i] = Tail(@)]
  /\ wpc' = [wpc EXCEPT ![i] = "send"]
  /\ UNCHANGED <<probe, cancelled, dispatcherVars, results, callerVars>>

(* The rows of a step, the terminator, or the error the worker stops at.   *)
Send(i) ==
  /\ wpc[i] = "send" /\ HasRoom(results[i])
  /\ LET m == Head(todo[i]) IN
       /\ results' = [results EXCEPT ![i] = Append(@, m)]
       /\ todo' = [todo EXCEPT ![i] = Tail(@)]
       /\ wpc' = [wpc EXCEPT ![i] = CASE m.kind = "rows" -> "send"
                                      [] m.kind = "last" -> "recv"
                                      [] OTHER           -> "done"]
  /\ UNCHANGED <<probe, cancelled, dispatcherVars, jobs, callerVars>>

(* Mutant of SendCancelled: a send into a full lane does not hear ctx.Done.*)
SendUnheard(i) ==
  /\ wpc[i] = "send" /\ Done /\ HasRoom(results[i])
  /\ wpc' = [wpc EXCEPT ![i] = "done"]
  /\ todo' = [todo EXCEPT ![i] = <<>>]
  /\ UNCHANGED <<probe, cancelled, dispatcherVars, jobs, results, callerVars>>

(* The context has ended: the loop or a blocked send gives up in silence,  *)
(* or the probing itself answers the context's error.                      *)
SendCancelled(i) ==
  /\ wpc[i] = "send" /\ Done
  /\ wpc' = [wpc EXCEPT ![i] = "done"]
  /\ todo' = [todo EXCEPT ![i] = <<>>]
  /\ \/ UNCHANGED results
     \/ /\ HasRoom(results[i])
        /\ results' = [results EXCEPT ![i] = Append(@, [Head(todo[i]) EXCEPT !.kind = "ctx"])]
  /\ UNCHANGED <<probe, cancelled, dispatcherVars, jobs, callerVars>>

(* The dispatcher has closed the jobs: the worker closes its lane.         *)
NoMoreJobs(i) ==
  /\ wpc[i] = "recv" /\ jobs[i] = <<>> /\ dpc = "done"
  /\ wpc' = [wpc EXCEPT ![i] = "done"]
  /\ UNCHANGED <<probe, cancelled, dispatcherVars, jobs, todo, results, callerVars>>

Worker(i) == Receive(i) \/ Send(i) \/ SendCancelled(i) \/ NoMoreJobs(i)

-----------------------------------------------------------------------------
(* The consumer: Next in a loop, then Close.                               *)

(* Next: launch, once, and ask the context before a lane is drained.       *)
Ask ==
  /\ cpc \in {"idle", "loop"}
  /\ IF dpc = "unborn"
     THEN dpc' = "pull" /\ wpc' = [i \in Workers |-> "recv"]
     ELSE UNCHANGED <<dpc, wpc>>
  /\ IF cancelled
     THEN cpc' = "over" /\ answer' = "ctx"
     ELSE cpc' = "recv" /\ UNCHANGED answer
  /\ UNCHANGED <<probe, cancelled, seq, jobs, todo, results, turn, out, finished, stopped>>

Taken == results' = [results EXCEPT ![turn] = Tail(@)]

(* Mutant of TakeRows: the turn moves on at a batch's first result.        *)
TakeRowsTurning ==
  /\ cpc = "recv" /\ results[turn] # <<>>
  /\ Head(results[turn]).kind = "rows"
  /\ Taken
  /\ out' = Append(out, Place(Head(results[turn])))
  /\ turn' = (turn + 1) % N
  /\ cpc' = "idle"
  /\ UNCHANGED <<probe, cancelled, dispatcherVars, jobs, workerVars, finished, answer, stopped>>

TakeRows ==
  /\ cpc = "recv" /\ results[turn] # <<>>
  /\ Head(results[turn]).kind = "rows"
  /\ Taken
  /\ out' = Append(out, Place(Head(results[turn])))
  /\ cpc' = "idle"
  /\ UNCHANGED <<probe, cancelled, dispatcherVars, jobs, workerVars, turn, finished,
                 answer, stopped>>

(* The terminator: the next batch is the next lane's.                      *)
TakeLast ==
  /\ cpc = "recv" /\ results[turn] # <<>>
  /\ Head(results[turn]).kind = "last"
  /\ Taken
  /\ turn' = (turn + 1) % N
  /\ finished' = finished + 1
  /\ cpc' = "loop"
  /\ UNCHANGED <<probe, cancelled, dispatcherVars, jobs, workerVars, out, answer, stopped>>

TakeError ==
  /\ cpc = "recv" /\ results[turn] # <<>>
  /\ Head(results[turn]).kind \notin {"rows", "last"}
  /\ Taken
  /\ answer' = IF Head(results[turn]).kind = "ctx" THEN "ctx" ELSE "err"
  /\ cpc' = "over"
  /\ UNCHANGED <<probe, cancelled, dispatcherVars, jobs, workerVars, turn, out, finished,
                 stopped>>

(* The lane whose turn it is has closed: the end, unless by cancellation.  *)
TakeClosed ==
  /\ cpc = "recv" /\ results[turn] = <<>> /\ wpc[turn] = "done"
  /\ answer' = IF cancelled THEN "ctx" ELSE "eof"
  /\ cpc' = "over"
  /\ UNCHANGED <<probe, cancelled, dispatcherVars, jobs, workerVars, results, turn, out,
                 finished, stopped>>

(* Close cancels: at the end, or as the caller breaks out of its loop.     *)
Close ==
  /\ cpc = "over" \/ (cpc = "idle" /\ out # <<>>)
  /\ cpc' = "wait"
  /\ stopped' = (dpc # "unborn")
  /\ UNCHANGED <<probe, cancelled, dispatcherVars, jobs, workerVars, results, turn, out,
                 finished, answer>>

Waited ==
  /\ cpc = "wait"
  /\ dpc \in {"unborn", "done"}
  /\ \A i \in Workers : wpc[i] \in {"unborn", "done"}
  /\ cpc' = "closed"
  /\ UNCHANGED <<probe, cancelled, dispatcherVars, jobs, workerVars, results, turn, out,
                 finished, answer, stopped>>

Consumer == Ask \/ TakeRows \/ TakeLast \/ TakeError \/ TakeClosed \/ Close \/ Waited

Cancel ==
  /\ ~cancelled
  /\ cancelled' = TRUE
  /\ UNCHANGED <<probe, dispatcherVars, jobs, workerVars, results, callerVars>>

Next == Dispatcher \/ (\E i \in Workers : Worker(i)) \/ Consumer \/ Cancel

(* The goroutines run on, and the consumer asks until the stream is over;  *)
(* whether it breaks out, or its context ends, is left to chance.          *)
Fairness ==
  /\ WF_vars(Dispatcher)
  /\ \A i \in Workers : WF_vars(Worker(i))
  /\ WF_vars(Ask \/ TakeRows \/ TakeLast \/ TakeError \/ TakeClosed \/ Waited)
  /\ WF_vars(cpc = "over" /\ Close)

Safe == Init /\ [][Next]_vars
Spec == Safe /\ Fairness
-----------------------------------------------------------------------------

(* How far into the stream the consumer is: all of the batches it saw the end  *)
(* of, and the rows it has of the one it is in.                            *)
Read == Max({Offset(finished)} \union ToSet(out)) + (IF answer = "err" THEN 1 ELSE 0)

Serial == INSTANCE OrderedStream WITH
            Streams <- {StreamOf(p) : p \in Probes},
            stream <- StreamOf(probe), read <- Read

(* However many batches each probe batch gives, and whichever worker is    *)
(* fast, the consumer is given what the join run serially gives: the same  *)
(* batches in the same order, an error only after every batch before it,   *)
(* the end only after all of them.                                         *)
ImplementsSerial == Serial!Spec

(* The consumer's loop ends and Close returns with no goroutine left,      *)
(* however the probe side, the context and the caller behave.              *)
CloseReturns == cpc = "over" \/ cpc = "wait" ~> cpc = "closed"
StreamEnds   == <>(cpc \in {"over", "wait", "closed"})
ProbeEnds    == StreamEnds /\ CloseReturns
=============================================================================
