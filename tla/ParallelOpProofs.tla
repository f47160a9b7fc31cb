-------------------------- MODULE ParallelOpProofs --------------------------
(***************************************************************************)
(* Proofs about ParallelOp for any number of workers, any depth of lane    *)
(* and any set of input streams: its types and the bounds of its lanes,    *)
(* and that it gives the answers of the input in the order of the input    *)
(* (the abstract specification OrderedStream).                             *)
(***************************************************************************)
EXTENDS ParallelOp, SequenceTheorems, TLAPS

-----------------------------------------------------------------------------
(* The inductive invariant.                                                *)

(* The caller has not met the end of the stream, nor left it.              *)
Reading == cpc \in {"idle", "next", "loop", "recv"}

(* The pull lane i's next result, and its next job, must be: the rounds of *)
(* the reader and of the dispatcher start at turn and at lane.             *)
Expected(i) == IF i >= turn THEN read + 1 + (i - turn) ELSE read + 1 + (N - turn) + i
NextSeq(i)  == IF i >= lane THEN seq + (i - lane) ELSE seq + (N - lane) + i

(* q holds the messages of a lane from pull d on, and what follows them.   *)
Run(q, d) ==
  /\ q # <<>> => q[1].seq = d
  /\ \A k \in 1..(Len(q) - 1) : q[k + 1].seq = q[k].seq + N
After(q, d) == IF q = <<>> THEN d ELSE q[Len(q)].seq + N

Holding(i) == wpc[i] \in {"apply", "send"}
AfterHeld(i) ==
  IF Holding(i) THEN held[i].seq + N ELSE After(results[i], Expected(i))

(* Every lane is in step from the reader's turn to the dispatcher's.       *)
LaneInStep(i) ==
  /\ Run(results[i], Expected(i))
  /\ Holding(i) => held[i].seq = After(results[i], Expected(i))
  /\ wpc[i] # "done" => /\ Run(jobs[i], AfterHeld(i))
                        /\ After(jobs[i], AfterHeld(i)) = NextSeq(i)

(* A worker that ended left an error at the end of its lane, or had no     *)
(* more jobs to come.                                                      *)
EndExplained(i) ==
  wpc[i] = "done" =>
    \/ /\ results[i] # <<>>
       /\ Failed(results[i][Len(results[i])])
    \/ /\ dpc = "done"
       /\ jobs[i] = <<>>
       /\ After(results[i], Expected(i)) = NextSeq(i)

(* A message says what its pull was, or that the context ended.            *)
Genuine(m) ==
  /\ m.seq \in 1..Len(stream)
  /\ m.kind # "eof"
  /\ m.kind = stream[m.seq] \/ (m.kind = "ctx" /\ Done)

AllGenuine ==
  /\ \A i \in Lanes :
       /\ \A k \in 1..Len(jobs[i]) : Genuine(jobs[i][k]) /\ jobs[i][k].seq < seq
       /\ \A k \in 1..Len(results[i]) : Genuine(results[i][k]) /\ results[i][k].seq < seq
       /\ Holding(i) => Genuine(held[i]) /\ held[i].seq < seq
  /\ dpc = "send" => Genuine(djob) /\ djob.seq = seq

(* How far the dispatcher may go, and what made it stop.                   *)
DispatcherInStep ==
  /\ dpc \in {"unborn", "pull"} => seq \in 1..Len(stream)
  /\ dpc = "done" /\ ~Done =>
       \/ seq \in 1..Len(stream) /\ stream[seq] = "eof"
       \/ seq - 1 \in 1..Len(stream) /\ stream[seq - 1] \in {"err", "quit"}

(* The goroutines are started together by the first call of Next, and the  *)
(* caller's place decides what it has answered.                            *)
Control ==
  /\ dpc = "unborn" => /\ seq = 1 /\ lane = 0 /\ turn = 0 /\ read = 0
                       /\ \A i \in Lanes : /\ wpc[i] = "unborn"
                                           /\ jobs[i] = <<>>
                                           /\ results[i] = <<>>
  /\ dpc # "unborn" => \A i \in Lanes : wpc[i] # "unborn"
  /\ cpc \in {"loop", "recv", "eof"} => dpc # "unborn"
  /\ stopped => cpc \in {"wait", "closed"}
  /\ Reading \/ cpc = "eof" => answer = "none"

(* What the caller has been given.                                         *)
ReadInStep ==
  /\ Reading => /\ read < seq
                /\ \A k \in 1..read : k \in 1..Len(stream) /\ stream[k] \in {"rows", "empty"}
  /\ cpc = "eof" /\ ~cancelled =>
       /\ read + 1 \in 1..Len(stream)
       /\ stream[read + 1] = "eof"
       /\ dpc = "done"

IInv ==
  /\ TypeOK
  /\ Control
  /\ AllGenuine
  /\ DispatcherInStep
  /\ ReadInStep
  /\ Reading => \A i \in Lanes : LaneInStep(i)
  /\ Reading /\ ~Done => \A i \in Lanes : EndExplained(i)
  /\ NothingLeftBehind

-----------------------------------------------------------------------------
(* Lemmas about lanes.                                                     *)

(* A sequence is empty when its length is 0.                               *)
LEMMA EmptyLen ==
  ASSUME NEW S, NEW q \in Seq(S)
  PROVE  q = <<>> <=> Len(q) = 0
BY EmptySeq

(* A message that follows a run extends it.                                *)
LEMMA AppendRun ==
  ASSUME NEW q \in Seq(Message), NEW m \in Message, NEW d \in Int,
         Run(q, d), m.seq = After(q, d)
  PROVE  /\ Run(Append(q, m), d)
         /\ After(Append(q, m), d) = m.seq + N
<1>1. Append(q, m) # <<>> /\ Len(Append(q, m)) = Len(q) + 1
  OBVIOUS
<1>2. Append(q, m)[Len(q) + 1] = m /\ \A k \in 1..Len(q) : Append(q, m)[k] = q[k]
  OBVIOUS
<1>3. Append(q, m)[1].seq = d
  <2>1. CASE q = <<>>
    BY <1>2, <2>1 DEF After
  <2>2. CASE q # <<>>
    <3>1. 1 \in 1..Len(q)
      BY <2>2
    <3>. QED BY <1>2, <2>2, <3>1 DEF Run
  <2>. QED BY <2>1, <2>2
<1>4. \A k \in 1..Len(q) : Append(q, m)[k + 1].seq = Append(q, m)[k].seq + N
  <2>. TAKE k \in 1..Len(q)
  <2>1. CASE k = Len(q)
    BY <1>2, <2>1, q # <<>> DEF After
  <2>2. CASE k # Len(q)
    BY <1>2, <2>2 DEF Run
  <2>. QED BY <2>1, <2>2
<1>. QED BY <1>1, <1>2, <1>3, <1>4 DEF Run, After

(* What follows a run's first message is a run from the lane's next pull.  *)
LEMMA TailRun ==
  ASSUME NEW q \in Seq(Message), NEW d \in Int, q # <<>>, Run(q, d)
  PROVE  /\ Head(q).seq = d
         /\ Run(Tail(q), d + N)
         /\ After(Tail(q), d + N) = After(q, d)
<1>1. Len(q) > 0 /\ Head(q) = q[1] /\ Len(Tail(q)) = Len(q) - 1
  OBVIOUS
<1>2. \A k \in 1..Len(Tail(q)) : Tail(q)[k] = q[k + 1]
  OBVIOUS
<1>3. Tail(q) = <<>> <=> Len(q) = 1
  <2>1. Tail(q) \in Seq(Message)
    OBVIOUS
  <2>2. Tail(q) = <<>> <=> Len(Tail(q)) = 0
    BY <2>1, EmptyLen
  <2>3. Len(q) \in Nat
    OBVIOUS
  <2>. QED BY <1>1, <2>2, <2>3
<1>4. Tail(q) # <<>> => Tail(q)[1].seq = d + N
  BY <1>1, <1>2, <1>3 DEF Run
<1>5. \A k \in 1..(Len(Tail(q)) - 1) : Tail(q)[k + 1].seq = Tail(q)[k].seq + N
  BY <1>1, <1>2 DEF Run
<1>6. CASE Tail(q) = <<>>
  BY <1>1, <1>3, <1>4, <1>5, <1>6 DEF Run, After
<1>7. CASE Tail(q) # <<>>
  <2>1. Tail(q)[Len(Tail(q))] = q[Len(q)]
    BY <1>1, <1>2, <1>7
  <2>. QED BY <1>1, <1>4, <1>5, <1>7, <2>1 DEF Run, After
<1>. QED BY <1>6, <1>7

(* A message that is not in a run's past is not in the run: every message  *)
(* of a run from d on is of pull d or a later one.                         *)
LEMMA RunFromEmptyPast ==
  ASSUME NEW q \in Seq(Message), NEW d \in Int, Run(q, d),
         \A k \in 1..Len(q) : q[k].seq < d
  PROVE  q = <<>>
<1>1. ASSUME q # <<>> PROVE FALSE
  <2>1. 1 \in 1..Len(q) /\ q[1] \in Message
    BY <1>1
  <2>. QED BY <1>1, <2>1 DEF Run, Message
<1>. QED BY <1>1


-----------------------------------------------------------------------------
(* Types.                                                                  *)

(* The streams are finite sequences of pulls, and so are all messages'     *)
(* kinds.                                                                  *)
LEMMA StreamType ==
  ASSUME NEW s \in Streams
  PROVE  /\ s \in Seq(Pulls)
         /\ Len(s) \in Nat \ {0}
         /\ \A k \in 1..Len(s) : /\ s[k] \in Pulls
                                 /\ s[k] \in Ends <=> k = Len(s)
BY StreamsAssumption, ElementOfSeq

(* The invariant holds when nothing has run.                               *)
LEMMA InitInv == PInit => IInv
<1>. SUFFICES ASSUME PInit PROVE IInv
  OBVIOUS
<1>. USE LanesAssumption DEF PInit, Init
<1>1. TypeOK
  BY DEF TypeOK, Nothing, Message, Kinds, Pulls, Ends, Lanes
<1>2. Control
  BY DEF Control, Reading
<1>3. AllGenuine
  BY DEF AllGenuine, Holding
<1>4. DispatcherInStep
  BY StreamType DEF DispatcherInStep
<1>5. ReadInStep
  BY DEF ReadInStep, Reading
<1>6. \A i \in Lanes : LaneInStep(i)
  BY DEF LaneInStep, Run, After, AfterHeld, Holding, Expected, NextSeq, Lanes
<1>7. \A i \in Lanes : EndExplained(i)
  BY DEF EndExplained
<1>. QED BY <1>1, <1>2, <1>3, <1>4, <1>5, <1>6, <1>7 DEF IInv, NothingLeftBehind


-----------------------------------------------------------------------------
(* Every step keeps the invariant.                                         *)

(* The round goes through the lanes and no further.                        *)
LEMMA NextLaneType == ASSUME NEW i \in Lanes PROVE NextLane(i) \in Lanes
BY LanesAssumption DEF NextLane, Lanes

(* A lane nobody touched is in step as before.                             *)
LEMMA LaneKept ==
  ASSUME NEW i \in Lanes, LaneInStep(i),
         jobs'[i] = jobs[i], results'[i] = results[i],
         wpc'[i] = wpc[i], held'[i] = held[i],
         UNCHANGED <<turn, read, seq, lane>>
  PROVE  LaneInStep(i)'
BY DEF LaneInStep, AfterHeld, Holding, Expected, NextSeq, Run, After

(* The positions of a lane are numbers.                                    *)
LEMMA AfterHeldType ==
  ASSUME TypeOK, NEW i \in Lanes
  PROVE  /\ Expected(i) \in Nat /\ NextSeq(i) \in Nat
         /\ After(results[i], Expected(i)) \in Nat
         /\ AfterHeld(i) \in Nat
<1>. USE LanesAssumption DEF TypeOK
<1>1. Expected(i) \in Nat /\ NextSeq(i) \in Nat
  BY DEF Expected, NextSeq, Lanes
<1>2. After(results[i], Expected(i)) \in Nat
  <2>1. CASE results[i] = <<>>
    BY <1>1, <2>1 DEF After
  <2>2. CASE results[i] # <<>>
    <3>1. results[i] \in Seq(Message) /\ Len(results[i]) \in 1..Len(results[i])
      BY <2>2
    <3>2. results[i][Len(results[i])] \in Message
      BY <3>1, ElementOfSeq
    <3>. QED BY <2>2, <3>2 DEF After, Message
  <2>. QED BY <2>1, <2>2
<1>3. held[i].seq \in Nat
  BY DEF Message
<1>. QED BY <1>1, <1>2, <1>3 DEF AfterHeld

(* The dispatcher's pull: what the source answers is what it will send.    *)
LEMMA DispatcherPullInv == IInv /\ DispatcherPull => IInv'
<1>. SUFFICES ASSUME IInv, DispatcherPull PROVE IInv'
  OBVIOUS
<1>. USE LanesAssumption
         DEF IInv, DispatcherPull, workerVars, laneVars, callerVars, envVars
<1>1. seq \in 1..Len(stream) /\ stream[seq] \in Pulls
  BY StreamType DEF TypeOK, DispatcherInStep
<1>2. TypeOK'
  <2>1. PICK k \in Kinds : IF k = "eof"
                          THEN dpc' = "done" /\ UNCHANGED djob
                          ELSE dpc' = "send" /\ djob' = [seq |-> seq, kind |-> k]
    BY <1>1 DEF Kinds
  <2>2. seq \in Nat \ {0} /\ djob \in Message
    BY DEF TypeOK
  <2>3. dpc' \in {"send", "done"} /\ djob' \in Message
    BY <2>1, <2>2 DEF Message
  <2>. QED BY <2>3 DEF TypeOK
<1>3. Control'
  BY DEF Control, Reading
<1>4. AllGenuine'
  BY <1>1 DEF AllGenuine, Genuine, Holding, Done
<1>5. DispatcherInStep'
  BY <1>1 DEF DispatcherInStep, Done
<1>6. ReadInStep'
  BY DEF ReadInStep, Reading
<1>7. ASSUME NEW i \in Lanes, LaneInStep(i) PROVE LaneInStep(i)'
  BY <1>7, LaneKept
<1>8. ASSUME NEW i \in Lanes, EndExplained(i) PROVE EndExplained(i)'
  BY <1>8 DEF EndExplained, After, Expected, NextSeq, Failed
<1>. QED BY <1>2, <1>3, <1>4, <1>5, <1>6, <1>7, <1>8 DEF NothingLeftBehind, Reading, Done

(* The dispatcher's send: the job follows what its lane holds.             *)
LEMMA DispatcherSendInv == IInv /\ DispatcherSend => IInv'
<1>. SUFFICES ASSUME IInv, DispatcherSend PROVE IInv'
  OBVIOUS
<1>. USE LanesAssumption
         DEF IInv, DispatcherSend, workerVars, laneVars, callerVars, envVars
<1>1. /\ Genuine(djob) /\ djob.seq = seq /\ seq \in 1..Len(stream)
      /\ djob \in Message
  BY DEF AllGenuine, Genuine, TypeOK
<1>2. /\ jobs'[lane] = Append(jobs[lane], djob)
      /\ \A i \in Lanes : i # lane => jobs'[i] = jobs[i]
  BY DEF TypeOK
<1>3. TypeOK'
  BY DEF TypeOK, HasRoom, NextLane, Lanes
<1>4. Control'
  BY DEF Control, Reading
<1>5. AllGenuine'
  <2>1. ASSUME NEW m, Genuine(m) PROVE Genuine(m)'
    BY <2>1 DEF Genuine, Done
  <2>2. ASSUME NEW i \in Lanes, NEW k \in 1..Len(jobs'[i])
        PROVE  Genuine(jobs'[i][k]) /\ jobs'[i][k].seq < seq + 1
    <3>1. CASE i = lane /\ k = Len(jobs[i]) + 1
      BY <1>1, <1>2, <3>1 DEF TypeOK
    <3>2. CASE ~(i = lane /\ k = Len(jobs[i]) + 1)
      <4>1. k \in 1..Len(jobs[i]) /\ jobs'[i][k] = jobs[i][k]
        BY <1>1, <1>2, <3>2 DEF TypeOK
      <4>2. jobs[i][k].seq < seq /\ Genuine(jobs[i][k])
        BY <4>1 DEF AllGenuine
      <4>. QED BY <4>1, <4>2 DEF Genuine, TypeOK
    <3>. QED BY <3>1, <3>2
  <2>3. ASSUME NEW i \in Lanes, NEW k \in 1..Len(results[i])
        PROVE  Genuine(results[i][k]) /\ results[i][k].seq < seq + 1
    BY <2>3 DEF AllGenuine, Genuine, TypeOK
  <2>4. ASSUME NEW i \in Lanes, Holding(i)
        PROVE  Genuine(held[i]) /\ held[i].seq < seq + 1
    BY <2>4 DEF AllGenuine, Genuine, TypeOK
  <2>5. dpc' # "send"
    OBVIOUS
  <2>. QED BY <2>1, <2>2, <2>3, <2>4, <2>5 DEF AllGenuine, Holding
<1>6. DispatcherInStep'
  <2>1. stream[seq] \in Pulls /\ (stream[seq] \in Ends <=> seq = Len(stream)) /\ Len(stream) \in Nat
    BY <1>1, StreamType DEF TypeOK
  <2>2. CASE SourceFailed(djob)
    <3>1. Done \/ stream[seq] \in {"err", "quit"}
      BY <1>1, <2>1, <2>2 DEF SourceFailed, Genuine, Pulls, Batches, Ends
    <3>2. seq' - 1 = seq /\ dpc' = "done"
      BY <1>1, <2>1, <2>2
    <3>. QED BY <1>1, <3>1, <3>2 DEF DispatcherInStep, Done
  <2>3. CASE ~SourceFailed(djob)
    <3>1. djob.kind = stream[seq] /\ djob.kind \notin Ends
      BY <1>1, <2>3 DEF Genuine, SourceFailed, Ends
    <3>. QED BY <1>1, <2>1, <2>3, <3>1 DEF DispatcherInStep
  <2>. QED BY <2>2, <2>3
<1>7. ReadInStep'
  BY DEF ReadInStep, Reading, TypeOK
<1>8. ASSUME NEW i \in Lanes, LaneInStep(i) PROVE LaneInStep(i)'
  <2>1. CASE i = lane
    <3>1. NextSeq(i) = seq /\ NextSeq(i)' = seq + N
      BY <2>1 DEF NextSeq, NextLane, TypeOK, Lanes
    <3>2. AfterHeld(i)' = AfterHeld(i) /\ AfterHeld(i) \in Int
      BY AfterHeldType DEF AfterHeld, Holding, After, Expected
    <3>3. wpc[i] # "done" => Run(jobs'[i], AfterHeld(i)) /\ After(jobs'[i], AfterHeld(i)) = seq + N
      BY <1>1, <1>2, <1>8, <2>1, <3>1, <3>2, AppendRun DEF LaneInStep, TypeOK
    <3>. QED BY <1>8, <3>1, <3>2, <3>3 DEF LaneInStep, Run, After, Expected, Holding
  <2>2. CASE i # lane
    <3>1. NextSeq(i)' = NextSeq(i)
      BY <2>2 DEF NextSeq, NextLane, TypeOK, Lanes
    <3>. QED BY <1>2, <1>8, <2>2, <3>1 DEF LaneInStep, Run, After, AfterHeld, Expected, Holding
  <2>. QED BY <2>1, <2>2
<1>9. ASSUME NEW i \in Lanes, EndExplained(i) PROVE EndExplained(i)'
  BY <1>9 DEF EndExplained, After, Expected, NextSeq, Failed
<1>. QED BY <1>3, <1>4, <1>5, <1>6, <1>7, <1>8, <1>9 DEF NothingLeftBehind, Reading, Done, ReadInStep


(* The dispatcher gives up a send once the context has ended.              *)
LEMMA DispatcherStopInv == IInv /\ DispatcherStop => IInv'
<1>. SUFFICES ASSUME IInv, DispatcherStop PROVE IInv'
  OBVIOUS
<1>. USE LanesAssumption
         DEF IInv, DispatcherStop, workerVars, laneVars, callerVars, envVars
<1>1. TypeOK'
  BY DEF TypeOK
<1>2. Control'
  BY DEF Control, Reading
<1>3. AllGenuine'
  BY DEF AllGenuine, Genuine, Holding, Done
<1>4. DispatcherInStep'
  BY DEF DispatcherInStep, Done
<1>5. ReadInStep'
  BY DEF ReadInStep, Reading
<1>6. ASSUME NEW i \in Lanes, LaneInStep(i) PROVE LaneInStep(i)'
  BY <1>6, LaneKept
<1>. QED BY <1>1, <1>2, <1>3, <1>4, <1>5, <1>6 DEF NothingLeftBehind, Reading, Done

(* What WorkerReceive, WorkerEnd, WorkerApply and WorkerStop leave alone.  *)
LEMMA WorkerKeeps ==
  ASSUME IInv, NEW i \in Lanes,
         UNCHANGED <<results, dispatcherVars, callerVars, envVars>>,
         TypeOK', wpc[i] # "unborn", wpc'[i] # "unborn",
         \A j \in Lanes : j # i => /\ jobs'[j] = jobs[j] /\ wpc'[j] = wpc[j]
                                  /\ held'[j] = held[j],
         \A k \in 1..Len(jobs'[i]) : Genuine(jobs'[i][k]) /\ jobs'[i][k].seq < seq,
         Holding(i)' => Genuine(held'[i]) /\ held'[i].seq < seq,
         Reading => LaneInStep(i)',
         Reading /\ ~Done => EndExplained(i)',
         (jobs'[i] = <<>> /\ wpc'[i] \in {"recv", "done"}) \/ ~(cpc = "eof" /\ ~cancelled)
  PROVE  IInv'
<1>. USE LanesAssumption DEF IInv, dispatcherVars, callerVars, envVars
<1>1. Control'
  BY DEF Control, Reading
<1>2. AllGenuine'
  <2>1. ASSUME NEW m, Genuine(m) PROVE Genuine(m)'
    BY <2>1 DEF Genuine, Done
  <2>. QED BY <2>1 DEF AllGenuine, Holding
<1>3. DispatcherInStep' /\ ReadInStep'
  BY DEF DispatcherInStep, ReadInStep, Reading, Done
<1>4. ASSUME NEW j \in Lanes, j # i, LaneInStep(j) PROVE LaneInStep(j)'
  BY <1>4, LaneKept
<1>5. ASSUME NEW j \in Lanes, j # i, EndExplained(j) PROVE EndExplained(j)'
  BY <1>5 DEF EndExplained, After, Expected, NextSeq, Failed
<1>6. NothingLeftBehind'
  BY DEF NothingLeftBehind
<1>. QED BY <1>1, <1>2, <1>3, <1>4, <1>5, <1>6 DEF Reading, Done

(* A worker receives the first of its jobs.                                *)
LEMMA WorkerReceiveInv == ASSUME NEW i \in Lanes PROVE IInv /\ WorkerReceive(i) => IInv'
<1>. SUFFICES ASSUME IInv, WorkerReceive(i) PROVE IInv'
  OBVIOUS
<1>. USE LanesAssumption DEF IInv, WorkerReceive
<1>1. /\ jobs[i] \in Seq(Message) /\ jobs[i] # <<>> /\ jobs'[i] = Tail(jobs[i])
      /\ held'[i] = Head(jobs[i]) /\ wpc[i] = "recv" /\ wpc'[i] = "apply"
      /\ Head(jobs[i]) = jobs[i][1] /\ 1 \in 1..Len(jobs[i])
      /\ Head(jobs[i]) \in Message /\ Tail(jobs[i]) \in Seq(Message)
      /\ Len(Tail(jobs[i])) = Len(jobs[i]) - 1
      /\ \A k \in 1..Len(Tail(jobs[i])) : Tail(jobs[i])[k] = jobs[i][k + 1] /\ k + 1 \in 1..Len(jobs[i])
  BY DEF TypeOK
<1>2. TypeOK'
  BY <1>1 DEF TypeOK, dispatcherVars, callerVars, envVars
<1>3. ASSUME Reading PROVE LaneInStep(i)'
  <2>1. LaneInStep(i) /\ AfterHeld(i) = After(results[i], Expected(i)) /\ AfterHeld(i) \in Nat
    BY <1>1, <1>3, AfterHeldType DEF AfterHeld, Holding
  <2>2. /\ Head(jobs[i]).seq = AfterHeld(i)
        /\ Run(Tail(jobs[i]), AfterHeld(i) + N)
        /\ After(Tail(jobs[i]), AfterHeld(i) + N) = NextSeq(i)
    BY <1>1, <2>1, TailRun DEF LaneInStep
  <2>3. AfterHeld(i)' = AfterHeld(i) + N
    BY <1>1, <2>1, <2>2 DEF AfterHeld, Holding
  <2>. QED BY <1>1, <2>1, <2>2, <2>3
       DEF LaneInStep, Run, After, Expected, NextSeq, Holding, dispatcherVars, callerVars
<1>4. EndExplained(i)'
  BY <1>1 DEF EndExplained
<1>5. /\ \A k \in 1..Len(jobs'[i]) : Genuine(jobs'[i][k]) /\ jobs'[i][k].seq < seq
      /\ Genuine(held'[i]) /\ held'[i].seq < seq
  BY <1>1 DEF AllGenuine
<1>6. ~(cpc = "eof" /\ ~cancelled)
  BY <1>1 DEF NothingLeftBehind
<1>. QED BY <1>1, <1>2, <1>3, <1>4, <1>5, <1>6, WorkerKeeps DEF TypeOK


(* A worker ends when its lane is closed and empty: nothing more comes.    *)
LEMMA WorkerEndInv == ASSUME NEW i \in Lanes PROVE IInv /\ WorkerEnd(i) => IInv'
<1>. SUFFICES ASSUME IInv, WorkerEnd(i) PROVE IInv'
  OBVIOUS
<1>. USE LanesAssumption DEF IInv, WorkerEnd
<1>1. /\ wpc[i] = "recv" /\ wpc'[i] = "done" /\ jobs[i] = <<>> /\ dpc = "done"
      /\ UNCHANGED <<jobs, results, held, seq, lane, dpc, djob, turn, read>>
  BY DEF TypeOK, dispatcherVars, callerVars, laneVars
<1>2. TypeOK'
  BY DEF TypeOK, dispatcherVars, callerVars, envVars, laneVars
<1>3. ASSUME Reading PROVE LaneInStep(i)' /\ EndExplained(i)'
  <2>1. LaneInStep(i) /\ AfterHeld(i) = After(results[i], Expected(i))
    BY <1>1, <1>3 DEF AfterHeld, Holding
  <2>2. After(results[i], Expected(i)) = NextSeq(i)
    BY <1>1, <2>1 DEF LaneInStep, After
  <2>. QED BY <1>1, <2>1, <2>2
       DEF LaneInStep, EndExplained, Run, After, Expected, NextSeq, Holding
<1>4. \A k \in 1..Len(jobs'[i]) : Genuine(jobs'[i][k]) /\ jobs'[i][k].seq < seq
  BY <1>1 DEF AllGenuine
<1>. QED BY <1>1, <1>2, <1>3, <1>4, WorkerKeeps DEF TypeOK, Holding, laneVars

(* What an operator answers is its batch, or the context's error.          *)
LEMMA WorkerApplyInv == ASSUME NEW i \in Lanes PROVE IInv /\ WorkerApply(i) => IInv'
<1>. SUFFICES ASSUME IInv, WorkerApply(i) PROVE IInv'
  OBVIOUS
<1>. USE LanesAssumption DEF IInv, WorkerApply
<1>1. /\ wpc[i] = "apply" /\ wpc'[i] = "send"
      /\ UNCHANGED <<jobs, results, seq, lane, dpc, djob, turn, read>>
  BY DEF TypeOK, dispatcherVars, callerVars, laneVars
<1>2. /\ held'[i] \in Message /\ held'[i].seq = held[i].seq
      /\ held'[i].kind = held[i].kind \/ (held'[i].kind = "ctx" /\ Done)
      /\ \A j \in Lanes : j # i => held'[j] = held[j]
      /\ held' \in [Lanes -> Message]
  <2>1. CASE UNCHANGED held
    BY <2>1 DEF TypeOK
  <2>2. CASE Done /\ held' = [held EXCEPT ![i].kind = "ctx"]
    <3>1. held[i] \in Message
      BY DEF TypeOK
    <3>2. [held[i] EXCEPT !.kind = "ctx"] \in Message
      BY <3>1 DEF Message, Kinds
    <3>3. held' = [held EXCEPT ![i] = [held[i] EXCEPT !.kind = "ctx"]]
      BY <2>2
    <3>4. /\ held'[i] = [held[i] EXCEPT !.kind = "ctx"]
          /\ \A j \in Lanes : j # i => held'[j] = held[j]
          /\ held' \in [Lanes -> Message]
      BY <3>2, <3>3 DEF TypeOK
    <3>. QED BY <2>2, <3>1, <3>2, <3>4 DEF Message
  <2>. QED BY <2>1, <2>2
<1>3. TypeOK'
  BY <1>2 DEF TypeOK, dispatcherVars, callerVars, envVars, laneVars
<1>4. ASSUME Reading PROVE LaneInStep(i)' /\ EndExplained(i)'
  <2>1. LaneInStep(i) /\ AfterHeld(i)' = AfterHeld(i)
    BY <1>1, <1>2, <1>4 DEF AfterHeld, Holding
  <2>. QED BY <1>1, <1>2, <2>1
       DEF LaneInStep, EndExplained, Run, After, Expected, NextSeq, Holding
<1>5. /\ \A k \in 1..Len(jobs'[i]) : Genuine(jobs'[i][k]) /\ jobs'[i][k].seq < seq
      /\ Genuine(held'[i]) /\ held'[i].seq < seq
  BY <1>1, <1>2 DEF AllGenuine, Genuine, Holding
<1>6. ~(cpc = "eof" /\ ~cancelled)
  BY <1>1 DEF NothingLeftBehind
<1>. QED BY <1>1, <1>2, <1>3, <1>4, <1>5, <1>6, WorkerKeeps DEF TypeOK, laneVars

(* A worker gives up a send once the context has ended.                    *)
LEMMA WorkerStopInv == ASSUME NEW i \in Lanes PROVE IInv /\ WorkerStop(i) => IInv'
<1>. SUFFICES ASSUME IInv, WorkerStop(i) PROVE IInv'
  OBVIOUS
<1>. USE LanesAssumption DEF IInv, WorkerStop
<1>1. /\ wpc[i] = "send" /\ wpc'[i] = "done" /\ Done
      /\ UNCHANGED <<jobs, results, held, seq, lane, dpc, djob, turn, read>>
  BY DEF TypeOK, dispatcherVars, callerVars, laneVars
<1>2. TypeOK'
  BY DEF TypeOK, dispatcherVars, callerVars, envVars, laneVars
<1>3. ASSUME Reading PROVE LaneInStep(i)'
  BY <1>1, <1>3 DEF LaneInStep, Run, After, Expected, NextSeq, Holding
<1>4. \A k \in 1..Len(jobs'[i]) : Genuine(jobs'[i][k]) /\ jobs'[i][k].seq < seq
  BY <1>1 DEF AllGenuine
<1>5. ~(cpc = "eof" /\ ~cancelled)
  BY <1>1 DEF NothingLeftBehind
<1>. QED BY <1>1, <1>2, <1>3, <1>4, <1>5, WorkerKeeps DEF TypeOK, Holding, laneVars

(* A worker's result, or its report of a Goexit, follows what its lane     *)
(* holds, and is the last when it is an error.                             *)
LEMMA SendInv ==
  ASSUME IInv, NEW i \in Lanes, wpc[i] = "send", HasRoom(results[i]),
         results' = [results EXCEPT ![i] = Append(@, held[i])],
         wpc' = [wpc EXCEPT ![i] = IF Failed(held[i]) THEN "done" ELSE "recv"],
         UNCHANGED <<jobs, held, dispatcherVars, callerVars, envVars>>
  PROVE  IInv'
<1>. USE LanesAssumption DEF IInv, dispatcherVars, callerVars, envVars
<1>1. /\ results[i] \in Seq(Message) /\ held[i] \in Message
      /\ results'[i] = Append(results[i], held[i])
      /\ wpc'[i] = IF Failed(held[i]) THEN "done" ELSE "recv"
      /\ \A j \in Lanes : j # i => results'[j] = results[j] /\ wpc'[j] = wpc[j]
      /\ Genuine(held[i]) /\ held[i].seq < seq
  BY DEF TypeOK, AllGenuine, Holding
<1>2. /\ results'[i] # <<>> /\ Len(results'[i]) = Len(results[i]) + 1
      /\ results'[i][Len(results'[i])] = held[i]
      /\ \A k \in 1..Len(results[i]) : results'[i][k] = results[i][k]
  BY <1>1
<1>3. TypeOK'
  BY <1>1, <1>2 DEF TypeOK, HasRoom
<1>4. Control'
  BY <1>1 DEF Control, Reading
<1>5. AllGenuine'
  <2>1. ASSUME NEW m, Genuine(m) PROVE Genuine(m)'
    BY <2>1 DEF Genuine, Done
  <2>2. \A j \in Lanes : \A k \in 1..Len(results'[j]) :
          Genuine(results'[j][k]) /\ results'[j][k].seq < seq
    <3>. TAKE j \in Lanes
    <3>. TAKE k \in 1..Len(results'[j])
    <3>1. CASE j = i /\ k = Len(results[i]) + 1
      BY <1>1, <1>2, <3>1
    <3>2. CASE ~(j = i /\ k = Len(results[i]) + 1)
      <4>1. k \in 1..Len(results[j]) /\ results'[j][k] = results[j][k]
        BY <1>1, <1>2, <3>2 DEF TypeOK
      <4>. QED BY <4>1 DEF AllGenuine
    <3>. QED BY <3>1, <3>2
  <2>3. \A j \in Lanes : Holding(j)' => Holding(j)
    BY <1>1 DEF Holding
  <2>. QED BY <2>1, <2>2, <2>3 DEF AllGenuine
<1>6. DispatcherInStep' /\ ReadInStep'
  BY DEF DispatcherInStep, ReadInStep, Reading, Done
<1>7. ASSUME NEW j \in Lanes, LaneInStep(j) PROVE LaneInStep(j)'
  <2>1. CASE j = i
    <3>1. /\ Run(results'[i], Expected(i))
          /\ After(results'[i], Expected(i)) = held[i].seq + N
      BY <1>1, <1>7, <2>1, AfterHeldType, AppendRun DEF LaneInStep, Holding
    <3>2. AfterHeld(i) = held[i].seq + N /\ AfterHeld(i)' = held[i].seq + N
      BY <1>1, <3>1 DEF AfterHeld, Holding, Expected, After
    <3>. QED BY <1>1, <1>7, <2>1, <3>1, <3>2
         DEF LaneInStep, Run, After, Expected, NextSeq, Holding
  <2>2. CASE j # i
    BY <1>1, <1>7, <2>2, LaneKept
  <2>. QED BY <2>1, <2>2
<1>8. ASSUME NEW j \in Lanes, EndExplained(j) PROVE EndExplained(j)'
  <2>1. CASE j = i
    BY <1>1, <1>2, <2>1 DEF EndExplained, Failed
  <2>2. CASE j # i
    BY <1>1, <1>8, <2>2 DEF EndExplained, After, Expected, NextSeq, Failed
  <2>. QED BY <2>1, <2>2
<1>9. NothingLeftBehind'
  BY DEF NothingLeftBehind
<1>. QED BY <1>3, <1>4, <1>5, <1>6, <1>7, <1>8, <1>9 DEF Reading, Done

(* The two ways a worker sends, in its loop and from goexitGuard.          *)
LEMMA WorkerSendInv == ASSUME NEW i \in Lanes PROVE IInv /\ WorkerSend(i) => IInv'
BY SendInv DEF WorkerSend

(* The report of a Goexit is an error, so it is the lane's last.           *)
LEMMA WorkerReportInv == ASSUME NEW i \in Lanes PROVE IInv /\ WorkerReport(i) => IInv'
<1>. SUFFICES ASSUME IInv, WorkerReport(i) PROVE IInv'
  OBVIOUS
<1>1. Failed(held[i])
  BY DEF WorkerReport, Failed, Errors
<1>. QED BY <1>1, SendInv DEF WorkerReport


(* The caller's own steps that touch no lane.                              *)
LEMMA CallerKeeps ==
  ASSUME IInv, TypeOK', Control', ReadInStep', NothingLeftBehind',
         UNCHANGED <<seq, lane, dpc, djob, jobs, results, wpc, held, stream, read>>,
         Reading' => Reading /\ UNCHANGED turn,
         Done => Done'
  PROVE  IInv'
<1>. USE DEF IInv
<1>1. AllGenuine'
  <2>1. ASSUME NEW m, Genuine(m) PROVE Genuine(m)'
    BY <2>1 DEF Genuine
  <2>. QED BY <2>1 DEF AllGenuine, Holding
<1>2. DispatcherInStep'
  BY DEF DispatcherInStep
<1>3. ASSUME Reading', NEW i \in Lanes PROVE LaneInStep(i)'
  BY <1>3, LaneKept
<1>4. ASSUME Reading', ~Done', NEW i \in Lanes PROVE EndExplained(i)'
  BY <1>4 DEF EndExplained, After, Expected, NextSeq, Failed
<1>. QED BY <1>1, <1>2, <1>3, <1>4

(* drain's look at the context.                                            *)
LEMMA AskInv == IInv /\ Ask => IInv'
<1>. SUFFICES ASSUME IInv, Ask PROVE IInv'
  OBVIOUS
<1>. USE DEF IInv, Ask, dispatcherVars, workerVars, laneVars, envVars
<1>1. TypeOK'
  BY DEF TypeOK
<1>2. Control'
  BY DEF Control, Reading
<1>3. ReadInStep' /\ NothingLeftBehind'
  BY DEF ReadInStep, NothingLeftBehind, Reading
<1>. QED BY <1>1, <1>2, <1>3, CallerKeeps DEF Reading, Done

(* Next launches the goroutines, once, and looks at the context.           *)
LEMMA EnterInv == IInv /\ Enter => IInv'
<1>. SUFFICES ASSUME IInv, Enter PROVE IInv'
  OBVIOUS
<1>. USE LanesAssumption DEF IInv, Enter, laneVars, envVars
<1>1. TypeOK'
  BY DEF TypeOK
<1>2. Control'
  BY DEF Control, Reading
<1>3. ReadInStep' /\ NothingLeftBehind'
  BY DEF ReadInStep, NothingLeftBehind, Reading
<1>4. AllGenuine'
  <2>1. ASSUME NEW m, Genuine(m) PROVE Genuine(m)'
    BY <2>1 DEF Genuine, Done
  <2>. QED BY <2>1 DEF AllGenuine, Holding
<1>5. DispatcherInStep'
  BY DEF DispatcherInStep, Done
<1>6. Reading
  BY DEF Reading
<1>7. ASSUME NEW i \in Lanes PROVE LaneInStep(i)'
  <2>1. CASE dpc = "unborn"
    <3>1. wpc[i] = "unborn" /\ wpc'[i] = "recv"
      BY <2>1 DEF Control
    <3>. QED BY <1>6, <3>1
         DEF LaneInStep, AfterHeld, Holding, Expected, NextSeq, Run, After
  <2>2. CASE dpc # "unborn"
    BY <1>6, <2>2, LaneKept
  <2>. QED BY <2>1, <2>2
<1>8. ASSUME ~Done, NEW i \in Lanes PROVE EndExplained(i)'
  <2>1. CASE dpc = "unborn"
    BY <2>1 DEF EndExplained
  <2>2. CASE dpc # "unborn"
    BY <1>6, <1>8, <2>2 DEF EndExplained, After, Expected, NextSeq, Failed
  <2>. QED BY <2>1, <2>2
<1>. QED BY <1>1, <1>2, <1>3, <1>4, <1>5, <1>7, <1>8 DEF Done

(* The turn passes to the next lane, and the lane it leaves expects its    *)
(* next message a round later.                                             *)
LEMMA TurnPasses ==
  ASSUME TypeOK, turn' = NextLane(turn), read' = read + 1, NEW i \in Lanes
  PROVE  Expected(i)' = IF i = turn THEN Expected(i) + N ELSE Expected(i)
BY LanesAssumption DEF TypeOK, Expected, NextLane, Lanes

(* The turn's lane is expected to hold the first pull not yet accounted    *)
(* for.                                                                    *)
LEMMA TurnExpects == TypeOK => Expected(turn) = read + 1
BY DEF TypeOK, Expected, Lanes

(* The caller receives the result of the turn's lane: it is the answer of  *)
(* the first pull the caller has not had.                                  *)
LEMMA ReceiveInv == IInv /\ Receive => IInv'
<1>. SUFFICES ASSUME IInv, Receive PROVE IInv'
  OBVIOUS
<1>. USE LanesAssumption DEF IInv, Receive, dispatcherVars, workerVars, envVars
<1> DEFINE q == results[turn]
           m == Head(q)
<1>1. /\ q \in Seq(Message) /\ q # <<>> /\ results'[turn] = Tail(q)
      /\ \A i \in Lanes : i # turn => results'[i] = results[i]
      /\ m = q[1] /\ 1 \in 1..Len(q) /\ m \in Message /\ Tail(q) \in Seq(Message)
      /\ Len(Tail(q)) = Len(q) - 1
      /\ \A k \in 1..Len(Tail(q)) : Tail(q)[k] = q[k + 1] /\ k + 1 \in 1..Len(q)
  BY DEF TypeOK
<1>2. Reading /\ LaneInStep(turn) /\ turn \in Lanes /\ read \in Nat
  BY DEF Reading, TypeOK
<1>3. m.seq = read + 1 /\ Genuine(m) /\ m.seq < seq
  BY <1>1, <1>2, TurnExpects, TailRun DEF LaneInStep, AllGenuine
<1>4. read + 1 \in 1..Len(stream) /\ (m.kind = stream[read + 1] \/ m.kind = "ctx")
  BY <1>3 DEF Genuine
<1>5. Reading' => m.kind \in {"rows", "empty"}
  BY <1>1 DEF Reading
<1>6. TypeOK'
  <2>1. out' = out \/ out' = Append(out, m.seq)
    <3>1. CASE m.kind = "rows"
      BY <3>1
    <3>2. CASE m.kind # "rows"
      BY <3>2
    <3>. QED BY <3>1, <3>2
  <2>2. out' \in Seq(Nat)
    <3>1. out \in Seq(Nat) /\ m.seq \in Nat
      BY <1>2, <1>3 DEF TypeOK
    <3>. QED BY ONLY <2>1, <3>1
  <2>3. cpc' \in {"idle", "loop", "over"} /\ answer' \in {answer, "err", "ctx"}
    <3>1. CASE m.kind \in {"rows", "empty", "ctx"}
      BY <3>1
    <3>2. CASE m.kind \notin {"rows", "empty", "ctx"}
      BY <3>2
    <3>. QED BY <3>1, <3>2
  <2>4. /\ results' \in [Lanes -> Seq(Message)]
        /\ \A i \in Lanes : Len(results'[i]) <= Depth
    BY <1>1 DEF TypeOK
  <2>5. turn' \in Lanes
    BY <1>2, NextLaneType
  <2>6. /\ stream' \in Streams /\ cancelled' \in BOOLEAN /\ read' \in Nat
        /\ answer \in {"none", "eof", "err", "ctx"} /\ stopped' \in BOOLEAN
        /\ seq' \in Nat \ {0} /\ lane' \in Lanes
        /\ dpc' \in {"unborn", "pull", "send", "done"} /\ djob' \in Message
        /\ jobs' \in [Lanes -> Seq(Message)] /\ \A i \in Lanes : Len(jobs'[i]) <= Depth
        /\ wpc' \in [Lanes -> {"unborn", "recv", "apply", "send", "done"}]
        /\ held' \in [Lanes -> Message]
    BY DEF TypeOK
  <2>. QED BY ONLY <2>2, <2>3, <2>4, <2>5, <2>6 DEF TypeOK
<1>7. Control'
  BY DEF Control, Reading
<1>8. AllGenuine'
  <2>1. ASSUME NEW x, Genuine(x) PROVE Genuine(x)'
    BY <2>1 DEF Genuine, Done
  <2>2. \A i \in Lanes : \A k \in 1..Len(results'[i]) :
          Genuine(results'[i][k]) /\ results'[i][k].seq < seq
    <3>. TAKE i \in Lanes
    <3>1. CASE i = turn
      BY <1>1, <3>1 DEF AllGenuine
    <3>2. CASE i # turn
      BY <1>1, <3>2 DEF AllGenuine
    <3>. QED BY <3>1, <3>2
  <2>. QED BY <2>1, <2>2 DEF AllGenuine, Holding
<1>9. DispatcherInStep'
  BY DEF DispatcherInStep, Done
<1>10. ReadInStep'
  <2>1. cpc' # "eof"
    BY <1>1
  <2>2. ASSUME Reading' PROVE \A k \in 1..(read + 1) : k \in 1..Len(stream) /\ stream[k] \in {"rows", "empty"}
    BY <1>2, <1>4, <1>5, <2>2 DEF ReadInStep
  <2>3. read + 1 < seq
    BY <1>3
  <2>. QED BY <2>1, <2>2, <2>3 DEF ReadInStep
<1>11. ASSUME NEW i \in Lanes PROVE LaneInStep(i)'
  <2>0. Expected(i)' = IF i = turn THEN Expected(i) + N ELSE Expected(i)
    BY TurnPasses
  <2>1. CASE i = turn
    <3>1. /\ Run(Tail(q), Expected(i) + N)
          /\ After(Tail(q), Expected(i) + N) = After(q, Expected(i))
      BY <1>1, <1>2, <2>1, AfterHeldType, TailRun DEF LaneInStep
    <3>2. AfterHeld(i)' = AfterHeld(i)
      BY <1>1, <2>0, <2>1, <3>1 DEF AfterHeld, Holding, After
    <3>3. Run(results'[i], Expected(i)')
      BY <1>1, <2>0, <2>1, <3>1 DEF Run
    <3>4. Holding(i)' => held'[i].seq = After(results'[i], Expected(i)')
      BY <1>1, <1>2, <2>0, <2>1, <3>1 DEF LaneInStep, Holding
    <3>5. wpc[i] # "done" => /\ Run(jobs[i], AfterHeld(i))
                             /\ After(jobs[i], AfterHeld(i)) = NextSeq(i)
      BY <1>2, <2>1 DEF LaneInStep
    <3>. QED BY <3>2, <3>3, <3>4, <3>5 DEF LaneInStep, Run, After, NextSeq
  <2>2. CASE i # turn
    BY <1>1, <1>2, <2>0, <2>2 DEF LaneInStep, AfterHeld, Run, After, NextSeq, Holding
  <2>. QED BY <2>1, <2>2
<1>12. ASSUME Reading', NEW i \in Lanes, EndExplained(i) PROVE EndExplained(i)'
  <2>0. Expected(i)' = IF i = turn THEN Expected(i) + N ELSE Expected(i)
    BY TurnPasses
  <2>1. CASE i = turn
    <3>1. After(Tail(q), Expected(i) + N) = After(q, Expected(i))
      BY <1>1, <1>2, <2>1, AfterHeldType, TailRun DEF LaneInStep
    <3>2. ~Failed(m)
      BY <1>5, <1>12 DEF Failed, Errors
    <3>3. Failed(q[Len(q)]) => Tail(q) # <<>> /\ Tail(q)[Len(Tail(q))] = q[Len(q)]
      <4>1. Failed(q[Len(q)]) => Len(q) # 1
        BY <1>1, <3>2
      <4>2. Tail(q) # <<>> <=> Len(Tail(q)) # 0
        BY <1>1, EmptyLen
      <4>. QED BY <1>1, <4>1, <4>2
    <3>. QED BY <1>1, <1>12, <2>0, <2>1, <3>1, <3>3 DEF EndExplained, After, NextSeq, Failed
  <2>2. CASE i # turn
    BY <1>1, <1>12, <2>0, <2>2 DEF EndExplained, After, NextSeq, Failed
  <2>. QED BY <2>1, <2>2
<1>13. NothingLeftBehind'
  BY <1>1 DEF NothingLeftBehind
<1>. QED BY <1>2, <1>6, <1>7, <1>8, <1>9, <1>10, <1>11, <1>12, <1>13 DEF Done


(* A lane's next result is one the caller has not had, and its next job    *)
(* one the dispatcher has not handed out.                                  *)
LEMMA LanesAhead ==
  ASSUME TypeOK, NEW i \in Lanes
  PROVE  Expected(i) >= read + 1 /\ NextSeq(i) >= seq
BY LanesAssumption DEF TypeOK, Expected, NextSeq, Lanes

(* The heart of the argument: when the turn's lane is closed and empty in  *)
(* a stream nobody cancelled, the dispatcher met the end of the input at   *)
(* the very pull the caller asks for, and no lane holds anything.          *)
LEMMA ClosedLaneIsTheEnd ==
  ASSUME IInv, Reading, ~cancelled, dpc # "unborn",
         results[turn] = <<>>, wpc[turn] = "done"
  PROVE  /\ read + 1 \in 1..Len(stream) /\ stream[read + 1] = "eof" /\ dpc = "done"
         /\ \A i \in Lanes : jobs[i] = <<>> /\ results[i] = <<>> /\ wpc[i] \in {"recv", "done"}
<1>. USE LanesAssumption DEF IInv
<1>1. ~Done /\ turn \in Lanes /\ read \in Nat /\ seq \in Nat /\ read < seq
  BY DEF Done, Control, Reading, TypeOK, ReadInStep
<1>2. dpc = "done" /\ NextSeq(turn) = read + 1
  BY <1>1, TurnExpects DEF EndExplained, After
<1>3. read + 1 = seq
  <2>1. NextSeq(turn) >= seq
    BY <1>1, LanesAhead
  <2>. QED BY ONLY <1>1, <1>2, <2>1
<1>4. read + 1 \in 1..Len(stream) /\ stream[read + 1] = "eof"
  <2>1. ASSUME seq - 1 \in 1..Len(stream), stream[seq - 1] \in {"err", "quit"} PROVE FALSE
    <3>1. read \in 1..read /\ seq - 1 = read
      BY <1>1, <1>3, <2>1
    <3>. QED BY <2>1, <3>1 DEF ReadInStep
  <2>. QED BY <1>1, <1>2, <1>3, <2>1 DEF DispatcherInStep
<1>5. ASSUME NEW i \in Lanes
      PROVE  jobs[i] = <<>> /\ results[i] = <<>> /\ wpc[i] \in {"recv", "done"}
  <2>1. /\ Expected(i) \in Nat /\ Expected(i) >= seq /\ LaneInStep(i)
        /\ jobs[i] \in Seq(Message) /\ results[i] \in Seq(Message)
    <3>1. Expected(i) \in Nat /\ Expected(i) >= seq
      BY <1>3, <1>5, AfterHeldType, LanesAhead
    <3>. QED BY <1>5, <3>1 DEF TypeOK
  <2>2. results[i] = <<>>
    <3>1. \A k \in 1..Len(results[i]) : results[i][k].seq < seq /\ results[i][k] \in Message
      BY <1>5, <2>1, ElementOfSeq DEF AllGenuine
    <3>2. \A k \in 1..Len(results[i]) : results[i][k].seq < Expected(i)
      BY <1>1, <2>1, <3>1 DEF Message
    <3>. QED BY <2>1, <3>2, RunFromEmptyPast DEF LaneInStep
  <2>3. ~Holding(i)
    <3>1. After(results[i], Expected(i)) = Expected(i)
      BY <2>2 DEF After
    <3>2. Holding(i) => held[i].seq = Expected(i) /\ held[i].seq < seq
      BY <1>5, <2>1, <3>1 DEF LaneInStep, AllGenuine
    <3>. QED BY <1>1, <2>1, <3>2
  <2>4. wpc[i] \in {"recv", "done"}
    BY <1>5, <2>3 DEF Holding, Control, TypeOK
  <2>5. AfterHeld(i) = Expected(i)
    BY <2>2, <2>3 DEF AfterHeld, After
  <2>6. CASE wpc[i] # "done"
    <3>1. \A k \in 1..Len(jobs[i]) : jobs[i][k].seq < seq /\ jobs[i][k] \in Message
      BY <1>5, <2>1, ElementOfSeq DEF AllGenuine
    <3>2. \A k \in 1..Len(jobs[i]) : jobs[i][k].seq < Expected(i)
      BY <1>1, <2>1, <3>1 DEF Message
    <3>3. jobs[i] = <<>>
      BY <2>1, <2>5, <2>6, <3>2, RunFromEmptyPast DEF LaneInStep
    <3>. QED BY <2>2, <2>4, <3>3
  <2>7. CASE wpc[i] = "done"
    BY <1>1, <1>5, <2>2, <2>7 DEF EndExplained
  <2>. QED BY <2>6, <2>7
<1>. QED BY <1>2, <1>4, <1>5

(* The caller takes the turn's closed lane for the end of the stream.      *)
LEMMA ReceiveClosedInv == IInv /\ ReceiveClosed => IInv'
<1>. SUFFICES ASSUME IInv, ReceiveClosed PROVE IInv'
  OBVIOUS
<1>. USE DEF IInv, ReceiveClosed, dispatcherVars, workerVars, laneVars, envVars
<1>1. TypeOK'
  BY NextLaneType DEF TypeOK
<1>2. Control'
  BY DEF Control, Reading
<1>3. ~Reading'
  BY DEF Reading
<1>4. CASE cancelled
  BY <1>1, <1>2, <1>3, <1>4, CallerKeeps DEF ReadInStep, NothingLeftBehind, Done
<1>5. CASE ~cancelled
  <2>1. Reading /\ dpc # "unborn"
    BY DEF Reading, Control
  <2>2. ReadInStep' /\ NothingLeftBehind'
    BY <1>3, <1>5, <2>1, ClosedLaneIsTheEnd DEF ReadInStep, NothingLeftBehind
  <2>. QED BY <1>1, <1>2, <1>3, <2>2, CallerKeeps DEF Done
<1>. QED BY <1>4, <1>5

(* drain takes the end for an answer.                                      *)
LEMMA TakeEndInv == IInv /\ TakeEnd => IInv'
<1>. SUFFICES ASSUME IInv, TakeEnd PROVE IInv'
  OBVIOUS
<1>. USE DEF IInv, TakeEnd, dispatcherVars, workerVars, laneVars, envVars
<1>1. TypeOK'
  BY DEF TypeOK
<1>2. Control' /\ ~Reading'
  BY DEF Control, Reading
<1>. QED BY <1>1, <1>2, CallerKeeps DEF ReadInStep, NothingLeftBehind, Done

(* Close's two halves.                                                     *)
LEMMA CloseInv == IInv /\ (Close \/ CloseBase) => IInv'
<1>. SUFFICES ASSUME IInv, Close \/ CloseBase PROVE IInv'
  OBVIOUS
<1>. USE DEF IInv, Close, CloseBase, dispatcherVars, workerVars, laneVars, envVars
<1>1. TypeOK'
  BY DEF TypeOK
<1>2. Control' /\ ~Reading'
  BY DEF Control, Reading
<1>3. Done => Done'
  BY DEF Done, Control
<1>. QED BY <1>1, <1>2, <1>3, CallerKeeps DEF ReadInStep, NothingLeftBehind

(* The caller's context ends.                                              *)
LEMMA CancelInv == IInv /\ PCancel => IInv'
<1>. SUFFICES ASSUME IInv, PCancel PROVE IInv'
  OBVIOUS
<1>. USE DEF IInv, PCancel, callerVars, dispatcherVars, workerVars, laneVars
<1>1. TypeOK'
  BY DEF TypeOK
<1>2. Control'
  BY DEF Control, Reading
<1>. QED BY <1>1, <1>2, CallerKeeps DEF ReadInStep, NothingLeftBehind, Reading, Done

(* A step that changes nothing.                                            *)
LEMMA StutterInv == IInv /\ UNCHANGED vars => IInv'
<1>. SUFFICES ASSUME IInv, UNCHANGED vars PROVE IInv'
  OBVIOUS
<1>. USE DEF IInv, vars, callerVars, dispatcherVars, workerVars, laneVars, envVars
<1>1. TypeOK'
  BY DEF TypeOK
<1>2. Control'
  BY DEF Control, Reading
<1>. QED BY <1>1, <1>2, CallerKeeps DEF ReadInStep, NothingLeftBehind, Reading, Done

-----------------------------------------------------------------------------
(* What it all adds up to.                                                 *)

(* The invariant holds of every state the pool can reach.                  *)
THEOREM Invariance == PSafe => []IInv
<1>1. IInv /\ [PNext]_vars => IInv'
  <2>. SUFFICES ASSUME IInv, [PNext]_vars PROVE IInv'
    OBVIOUS
  <2>1. CASE Dispatcher
    BY <2>1, DispatcherPullInv, DispatcherSendInv, DispatcherStopInv DEF Dispatcher
  <2>2. CASE \E i \in Lanes : Worker(i)
    BY <2>2, WorkerReceiveInv, WorkerEndInv, WorkerApplyInv, WorkerSendInv,
       WorkerReportInv, WorkerStopInv DEF Worker
  <2>3. CASE Caller
    BY <2>3, AskInv, EnterInv, ReceiveInv, ReceiveClosedInv, TakeEndInv, CloseInv DEF Caller
  <2>4. CASE PCancel
    BY <2>4, CancelInv
  <2>5. CASE UNCHANGED vars
    BY <2>5, StutterInv
  <2>. QED BY <2>1, <2>2, <2>3, <2>4, <2>5 DEF PNext
<1>. QED BY InitInv, <1>1, PTL DEF PSafe

(* Every variable keeps its type and no lane holds more than its channel.  *)
THEOREM TypeCorrect == PSafe => []TypeOK
<1>1. IInv => TypeOK
  BY DEF IInv
<1>. QED BY Invariance, <1>1, PTL

(* What waits at the lane whose turn it is answers the first pull the      *)
(* caller has not had, whatever the workers' speeds.                       *)
THEOREM ReadsInOrder == PSafe => []HeadIsNext
<1>1. IInv => HeadIsNext
  BY TurnExpects DEF IInv, HeadIsNext, Reading, LaneInStep, Run, TypeOK
<1>. QED BY Invariance, <1>1, PTL

(* A closed lane is the end of the stream only when no lane has anything   *)
(* left.                                                                   *)
THEOREM NothingIsLeft == PSafe => []NothingLeftBehind
<1>1. IInv => NothingLeftBehind
  BY DEF IInv
<1>. QED BY Invariance, <1>1, PTL


-----------------------------------------------------------------------------
(* The pool implements the stream it stands for.                           *)

(* The head of the turn's lane answers the first pull not accounted for,   *)
(* truly.                                                                  *)
LEMMA HeadAnswersNext ==
  ASSUME IInv, Reading, results[turn] # <<>>
  PROVE  LET m == Head(results[turn]) IN
           /\ m.seq = read + 1 /\ Genuine(m)
           /\ stream[read + 1] \in Pulls
<1>. USE DEF IInv
<1> DEFINE q == results[turn]
<1>1. turn \in Lanes /\ q \in Seq(Message) /\ Head(q) = q[1] /\ 1 \in 1..Len(q)
  BY DEF TypeOK
<1>2. Head(q).seq = Expected(turn) /\ Expected(turn) = read + 1
  BY <1>1, TurnExpects, AfterHeldType, TailRun DEF LaneInStep
<1>3. Genuine(Head(q))
  BY <1>1 DEF AllGenuine
<1>. QED BY <1>2, <1>3, StreamType DEF Genuine, TypeOK

(* A result is delivered, skipped, or ends the stream as the input has it. *)
LEMMA ReceiveRefines == IInv /\ Receive => Next
<1>. SUFFICES ASSUME IInv, Receive PROVE Next
  OBVIOUS
<1>. USE DEF Receive, envVars
<1> DEFINE m == Head(results[turn])
<1>1. Reading /\ answer = "none" /\ ~stopped
  BY DEF Reading, IInv, Control
<1>2. /\ m.seq = read + 1 /\ m.kind # "eof" /\ stream[read + 1] \in Pulls
      /\ m.kind = stream[read + 1] \/ (m.kind = "ctx" /\ cancelled)
  BY <1>1, HeadAnswersNext DEF Genuine, Done
<1>3. CASE m.kind = "rows"
  <2>1. Pending = "rows"
    BY <1>2, <1>3 DEF Pending
  <2>. QED BY <1>1, <1>2, <1>3, <2>1 DEF Next, Deliver
<1>4. CASE m.kind = "empty"
  <2>1. Pending = "empty"
    BY <1>2, <1>4 DEF Pending
  <2>. QED BY <1>1, <1>2, <1>4, <2>1 DEF Next, Skip
<1>5. CASE m.kind = "ctx"
  <2>1. cancelled
    BY <1>2, <1>5 DEF Pulls, Batches, Ends
  <2>. QED BY <1>1, <1>2, <1>5, <2>1 DEF Next, GiveUp
<1>6. CASE m.kind \notin {"rows", "empty", "ctx"}
  <2>1. Pending \in Errors
    BY <1>2, <1>6 DEF Pending, Pulls, Batches, Ends, Errors
  <2>. QED BY <1>1, <1>2, <1>6, <2>1 DEF Next, Fail
<1>. QED BY <1>3, <1>4, <1>5, <1>6

(* The end drain takes for an answer is the end of the input, and nobody   *)
(* has cancelled; if somebody has, the cancellation is the answer.         *)
LEMMA AnswerRefines ==
  IInv /\ (Ask \/ Enter \/ ReceiveClosed \/ TakeEnd) => [Next]_abstractVars
<1>. SUFFICES ASSUME IInv, Ask \/ Enter \/ ReceiveClosed \/ TakeEnd PROVE [Next]_abstractVars
  OBVIOUS
<1>1. UNCHANGED <<stream, cancelled, read, out>> /\ answer = "none"
  BY DEF IInv, Control, Reading, Ask, Enter, ReceiveClosed, TakeEnd, envVars
<1>2. CASE cancelled
  <2>1. answer' \in {answer, "ctx"}
    BY <1>2 DEF Ask, Enter, ReceiveClosed, TakeEnd
  <2>. QED BY <1>1, <1>2, <2>1 DEF Next, GiveUp, abstractVars
<1>3. CASE ~cancelled
  <2>1. CASE TakeEnd
    <3>1. Pending = "eof"
      BY <1>3, <2>1 DEF TakeEnd, IInv, ReadInStep, Pending
    <3>. QED BY <1>1, <1>3, <2>1, <3>1 DEF TakeEnd, Next, End
  <2>2. CASE Ask \/ Enter \/ ReceiveClosed
    BY <1>1, <1>3, <2>2 DEF Ask, Enter, ReceiveClosed, abstractVars
  <2>. QED BY <2>1, <2>2
<1>. QED BY <1>2, <1>3

(* Whatever the number of workers, the depth of the lanes and the input,   *)
(* parallelOp gives what the serial pipeline gives, in the input's order:  *)
(* every surviving batch, an error at its place and instead of all after   *)
(* it, the end only where the input ends, and a cancellation before an end *)
(* of which it may be the cause.                                           *)
THEOREM Refinement == PSafe => ImplementsOrder
<1>1. PInit => Init
  BY DEF PInit
<1>2. IInv /\ [PNext]_vars => [Next]_abstractVars
  <2>. SUFFICES ASSUME IInv, [PNext]_vars PROVE [Next]_abstractVars
    OBVIOUS
  <2>1. CASE Dispatcher
    BY <2>1 DEF Dispatcher, DispatcherPull, DispatcherSend, DispatcherStop,
                callerVars, envVars, abstractVars
  <2>2. ASSUME NEW i \in Lanes, Worker(i) PROVE [Next]_abstractVars
    BY <2>2 DEF Worker, WorkerReceive, WorkerEnd, WorkerApply, WorkerSend,
                WorkerReport, WorkerStop, callerVars, envVars, abstractVars
  <2>3. CASE Caller
    <3>1. CASE Receive
      BY <3>1, ReceiveRefines
    <3>2. CASE Ask \/ Enter \/ ReceiveClosed \/ TakeEnd
      BY <3>2, AnswerRefines
    <3>3. CASE Close \/ CloseBase
      BY <3>3 DEF Close, CloseBase, envVars, abstractVars
    <3>. QED BY <2>3, <3>1, <3>2, <3>3 DEF Caller
  <2>4. CASE PCancel
    BY <2>4 DEF PCancel, callerVars, Next, Cancel
  <2>5. CASE UNCHANGED vars
    BY <2>5 DEF vars, callerVars, envVars, abstractVars
  <2>. QED BY <2>1, <2>2, <2>3, <2>4, <2>5 DEF PNext
<1>. QED BY Invariance, <1>1, <1>2, PTL DEF PSafe, Spec, ImplementsOrder

=============================================================================
