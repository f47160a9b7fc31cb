------------------------ MODULE RowGroupReaderProofs ------------------------
(***************************************************************************)
(* Proofs about RowGroupReader for any files, any number of row groups in  *)
(* flight, any limit, floor and channel, in three parts, each with its     *)
(* inductive invariant: FInv, that a file is closed once, by its last      *)
(* user, and Close leaves nothing open; AInv, that what the workers hold   *)
(* ahead of Next is bounded; and SInv, that Next gives what a serial       *)
(* reader gives.  The lemmas on what each step does to the row groups      *)
(* come first, and serve all three.                                        *)
(***************************************************************************)
EXTENDS RowGroupReader, FoldFacts, TLAPS

-----------------------------------------------------------------------------
(* The inductive invariants.                                               *)

TaskPcs == {"loop", "gate", "parked", "decode", "send", "fail", "close", "release", "done"}
Task == [file : Nat, group : Nat, pc : TaskPcs, at : Nat, out : Seq(Nat), pending : Int,
         closed : BOOLEAN]

Typed ==
  /\ files \in Inputs
  /\ fileIdx \in 2..(Len(files) + 1)
  /\ cur \in 0..(fileIdx - 1) /\ rgIndex \in Nat
  /\ tasks \in Seq(Task)
  /\ refs \in [DOMAIN files -> Int] /\ closes \in [DOMAIN files -> Int]
  /\ inflight \in Seq(Nat) /\ stopped \in BOOLEAN
  /\ pc \in {"out", "head", "wait", "taken"}
  /\ closing \in {"no", "gate", "wait", "done"}

(* A file's users are the workers that have not let it go, and the reader  *)
(* while it issues of it; one that was opened and has none is closed.      *)
Users(f) == {t \in DOMAIN tasks : tasks[t].file = f /\ tasks[t].pc # "done"}
UserCount(f) == Cardinality(Users(f)) + (IF cur = f THEN 1 ELSE 0)
RefsCount == \A f \in DOMAIN files : refs[f] = UserCount(f)
ClosedByLast ==
  \A f \in DOMAIN files : closes[f] = IF f < fileIdx /\ refs[f] = 0 THEN 1 ELSE 0
TasksOfOpened == \A t \in DOMAIN tasks : tasks[t].file \in 1..(fileIdx - 1)

(* The row groups in flight, and the one Next waits on, are there.         *)
HeadThere ==
  /\ pc \in {"wait", "taken"} => head \in DOMAIN tasks
  /\ \A k \in DOMAIN inflight : inflight[k] \in DOMAIN tasks

(* What Close has stopped stays so.                                        *)
ClosedDown ==
  /\ closing # "no" => stopped
  /\ closing = "done" => cur = None /\ \A t \in DOMAIN tasks : tasks[t].pc = "done"

FInv == Typed /\ RefsCount /\ ClosedByLast /\ TasksOfOpened /\ HeadThere /\ ClosedDown

-----------------------------------------------------------------------------
(* The reader has neither failed nor been closed.                          *)
Going == ~stopped /\ ~err

Carried(t) == (IF tasks[t].pc = "send" THEN 1 ELSE 0)
                + (IF pc = "taken" /\ head = t THEN 1 ELSE 0)

Told(t) ==
  /\ tasks[t].closed <=> tasks[t].pc \in {"release", "done"}
  /\ tasks[t].pc = "send" => tasks[t].at # None
  /\ tasks[t].pc \notin {"close", "release", "done"}
       => \A k \in DOMAIN tasks[t].out : tasks[t].out[k] # None
WorkersTold == \A t \in DOMAIN tasks : Told(t)

(* What a row group has decoded and Next has not counted off: what is in   *)
(* its channel, on its way to it, and on its way from it.                  *)
Covers(t) ==
  /\ Carried(t) <= tasks[t].pending
  /\ \A k \in DOMAIN tasks[t].out : tasks[t].out[k] # None => k + Carried(t) <= tasks[t].pending
  /\ Going => tasks[t].pending <= Len(tasks[t].out) + Carried(t)
PendingCovers == \A t \in DOMAIN tasks : Covers(t)

Pendings == [t \in DOMAIN tasks |-> tasks[t].pending]
HeldIsPending == held = SumFunctionOnSet(Pendings, DOMAIN tasks)

Settled(t) == tasks[t].pending <= 0 /\ tasks[t].closed
Unsettled == {t \in DOMAIN tasks : ~Settled(t)}
InFlight == {inflight[k] : k \in DOMAIN inflight}
FewUnsettled ==
  /\ Len(inflight) <= Threads
  /\ Going => Unsettled \subseteq InFlight
  /\ Cardinality(Unsettled) <= Threads

(* What a row group holds past its floor, the batch it may decode counted: *)
(* together less than the limit.                                           *)
Weight(t) == tasks[t].pending + (IF tasks[t].pc = "decode" THEN 1 ELSE 0)
Excess(t) == IF Weight(t) > Floor THEN Weight(t) - Floor ELSE 0
Excesses == [t \in DOMAIN tasks |-> Excess(t)]
ExcessBounded == SumFunctionOnSet(Excesses, DOMAIN tasks) < Limit

AInv == FInv /\ WorkersTold /\ PendingCovers /\ HeldIsPending /\ FewUnsettled /\ ExcessBounded

-----------------------------------------------------------------------------
(* The tasks as a sequence.                                                *)

(* A function over a sequence's places, of its type, is a sequence of it.  *)
LEMMA SameLengthSeq ==
  ASSUME NEW S, NEW s \in Seq(S), NEW u \in [DOMAIN s -> S]
  PROVE  u \in Seq(S) /\ Len(u) = Len(s)
<1>1. Len(s) \in Nat /\ DOMAIN s = 1..Len(s)
  OBVIOUS
<1>2. u \in [1..Len(s) -> S]
  BY <1>1
<1>. QED BY <1>1, <1>2

(* The places of a sequence are finitely many.                             *)
LEMMA PlacesFinite ==
  ASSUME NEW S, NEW s \in Seq(S)
  PROVE  IsFiniteSet(DOMAIN s) /\ Cardinality(DOMAIN s) = Len(s)
<1>1. Len(s) \in Nat /\ DOMAIN s = 1..Len(s)
  OBVIOUS
<1>. QED BY <1>1, FS_Interval

(* A step that moves one worker: of its record, only file and group are    *)
(* sure to stay.                                                           *)
Moves(t) ==
  /\ t \in DOMAIN tasks /\ tasks' \in Seq(Task) /\ Len(tasks') = Len(tasks)
  /\ DOMAIN tasks' = DOMAIN tasks
  /\ \A u \in DOMAIN tasks : u # t => tasks'[u] = tasks[u]
  /\ tasks'[t].file = tasks[t].file /\ tasks'[t].group = tasks[t].group

(* Every row group's record, and its channel, have their types.            *)
LEMMA TaskTyped ==
  ASSUME Typed, NEW t \in DOMAIN tasks
  PROVE  /\ tasks[t] \in Task /\ tasks \in Seq(Task)
         /\ Len(tasks[t].out) \in Nat /\ DOMAIN tasks[t].out = 1..Len(tasks[t].out)
<1>1. tasks[t] \in Task /\ tasks \in Seq(Task)
  BY DEF Typed
<1>2. tasks[t].out \in Seq(Nat)
  BY <1>1 DEF Task
<1>. QED BY <1>1, <1>2

(* A step that puts one record of the same file in a worker's place.       *)
LEMMA MovesByRecord ==
  ASSUME Typed, NEW t \in DOMAIN tasks, NEW r \in Task,
         tasks' = [tasks EXCEPT ![t] = r], r.file = tasks[t].file /\ r.group = tasks[t].group
  PROVE  Moves(t) /\ tasks'[t] = r
<1>0. tasks \in Seq(Task)
  BY DEF Typed
<1>1. tasks' \in [DOMAIN tasks -> Task]
  BY <1>0
<1>. QED BY <1>0, <1>1, SameLengthSeq DEF Moves

(* A worker that only goes elsewhere.                                      *)
LEMMA GoesTo ==
  ASSUME Typed, NEW t \in DOMAIN tasks, NEW p \in TaskPcs, Goes(t, p)
  PROVE  /\ Moves(t) /\ tasks'[t].pc = p /\ tasks'[t].at = tasks[t].at
         /\ tasks'[t].out = tasks[t].out /\ tasks'[t].pending = tasks[t].pending
         /\ tasks'[t].closed = tasks[t].closed
<1>. DEFINE r == [tasks[t] EXCEPT !.pc = p]
<1>1. tasks[t] \in Task
  BY TaskTyped
<1>2. r \in Task /\ r.file = tasks[t].file /\ r.group = tasks[t].group
  BY <1>1 DEF Task
<1>3. Moves(t) /\ tasks'[t] = r
  <2>1. tasks' = [tasks EXCEPT ![t] = r]
    BY DEF Goes
  <2>. HIDE DEF r
  <2>. QED BY <1>2, <2>1, MovesByRecord
<1>. QED BY <1>1, <1>3 DEF Task

(* A worker that decodes a batch: one with rows is counted, to be sent.    *)
LEMMA DecodesTo ==
  ASSUME Typed, NEW t \in DOMAIN tasks, WorkerDecodes(t)
  PROVE  /\ Moves(t) /\ tasks'[t].out = tasks[t].out /\ tasks'[t].closed = tasks[t].closed
         /\ tasks'[t].at = tasks[t].at + 1 /\ tasks'[t].pc \in {"send", "loop"}
         /\ tasks'[t].pc = "send" => tasks'[t].pending = tasks[t].pending + 1 /\ held' = held + 1
         /\ tasks'[t].pc = "loop" => tasks'[t].pending = tasks[t].pending /\ held' = held
<1>. DEFINE x == tasks[t]
            n == tasks[t].at + 1
            m == tasks[t].pending + 1
            sent == [x EXCEPT !.pc = "send", !.at = n, !.pending = m]
            gone == [x EXCEPT !.pc = "loop", !.at = n]
<1>1. x \in Task /\ n \in Nat /\ m \in Int
  BY TaskTyped DEF Task
<1>2. \/ tasks' = [tasks EXCEPT ![t] = sent] /\ held' = held + 1
      \/ tasks' = [tasks EXCEPT ![t] = gone] /\ held' = held
  BY DEF WorkerDecodes
<1>3. /\ sent.file = x.file /\ sent.group = x.group /\ sent.out = x.out /\ sent.closed = x.closed
      /\ sent.pc = "send" /\ sent.at = n /\ sent.pending = m
  <2>. HIDE DEF x, n, m
  <2>. QED BY <1>1 DEF Task
<1>4. /\ gone.file = x.file /\ gone.group = x.group /\ gone.out = x.out /\ gone.closed = x.closed
      /\ gone.pc = "loop" /\ gone.at = n /\ gone.pending = x.pending
  <2>. HIDE DEF x, n
  <2>. QED BY <1>1 DEF Task
<1>5. sent \in Task /\ gone \in Task
  <2>. HIDE DEF x, n, m
  <2>. QED BY <1>1 DEF Task, TaskPcs
<1>6. CASE tasks' = [tasks EXCEPT ![t] = sent] /\ held' = held + 1
  <2>1. Moves(t) /\ tasks'[t] = sent
    <3>. HIDE DEF sent
    <3>. QED BY <1>3, <1>5, <1>6, MovesByRecord
  <2>. QED BY <1>3, <1>6, <2>1
<1>7. CASE tasks' = [tasks EXCEPT ![t] = gone] /\ held' = held
  <2>1. Moves(t) /\ tasks'[t] = gone
    <3>. HIDE DEF gone
    <3>. QED BY <1>4, <1>5, <1>7, MovesByRecord
  <2>. QED BY <1>4, <1>7, <2>1
<1>. QED BY <1>2, <1>6, <1>7

(* A worker that sends what it has decoded, or that it failed.             *)
LEMMA SendsTo ==
  ASSUME Typed, NEW t \in DOMAIN tasks, WorkerSends(t)
  PROVE  /\ Moves(t) /\ tasks'[t].pending = tasks[t].pending /\ tasks'[t].at = tasks[t].at
         /\ tasks'[t].closed = tasks[t].closed
         /\ tasks'[t].pc = IF tasks[t].pc = "send" THEN "loop" ELSE "close"
         /\ tasks'[t].out = Append(tasks[t].out, IF tasks[t].pc = "send" THEN tasks[t].at ELSE None)
<1>. DEFINE i == IF tasks[t].pc = "send" THEN tasks[t].at ELSE None
            p == IF tasks[t].pc = "send" THEN "loop" ELSE "close"
            q == Append(tasks[t].out, i)
            r == [tasks[t] EXCEPT !.pc = p, !.out = q]
<1>1. tasks[t] \in Task /\ p \in TaskPcs
  BY TaskTyped DEF TaskPcs
<1>2. i \in Nat /\ tasks[t].out \in Seq(Nat)
  BY <1>1 DEF Task, None
<1>3. q \in Seq(Nat)
  BY <1>2
<1>4. tasks' = [tasks EXCEPT ![t] = r]
  BY DEF WorkerSends
<1>. HIDE DEF i, p, q
<1>5. r \in Task /\ r.file = tasks[t].file /\ r.group = tasks[t].group
  BY <1>1, <1>3 DEF Task
<1>6. Moves(t) /\ tasks'[t] = r
  <2>. HIDE DEF r
  <2>. QED BY <1>4, <1>5, MovesByRecord
<1>. QED BY <1>1, <1>6 DEF Task, p, q, i

(* A worker that closes its channel.                                       *)
LEMMA ClosesTo ==
  ASSUME Typed, NEW t \in DOMAIN tasks, WorkerCloses(t)
  PROVE  /\ Moves(t) /\ tasks'[t].pending = tasks[t].pending /\ tasks'[t].at = tasks[t].at
         /\ tasks'[t].out = tasks[t].out /\ tasks'[t].pc = "release" /\ tasks'[t].closed
<1>. DEFINE r == [tasks[t] EXCEPT !.pc = "release", !.closed = TRUE]
<1>1. tasks[t] \in Task
  BY TaskTyped
<1>2. r \in Task /\ r.file = tasks[t].file /\ r.group = tasks[t].group
  BY <1>1 DEF Task, TaskPcs
<1>3. tasks' = [tasks EXCEPT ![t] = r]
  BY DEF WorkerCloses
<1>4. Moves(t) /\ tasks'[t] = r
  <2>. HIDE DEF r
  <2>. QED BY <1>2, <1>3, MovesByRecord
<1>. QED BY <1>1, <1>4 DEF Task

(* Where a worker that only goes elsewhere goes.                           *)
LEMMA GoesWhere ==
  ASSUME NEW t, WorkerLoops(t) \/ WorkerAsks(t) \/ WorkerFails(t) \/ WorkerGivesUp(t) \/ WorkerEnds(t)
  PROVE  \E p \in TaskPcs :
           /\ Goes(t, p) /\ p # "send" /\ held' = held
           /\ \/ WorkerEnds(t) /\ tasks[t].pc = "release" /\ p = "done"
              \/ ~WorkerEnds(t) /\ tasks[t].pc \notin {"close", "release", "done"}
                   /\ p \notin {"release", "done"}
           /\ tasks[t].pc = "send" => stopped
           /\ p = "decode" => ~Waits(t)
<1>1. CASE WorkerLoops(t)
  BY <1>1 DEF WorkerLoops, WorkerOnly, gate, TaskPcs, WorkerEnds
<1>2. CASE WorkerAsks(t)
  BY <1>2 DEF WorkerAsks, WorkerOnly, gate, TaskPcs, WorkerEnds
<1>3. CASE WorkerFails(t)
  BY <1>3 DEF WorkerFails, AtFailure, WorkerOnly, gate, TaskPcs, WorkerEnds
<1>4. CASE WorkerGivesUp(t)
  BY <1>4 DEF WorkerGivesUp, WorkerOnly, gate, TaskPcs, WorkerEnds
<1>5. CASE WorkerEnds(t)
  BY <1>5 DEF WorkerEnds, gate, TaskPcs
<1>. QED BY <1>1, <1>2, <1>3, <1>4, <1>5

(* A worker's step moves that worker only, and leaves the reader alone.    *)
LEMMA WorkMoves ==
  ASSUME Typed, NEW t \in DOMAIN tasks, Work(t)
  PROVE  /\ Moves(t)
         /\ UNCHANGED <<files, issuing, err, gateStopped, stopped, next, closing>>
<1>1. CASE WorkerLoops(t) \/ WorkerAsks(t) \/ WorkerFails(t) \/ WorkerGivesUp(t) \/ WorkerEnds(t)
  <2>1. Moves(t)
    BY <1>1, GoesWhere, GoesTo
  <2>. QED BY <1>1, <2>1 DEF WorkerLoops, WorkerAsks, WorkerFails, WorkerGivesUp, WorkerEnds, WorkerOnly, gate
<1>2. CASE WorkerDecodes(t)
  <2>1. Moves(t)
    BY <1>2, DecodesTo
  <2>. QED BY <1>2, <2>1 DEF WorkerDecodes
<1>3. CASE WorkerSends(t)
  <2>1. Moves(t)
    BY <1>3, SendsTo
  <2>. QED BY <1>3, <2>1 DEF WorkerSends, WorkerOnly, gate
<1>4. CASE WorkerCloses(t)
  <2>1. Moves(t)
    BY <1>4, ClosesTo
  <2>. QED BY <1>4, <2>1 DEF WorkerCloses, WorkerOnly, gate
<1>. QED BY <1>1, <1>2, <1>3, <1>4 DEF Work

-----------------------------------------------------------------------------
(* The types.                                                              *)

(* A step that changes no more of a worker than its state and its figures. *)
Keeps ==
  /\ tasks' \in Seq(Task) /\ DOMAIN tasks' = DOMAIN tasks
  /\ \A u \in DOMAIN tasks : tasks'[u].file = tasks[u].file /\ tasks'[u].group = tasks[u].group

(* A step that moves one worker leaves every row group its file.           *)
LEMMA MovesKeeps == ASSUME NEW t, Moves(t) PROVE Keeps
BY DEF Moves, Keeps

(* Waking the workers at the gate changes their state only, and moves none *)
(* that is elsewhere.                                                      *)
LEMMA WakesWhat ==
  ASSUME NEW ts \in Seq(Task)
  PROVE  /\ Wakes(ts) \in Seq(Task) /\ DOMAIN Wakes(ts) = DOMAIN ts
         /\ \A u \in DOMAIN ts :
              /\ Wakes(ts)[u].file = ts[u].file /\ Wakes(ts)[u].group = ts[u].group
              /\ Wakes(ts)[u].pending = ts[u].pending
              /\ Wakes(ts)[u].out = ts[u].out /\ Wakes(ts)[u].closed = ts[u].closed
              /\ Wakes(ts)[u].at = ts[u].at
              /\ Wakes(ts)[u].pc = IF ts[u].pc = "parked" THEN "gate" ELSE ts[u].pc
<1>1. \A u \in DOMAIN ts : ts[u] \in Task
  OBVIOUS
<1>2. \A u \in DOMAIN ts : Wakes(ts)[u] = IF ts[u].pc = "parked" THEN [ts[u] EXCEPT !.pc = "gate"] ELSE ts[u]
  BY DEF Wakes
<1>3. \A u \in DOMAIN ts : Wakes(ts)[u] \in Task
  BY <1>1, <1>2 DEF Task, TaskPcs
<1>4. Wakes(ts) \in [DOMAIN ts -> Task]
  BY <1>3 DEF Wakes
<1>5. Wakes(ts) \in Seq(Task)
  BY <1>4, SameLengthSeq
<1>6. DOMAIN Wakes(ts) = DOMAIN ts
  BY <1>4
<1>. QED BY <1>1, <1>2, <1>5, <1>6 DEF Task

(* What Next takes is gone from the head's channel.                        *)
LEMMA ReceiveMoves ==
  ASSUME Typed, HeadThere, Receive
  PROVE  /\ Moves(head)
         /\ tasks'[head] = [tasks[head] EXCEPT !.out = Tail(tasks[head].out)]
<1>1. head \in DOMAIN tasks
  BY DEF Receive, HeadThere
<1>2. tasks[head] \in Task /\ tasks[head].out \in Seq(Nat) /\ tasks[head].out # <<>>
  BY <1>1, TaskTyped DEF Task, Receive
<1>3. Tail(tasks[head].out) \in Seq(Nat)
  BY <1>2
<1>. DEFINE r == [tasks[head] EXCEPT !.out = Tail(tasks[head].out)]
<1>4. r \in Task /\ r.file = tasks[head].file /\ r.group = tasks[head].group
  BY <1>2, <1>3 DEF Task
<1>5. tasks' = [tasks EXCEPT ![head] = r]
  BY DEF Receive
<1>6. Moves(head) /\ tasks'[head] = r
  <2>. HIDE DEF r
  <2>. QED BY <1>1, <1>4, <1>5, MovesByRecord
<1>. QED BY <1>6

(* What Taken does to each row group.                                      *)
LEMMA TakenKeeps ==
  ASSUME Typed, HeadThere, Taken
  PROVE  /\ Keeps
         /\ \A u \in DOMAIN tasks :
              /\ tasks'[u].pending = IF u = head THEN tasks[u].pending - 1 ELSE tasks[u].pending
              /\ tasks'[u].out = tasks[u].out /\ tasks'[u].closed = tasks[u].closed
              /\ tasks'[u].at = tasks[u].at
              /\ tasks'[u].pc = IF tasks[u].pc = "parked" THEN "gate" ELSE tasks[u].pc
<1>1. head \in DOMAIN tasks /\ tasks \in Seq(Task)
  BY DEF Taken, HeadThere, Typed
<1>2. tasks[head] \in Task
  BY <1>1, TaskTyped
<1>. DEFINE ts == [tasks EXCEPT ![head].pending = @ - 1]
            r == [tasks[head] EXCEPT !.pending = @ - 1]
<1>3. r \in Task
  BY <1>2 DEF Task
<1>4. ts \in [DOMAIN tasks -> Task]
  BY <1>1, <1>3
<1>5. ts \in Seq(Task)
  BY <1>1, <1>4, SameLengthSeq
<1>6. DOMAIN ts = DOMAIN tasks
  BY <1>4
<1>7. \A u \in DOMAIN tasks :
        /\ ts[u].pending = IF u = head THEN tasks[u].pending - 1 ELSE tasks[u].pending
        /\ ts[u].out = tasks[u].out /\ ts[u].closed = tasks[u].closed
        /\ ts[u].at = tasks[u].at /\ ts[u].pc = tasks[u].pc
        /\ ts[u].file = tasks[u].file /\ ts[u].group = tasks[u].group
  BY <1>1, <1>2 DEF Task
<1>8. tasks' = Wakes(ts)
  BY DEF Taken
<1>. HIDE DEF ts
<1>. QED BY <1>5, <1>6, <1>7, <1>8, WakesWhat DEF Keeps

(* What closing the gate does to each row group: the parked are woken.     *)
LEMMA GateKeeps ==
  ASSUME Typed, CloseGate
  PROVE  /\ Keeps
         /\ \A u \in DOMAIN tasks :
              /\ tasks'[u].pending = tasks[u].pending
              /\ tasks'[u].out = tasks[u].out /\ tasks'[u].closed = tasks[u].closed
              /\ tasks'[u].at = tasks[u].at
              /\ tasks'[u].pc = IF tasks[u].pc = "parked" THEN "gate" ELSE tasks[u].pc
<1>1. tasks \in Seq(Task)
  BY DEF Typed
<1>. QED BY <1>1, WakesWhat DEF Keeps, CloseGate

(* The row group issued; whether the statistics keep the one considered.   *)
NewTask == [file |-> cur, group |-> rgIndex + 1, pc |-> "loop",
            at |-> 0, out |-> <<>>, pending |-> 0, closed |-> FALSE]
Kept == files[cur].groups[rgIndex + 1].stats = "keep"

AFile == [opens : BOOLEAN, groups : Seq(Groups)]

(* The files a scan reads, at least one of them.                           *)
LEMMA FilesTyped ==
  ASSUME NEW s \in Inputs
  PROVE  s \in Seq(AFile) /\ Len(s) \in Nat \ {0} /\ DOMAIN s = 1..Len(s)
<1>1. s \in Seq(AFile) /\ s # <<>>
  BY ReaderAssumption DEF AFile
<1>. QED BY <1>1

(* The row group considered is there, with one of the three outcomes.      *)
LEMMA GroupTyped ==
  ASSUME Typed, IssueGroup
  PROVE  /\ cur \in DOMAIN files
         /\ files[cur].groups[rgIndex + 1].stats \in {"keep", "skip", "bad"}
<1>1. files \in Seq(AFile) /\ DOMAIN files = 1..Len(files) /\ Len(files) \in Nat
  BY FilesTyped DEF Typed
<1>2. cur \in 1..Len(files) /\ rgIndex \in Nat
  BY <1>1 DEF Typed, IssueGroup, None
<1>3. files[cur] \in AFile
  BY <1>1, <1>2
<1>4. files[cur].groups \in Seq(Groups)
  BY <1>3 DEF AFile
<1>5. rgIndex + 1 \in 1..Len(files[cur].groups)
  BY <1>2, <1>4 DEF IssueGroup
<1>6. files[cur].groups[rgIndex + 1] \in Groups
  BY <1>4, <1>5
<1>. QED BY <1>1, <1>2, <1>6 DEF Groups

(* A row group kept is added after those before it, which stay.            *)
LEMMA IssueAdds ==
  ASSUME Typed, IssueGroup, Kept
  PROVE  LET n == Len(tasks) + 1 IN
         /\ n \in Nat /\ n \notin DOMAIN tasks /\ DOMAIN tasks' = DOMAIN tasks \union {n}
         /\ tasks' \in Seq(Task) /\ tasks'[n] = NewTask
         /\ \A u \in DOMAIN tasks : tasks'[u] = tasks[u]
         /\ inflight' = Append(inflight, n) /\ refs' = [refs EXCEPT ![cur] = @ + 1]
         /\ issueErr' = issueErr
<1>1. tasks \in Seq(Task) /\ Len(tasks) \in Nat /\ DOMAIN tasks = 1..Len(tasks)
  BY DEF Typed
<1>2. NewTask \in Task
  BY DEF NewTask, Task, TaskPcs, Typed
<1>3. tasks' = Append(tasks, NewTask) /\ inflight' = Append(inflight, Len(tasks) + 1)
        /\ refs' = [refs EXCEPT ![cur] = @ + 1] /\ issueErr' = issueErr
  BY DEF IssueGroup, Kept, NewTask
<1>. HIDE DEF NewTask
<1>. QED BY <1>1, <1>2, <1>3

(* Where nothing is issued, tasks, inflight and refs stay as they are.     *)
LEMMA IssueSkips ==
  ASSUME Typed, IssueGroup, ~Kept
  PROVE  UNCHANGED <<tasks, inflight, refs>>
BY GroupTyped DEF IssueGroup, Kept

(* The variables keep their types.                                         *)
LEMMA TypedInit == Init => Typed
<1>. SUFFICES ASSUME Init PROVE Typed
  OBVIOUS
<1>1. Len(files) \in Nat \ {0} /\ DOMAIN files = 1..Len(files)
  BY FilesTyped DEF Init
<1>2. fileIdx \in 2..(Len(files) + 1) /\ cur \in 0..(fileIdx - 1) /\ rgIndex \in Nat
  BY <1>1 DEF Init
<1>3. refs \in [DOMAIN files -> Int] /\ closes \in [DOMAIN files -> Int]
  BY DEF Init
<1>4. files \in Inputs /\ tasks \in Seq(Task) /\ inflight \in Seq(Nat)
  BY DEF Init
<1>5. stopped \in BOOLEAN /\ pc \in {"out", "head", "wait", "taken"}
        /\ closing \in {"no", "gate", "wait", "done"}
  BY DEF Init
<1>. QED BY <1>2, <1>3, <1>4, <1>5 DEF Typed

(* The file let go of has one user less, and is closed with the last.      *)
LEMMA ReleaseTyped ==
  ASSUME Typed, NEW f, Release(f)
  PROVE  refs' \in [DOMAIN files -> Int] /\ closes' \in [DOMAIN files -> Int]
<1>1. refs \in [DOMAIN files -> Int] /\ closes \in [DOMAIN files -> Int]
  BY DEF Typed
<1>2. \A g \in DOMAIN files : refs[g] - 1 \in Int /\ closes[g] + 1 \in Int
  BY <1>1
<1>3. refs' = [refs EXCEPT ![f] = refs[f] - 1]
  BY DEF Release
<1>4. closes' = [closes EXCEPT ![f] = IF refs[f] = 1 THEN closes[f] + 1 ELSE closes[f]]
  BY DEF Release
<1>. QED BY <1>1, <1>2, <1>3, <1>4

(* Every step keeps the types.                                             *)
LEMMA TypedStep == FInv /\ [Next]_vars => Typed'
<1>. SUFFICES ASSUME FInv, [Next]_vars PROVE Typed'
  OBVIOUS
<1>0. /\ Len(files) \in Nat /\ DOMAIN files = 1..Len(files)
      /\ Typed /\ HeadThere
  BY FilesTyped DEF Typed, FInv
<1>a. ASSUME UNCHANGED <<files, fileIdx, cur, rgIndex, inflight, tasks, refs, closes, stopped, closing>>,
             pc' \in {"out", "head", "wait", "taken"}
      PROVE  Typed'
  BY <1>0, <1>a DEF Typed
<1>b. ASSUME UNCHANGED <<files, issuing, refs, closes, pc>>, tasks' \in Seq(Task),
             stopped' \in BOOLEAN, closing' \in {"no", "gate", "wait", "done"}
      PROVE  Typed'
  BY <1>0, <1>b DEF Typed, issuing
<1>1. CASE Cancel \/ CloseStops \/ UNCHANGED vars
  BY <1>0, <1>1, <1>b DEF Cancel, CloseStops, vars, shared, next, Typed
<1>2. CASE NextStarts \/ HeadRefuses
  BY <1>2, <1>a DEF NextStarts, HeadRefuses, NextReturns, issuing, shared
<1>3. CASE HeadAnswers \/ WaitEnds
  BY <1>3, <1>a DEF HeadAnswers, WaitEnds, NextReturns, issuing, shared
<1>4. CASE OpenFile
  <2>1. fileIdx' \in 2..(Len(files) + 1) /\ cur' \in 0..(fileIdx' - 1) /\ rgIndex' \in Nat
    BY <1>0, <1>4 DEF Typed, OpenFile, None
  <2>2. refs' \in [DOMAIN files -> Int]
    BY <1>0, <1>4 DEF Typed, OpenFile
  <2>. QED BY <1>0, <1>4, <2>1, <2>2 DEF Typed, OpenFile, next
<1>5. CASE IssueGroup
  <2>1. UNCHANGED <<files, fileIdx, cur, closes, stopped, pc, closing>> /\ rgIndex' \in Nat
    BY <1>0, <1>5 DEF Typed, IssueGroup, next
  <2>2. CASE Kept
    <3>1. tasks' \in Seq(Task) /\ refs' \in [DOMAIN files -> Int]
      BY <1>0, <1>5, <2>2, IssueAdds DEF Typed
    <3>2. inflight' = Append(inflight, Len(tasks) + 1) /\ Len(tasks) + 1 \in Nat
      BY <1>0, <1>5, <2>2, IssueAdds
    <3>3. inflight' \in Seq(Nat)
      BY <1>0, <3>2 DEF Typed
    <3>. QED BY <1>0, <2>1, <3>1, <3>3 DEF Typed
  <2>3. CASE ~Kept
    <3>1. UNCHANGED <<tasks, inflight, refs>>
      BY <1>0, <1>5, <2>3, IssueSkips
    <3>. QED BY <1>0, <2>1, <3>1 DEF Typed
  <2>. QED BY <2>2, <2>3
<1>6. CASE LeaveFile
  <2>1. refs' \in [DOMAIN files -> Int] /\ closes' \in [DOMAIN files -> Int]
    BY <1>0, <1>6, ReleaseTyped DEF LeaveFile
  <2>. QED BY <1>0, <1>6, <2>1 DEF Typed, LeaveFile, None, next
<1>7. CASE Receive
  <2>1. tasks' \in Seq(Task)
    BY <1>0, <1>7, ReceiveMoves DEF Moves
  <2>2. pc' \in {"out", "head", "wait", "taken"}
    BY <1>7 DEF Receive, NextReturns
  <2>3. UNCHANGED <<files, issuing, refs, closes, stopped, closing>>
    BY <1>7 DEF Receive, shared
  <2>. QED BY <1>0, <2>1, <2>2, <2>3 DEF Typed, issuing
<1>8. CASE Taken
  <2>1. tasks' \in Seq(Task)
    BY <1>0, <1>8, TakenKeeps DEF Keeps
  <2>2. UNCHANGED <<files, issuing, refs, closes, stopped, closing>> /\ pc' = "out"
    BY <1>8 DEF Taken, NextReturns, shared
  <2>. QED BY <1>0, <2>1, <2>2 DEF Typed, issuing
<1>9. CASE ReceiveClosed
  <2>1. inflight' \in Seq(Nat)
    BY <1>0, <1>9 DEF Typed, ReceiveClosed
  <2>. QED BY <1>0, <1>9, <2>1 DEF Typed, ReceiveClosed, shared
<1>10. CASE CloseGate
  <2>1. tasks' \in Seq(Task)
    BY <1>0, <1>10, GateKeeps DEF Keeps
  <2>2. UNCHANGED <<files, issuing, refs, closes, stopped, pc>> /\ closing' = "wait"
    BY <1>10 DEF CloseGate, shared, next
  <2>3. stopped \in BOOLEAN
    BY <1>0 DEF Typed
  <2>. QED BY <2>1, <2>2, <2>3, <1>b
<1>11. CASE CloseEnds
  <2>1. refs' \in [DOMAIN files -> Int] /\ closes' \in [DOMAIN files -> Int]
    BY <1>0, <1>11, ReleaseTyped DEF CloseEnds, shared, Typed
  <2>. QED BY <1>0, <1>11, <2>1 DEF Typed, CloseEnds, None, next
<1>12. ASSUME NEW t \in DOMAIN tasks, Work(t) PROVE Typed'
  <2>1. tasks' \in Seq(Task) /\ UNCHANGED <<files, issuing, stopped, next, closing>>
    BY <1>0, <1>12, WorkMoves DEF Moves
  <2>2. refs' \in [DOMAIN files -> Int] /\ closes' \in [DOMAIN files -> Int]
    <3>1. CASE WorkerEnds(t)
      BY <1>0, <3>1, ReleaseTyped DEF WorkerEnds
    <3>2. CASE ~WorkerEnds(t)
      <4>1. UNCHANGED <<refs, closes>>
        BY <1>12, <3>2 DEF Work, WorkerLoops, WorkerAsks, WorkerDecodes, WorkerFails, WorkerSends,
           WorkerGivesUp, WorkerCloses, WorkerOnly, shared
      <4>. QED BY <1>0, <4>1 DEF Typed
    <3>. QED BY <3>1, <3>2
  <2>. QED BY <1>0, <2>1, <2>2 DEF Typed, issuing, next
<1>. QED BY <1>1, <1>2, <1>3, <1>4, <1>5, <1>6, <1>7, <1>8, <1>9, <1>10, <1>11, <1>12 DEF Next, Reads, Closes

-----------------------------------------------------------------------------
(* The users of each file.                                                 *)

(* A file's users are finitely many.                                       *)
LEMMA UsersFinite ==
  ASSUME Typed, NEW f
  PROVE  IsFiniteSet(Users(f)) /\ Cardinality(Users(f)) \in Nat /\ UserCount(f) \in Nat
<1>1. IsFiniteSet(DOMAIN tasks)
  BY PlacesFinite DEF Typed
<1>2. Users(f) \subseteq DOMAIN tasks
  BY DEF Users
<1>3. IsFiniteSet(Users(f)) /\ Cardinality(Users(f)) \in Nat
  BY <1>1, <1>2, FS_Subset, FS_CardinalityType
<1>. QED BY <1>3 DEF UserCount

(* A step that ends no worker leaves each file its users.                  *)
LEMMA UsersStay ==
  ASSUME Keeps, \A u \in DOMAIN tasks : tasks'[u].pc = "done" <=> tasks[u].pc = "done", NEW f
  PROVE  Users(f)' = Users(f)
BY DEF Keeps, Users

Counted == RefsCount /\ ClosedByLast /\ TasksOfOpened

(* Nor does such a step disturb the counts of users and closes.            *)
LEMMA CountsStay ==
  ASSUME Counted, UNCHANGED <<files, fileIdx, cur, refs, closes>>, Keeps,
         \A u \in DOMAIN tasks : tasks'[u].pc = "done" <=> tasks[u].pc = "done"
  PROVE  Counted'
<1>1. \A f : UserCount(f)' = UserCount(f)
  BY UsersStay DEF UserCount
<1>. QED BY <1>1 DEF Counted, RefsCount, ClosedByLast, TasksOfOpened, Keeps

(* Letting go of a file keeps the counts, and closes it with its last.     *)
LEMMA ReleaseCounts ==
  ASSUME Typed, Counted, UNCHANGED <<files, fileIdx>>, NEW f \in DOMAIN files, Release(f),
         f < fileIdx, UserCount(f) >= 1,
         \A g \in DOMAIN files : UserCount(g)' = IF g = f THEN UserCount(g) - 1 ELSE UserCount(g)
  PROVE  RefsCount' /\ ClosedByLast'
<1>1. refs \in [DOMAIN files -> Int] /\ closes \in [DOMAIN files -> Int]
  BY DEF Typed
<1>2. \A g \in DOMAIN files : refs[g] = UserCount(g) /\ closes[g] = IF g < fileIdx /\ refs[g] = 0 THEN 1 ELSE 0
  BY DEF Counted, RefsCount, ClosedByLast
<1>3. refs' = [refs EXCEPT ![f] = refs[f] - 1]
  BY DEF Release
<1>4. closes' = [closes EXCEPT ![f] = IF refs[f] = 1 THEN closes[f] + 1 ELSE closes[f]]
  BY DEF Release
<1>5. \A g \in DOMAIN files : /\ refs'[g] = IF g = f THEN refs[g] - 1 ELSE refs[g]
                              /\ closes'[g] = IF g = f /\ refs[g] = 1 THEN closes[g] + 1 ELSE closes[g]
  BY <1>1, <1>3, <1>4
<1>6. \A g \in DOMAIN files : refs[g] \in Int
  BY <1>1
<1>7. ASSUME NEW g \in DOMAIN files
      PROVE  refs'[g] = UserCount(g)' /\ closes'[g] = IF g < fileIdx /\ refs'[g] = 0 THEN 1 ELSE 0
  BY <1>2, <1>5, <1>6
<1>. QED BY <1>7 DEF RefsCount, ClosedByLast

(* At first the reader alone uses a file, its first.                       *)
LEMMA CountsInit == Init => Counted
<1>. SUFFICES ASSUME Init PROVE Counted
  OBVIOUS
<1>1. DOMAIN tasks = {} /\ \A f : Users(f) = {}
  BY DEF Init, Users
<1>2. \A f : Cardinality(Users(f)) = 0
  BY <1>1, FS_EmptySet
<1>3. Len(files) \in Nat \ {0} /\ DOMAIN files = 1..Len(files)
  BY FilesTyped DEF Init
<1>4. \A f \in DOMAIN files : refs[f] = UserCount(f)
  BY <1>2, <1>3 DEF UserCount, Init
<1>5. \A f \in DOMAIN files : closes[f] = IF f < fileIdx /\ refs[f] = 0 THEN 1 ELSE 0
  BY <1>3 DEF Init
<1>. QED BY <1>1, <1>4, <1>5 DEF Counted, RefsCount, ClosedByLast, TasksOfOpened

(* Every step keeps a file's count its users', and closes it with its      *)
(* last.                                                                   *)
LEMMA CountsStep == FInv /\ [Next]_vars => Counted'
<1>. SUFFICES ASSUME FInv, [Next]_vars PROVE Counted'
  OBVIOUS
<1>0. /\ Len(files) \in Nat /\ DOMAIN files = 1..Len(files)
      /\ Typed /\ HeadThere /\ Counted /\ tasks \in Seq(Task)
  BY FilesTyped DEF Typed, FInv, Counted
<1>a. ASSUME UNCHANGED <<files, fileIdx, cur, tasks, refs, closes>> PROVE Counted'
  BY <1>0, <1>a DEF Counted, RefsCount, ClosedByLast, TasksOfOpened, UserCount, Users
<1>1. CASE Cancel \/ NextStarts \/ HeadRefuses \/ HeadAnswers \/ WaitEnds \/ CloseStops \/ UNCHANGED vars
  <2>1. UNCHANGED <<files, fileIdx, cur, tasks, refs, closes>>
    BY <1>1 DEF Cancel, NextStarts, HeadRefuses, HeadAnswers, WaitEnds, CloseStops, vars, issuing, shared
  <2>. QED BY <2>1, <1>a
<1>2. CASE ReceiveClosed
  BY <1>2, <1>a DEF ReceiveClosed, shared
<1>3. CASE OpenFile
  <2>1. CASE UNCHANGED <<fileIdx, cur, refs>>
    BY <1>3, <2>1, <1>a DEF OpenFile
  <2>2. CASE ~UNCHANGED <<fileIdx, cur, refs>>
    <3>1. /\ fileIdx \in DOMAIN files /\ cur = None /\ cur' = fileIdx /\ fileIdx' = fileIdx + 1
          /\ refs' = [refs EXCEPT ![fileIdx] = 1] /\ UNCHANGED <<files, tasks, closes>>
      BY <1>0, <1>3, <2>2 DEF OpenFile, Typed
    <3>2. \A f : Users(f)' = Users(f)
      BY <3>1 DEF Users
    <3>3. Users(fileIdx) = {}
      BY <1>0 DEF Users, Counted, TasksOfOpened, Typed
    <3>4. Cardinality(Users(fileIdx)) = 0
      BY <3>3, FS_EmptySet
    <3>5. \A f \in DOMAIN files : refs'[f] = IF f = fileIdx THEN 1 ELSE refs[f]
      BY <1>0, <3>1 DEF Typed
    <3>6. \A f \in DOMAIN files : f \in Nat /\ f # None /\ fileIdx \in Int
      BY <1>0, <3>1 DEF None
    <3>7. \A f \in DOMAIN files : f # fileIdx => UserCount(f)' = UserCount(f)
      BY <3>1, <3>2, <3>6 DEF UserCount
    <3>8. \A f \in DOMAIN files : f = fileIdx => UserCount(f)' = 1
      BY <3>1, <3>2, <3>4 DEF UserCount
    <3>9. RefsCount'
      BY <1>0, <3>1, <3>5, <3>7, <3>8 DEF RefsCount, Counted
    <3>10. ClosedByLast'
      <4>. SUFFICES ASSUME NEW f \in DOMAIN files
                    PROVE  closes[f] = IF f < fileIdx + 1 /\ refs'[f] = 0 THEN 1 ELSE 0
        BY <3>1 DEF ClosedByLast
      <4>1. closes[f] = IF f < fileIdx /\ refs[f] = 0 THEN 1 ELSE 0
        BY <1>0 DEF Counted, ClosedByLast
      <4>. QED BY <3>5, <3>6, <4>1
    <3>11. TasksOfOpened'
      BY <1>0, <3>1 DEF TasksOfOpened, Counted, Typed
    <3>. QED BY <3>9, <3>10, <3>11 DEF Counted
  <2>. QED BY <2>1, <2>2
<1>4. CASE IssueGroup
  <2>1. UNCHANGED <<files, fileIdx, cur, closes>> /\ cur # None
    BY <1>4 DEF IssueGroup
  <2>2. CASE ~Kept
    BY <1>0, <1>4, <2>1, <2>2, <1>a, IssueSkips
  <2>3. CASE Kept
    <3>. DEFINE n == Len(tasks) + 1
    <3>1. /\ n \notin DOMAIN tasks /\ DOMAIN tasks' = DOMAIN tasks \union {n}
          /\ tasks'[n] = NewTask /\ \A u \in DOMAIN tasks : tasks'[u] = tasks[u]
          /\ refs' = [refs EXCEPT ![cur] = @ + 1]
      BY <1>0, <1>4, <2>3, IssueAdds
    <3>. HIDE DEF n
    <3>2. tasks'[n].file = cur /\ tasks'[n].pc # "done"
      BY <3>1 DEF NewTask
    <3>3. Users(cur)' = Users(cur) \union {n} /\ n \notin Users(cur)
      BY <2>1, <3>1, <3>2 DEF Users
    <3>4. \A f : f # cur => Users(f)' = Users(f)
      BY <2>1, <3>1, <3>2 DEF Users
    <3>5. Cardinality(Users(cur)') = Cardinality(Users(cur)) + 1
      BY <1>0, <3>3, UsersFinite, FS_AddElement
    <3>6. UserCount(cur)' = UserCount(cur) + 1 /\ \A f : f # cur => UserCount(f)' = UserCount(f)
      <4>1. Cardinality(Users(cur)) \in Nat
        BY <1>0, UsersFinite
      <4>. QED BY <2>1, <3>4, <3>5, <4>1 DEF UserCount
    <3>7. cur \in DOMAIN files /\ cur < fileIdx
      BY <1>0, <2>1 DEF Typed, None
    <3>8. \A f \in DOMAIN files : refs[f] = UserCount(f) /\ UserCount(f) \in Nat
      BY <1>0, UsersFinite DEF Counted, RefsCount
    <3>9. \A f \in DOMAIN files : refs'[f] = IF f = cur THEN refs[f] + 1 ELSE refs[f]
      BY <1>0, <3>1, <3>7 DEF Typed
    <3>10. RefsCount'
      BY <2>1, <3>6, <3>8, <3>9 DEF RefsCount
    <3>11. refs[cur] >= 1
      <4>1. Cardinality(Users(cur)) \in Nat
        BY <1>0, UsersFinite
      <4>. QED BY <3>7, <3>8, <4>1 DEF UserCount
    <3>12. ClosedByLast'
      <4>1. \A f \in DOMAIN files : closes[f] = IF f < fileIdx /\ refs[f] = 0 THEN 1 ELSE 0
        BY <1>0 DEF Counted, ClosedByLast
      <4>2. refs'[cur] # 0 /\ refs[cur] # 0
        BY <3>7, <3>8, <3>9, <3>11
      <4>3. \A f \in DOMAIN files : refs'[f] = 0 <=> refs[f] = 0
        BY <3>9, <4>2
      <4>. QED BY <2>1, <4>1, <4>3 DEF ClosedByLast
    <3>13. TasksOfOpened'
      <4>1. cur \in 1..(fileIdx - 1)
        BY <1>0, <2>1 DEF Typed, None
      <4>2. \A t \in DOMAIN tasks : tasks[t].file \in 1..(fileIdx - 1)
        BY <1>0 DEF Counted, TasksOfOpened
      <4>. QED BY <2>1, <3>1, <3>2, <4>1, <4>2 DEF TasksOfOpened
    <3>. QED BY <3>10, <3>12, <3>13 DEF Counted
  <2>. QED BY <2>2, <2>3
<1>5. ASSUME cur # None, Release(cur), cur' = None, UNCHANGED <<files, fileIdx, tasks>> PROVE Counted'
  <2>1. cur \in DOMAIN files /\ cur < fileIdx
    BY <1>0, <1>5 DEF Typed, None
  <2>2. \A f \in DOMAIN files : f # None /\ Users(f)' = Users(f) /\ Cardinality(Users(f)) \in Nat
    <3>1. \A f : Users(f)' = Users(f)
      BY <1>5 DEF Users
    <3>2. \A f : Cardinality(Users(f)) \in Nat
      BY <1>0, UsersFinite
    <3>. QED BY <1>0, <3>1, <3>2 DEF None
  <2>3. \A f \in DOMAIN files : UserCount(f)' = IF f = cur THEN UserCount(f) - 1 ELSE UserCount(f)
    BY <1>5, <2>2 DEF UserCount
  <2>4. UserCount(cur) >= 1
    BY <2>1, <2>2 DEF UserCount
  <2>5. RefsCount' /\ ClosedByLast'
    BY <1>0, <1>5, <2>1, <2>3, <2>4, ReleaseCounts
  <2>6. TasksOfOpened'
    BY <1>0, <1>5 DEF Counted, TasksOfOpened
  <2>. QED BY <2>5, <2>6 DEF Counted
<1>6. CASE LeaveFile
  BY <1>5, <1>6 DEF LeaveFile
<1>7. CASE CloseEnds
  <2>1. CASE cur = None
    BY <1>7, <2>1, <1>a DEF CloseEnds, shared
  <2>2. CASE cur # None
    BY <1>7, <2>2, <1>5 DEF CloseEnds
  <2>. QED BY <2>1, <2>2
<1>8. CASE Receive
  <2>1. Moves(head) /\ tasks'[head] = [tasks[head] EXCEPT !.out = Tail(tasks[head].out)] /\ tasks[head] \in Task
    BY <1>0, <1>8, ReceiveMoves, TaskTyped DEF Moves
  <2>2. Keeps /\ tasks'[head].pc = tasks[head].pc
    BY <2>1, MovesKeeps DEF Task
  <2>3. \A u \in DOMAIN tasks : tasks'[u].pc = tasks[u].pc
    BY <2>1, <2>2 DEF Moves
  <2>. QED BY <1>0, <1>8, <2>2, <2>3, CountsStay DEF Receive, issuing, shared
<1>9. CASE Taken
  <2>1. Keeps /\ \A u \in DOMAIN tasks : tasks'[u].pc = "done" <=> tasks[u].pc = "done"
    BY <1>0, <1>9, TakenKeeps
  <2>. QED BY <1>0, <1>9, <2>1, CountsStay DEF Taken, issuing, shared
<1>10. CASE CloseGate
  <2>1. Keeps /\ \A u \in DOMAIN tasks : tasks'[u].pc = "done" <=> tasks[u].pc = "done"
    BY <1>0, <1>10, GateKeeps
  <2>. QED BY <1>0, <1>10, <2>1, CountsStay DEF CloseGate, issuing, shared
<1>11. ASSUME NEW t \in DOMAIN tasks, Work(t) PROVE Counted'
  <2>1. Moves(t) /\ UNCHANGED <<files, issuing>> /\ tasks[t] \in Task
    BY <1>0, <1>11, WorkMoves, TaskTyped
  <2>2. CASE WorkerEnds(t)
    <3>1. PICK f \in DOMAIN files : f = tasks[t].file /\ f < fileIdx
      BY <1>0 DEF Counted, TasksOfOpened, Typed
    <3>2. tasks[t].pc = "release" /\ tasks'[t].pc = "done" /\ Release(f)
      BY <1>0, <2>2, <3>1, GoesTo DEF WorkerEnds, TaskPcs
    <3>3. t \in Users(f) /\ Users(f)' = Users(f) \ {t}
      BY <2>1, <3>1, <3>2 DEF Users, Moves
    <3>4. \A g : g # f => Users(g)' = Users(g)
      BY <2>1, <3>1, <3>2 DEF Users, Moves
    <3>5. Cardinality(Users(f)') = Cardinality(Users(f)) - 1 /\ Cardinality(Users(f)) \in Nat
      BY <1>0, <3>3, UsersFinite, FS_RemoveElement
    <3>6. Cardinality(Users(f)) # 0
      BY <1>0, <3>3, UsersFinite, FS_EmptySet
    <3>7. cur' = cur /\ UNCHANGED <<files, fileIdx>>
      BY <2>1 DEF issuing
    <3>8. \A g \in DOMAIN files : UserCount(g)' = IF g = f THEN UserCount(g) - 1 ELSE UserCount(g)
      BY <3>4, <3>5, <3>7 DEF UserCount
    <3>9. UserCount(f) >= 1
      BY <3>5, <3>6 DEF UserCount
    <3>10. RefsCount' /\ ClosedByLast'
      BY <1>0, <3>1, <3>2, <3>7, <3>8, <3>9, ReleaseCounts
    <3>11. TasksOfOpened'
      BY <1>0, <2>1, <3>7 DEF Counted, TasksOfOpened, Moves
    <3>. QED BY <3>10, <3>11 DEF Counted
  <2>3. CASE ~WorkerEnds(t)
    <3>1. UNCHANGED <<refs, closes>>
      BY <1>11, <2>3 DEF Work, WorkerLoops, WorkerAsks, WorkerDecodes, WorkerFails, WorkerSends,
         WorkerGivesUp, WorkerCloses, WorkerOnly, shared
    <3>2. tasks[t].pc # "done" /\ tasks'[t].pc # "done"
      <4>1. CASE WorkerLoops(t) \/ WorkerAsks(t) \/ WorkerFails(t) \/ WorkerGivesUp(t)
        BY <1>0, <2>3, <4>1, GoesWhere, GoesTo
      <4>2. CASE WorkerDecodes(t)
        BY <1>0, <4>2, DecodesTo DEF WorkerDecodes
      <4>3. CASE WorkerSends(t)
        BY <1>0, <4>3, SendsTo DEF WorkerSends
      <4>4. CASE WorkerCloses(t)
        BY <1>0, <4>4, ClosesTo DEF WorkerCloses
      <4>. QED BY <1>11, <2>3, <4>1, <4>2, <4>3, <4>4 DEF Work
    <3>. QED BY <1>0, <2>1, <3>1, <3>2, CountsStay, MovesKeeps DEF issuing, Moves
  <2>. QED BY <2>2, <2>3
<1>. QED BY <1>1, <1>2, <1>3, <1>4, <1>6, <1>7, <1>8, <1>9, <1>10, <1>11 DEF Next, Reads, Closes

-----------------------------------------------------------------------------
(* What Next waits on, and what Close has stopped.                         *)

(* No step but an issue changes which row groups there are.                *)
LEMMA TasksStay ==
  ASSUME Typed, HeadThere, [Next]_vars, ~(IssueGroup /\ Kept)
  PROVE  DOMAIN tasks' = DOMAIN tasks
<1>1. CASE Cancel \/ NextStarts \/ HeadRefuses \/ HeadAnswers \/ WaitEnds \/ CloseStops \/ UNCHANGED vars
  BY <1>1 DEF Cancel, NextStarts, HeadRefuses, HeadAnswers, WaitEnds, CloseStops, vars
<1>2. CASE OpenFile \/ LeaveFile \/ ReceiveClosed \/ CloseEnds
  BY <1>2 DEF OpenFile, LeaveFile, ReceiveClosed, CloseEnds
<1>3. CASE IssueGroup
  BY <1>3, IssueSkips
<1>4. CASE Receive \/ Taken \/ CloseGate
  BY <1>4, ReceiveMoves, TakenKeeps, GateKeeps DEF Moves, Keeps
<1>5. ASSUME NEW t \in DOMAIN tasks, Work(t) PROVE DOMAIN tasks' = DOMAIN tasks
  BY <1>5, WorkMoves DEF Moves
<1>. QED BY <1>1, <1>2, <1>3, <1>4, <1>5 DEF Next, Reads, Closes

(* The row groups in flight, and the one waited on, stay there.            *)
LEMMA HeadStep == FInv /\ [Next]_vars => HeadThere'
<1>. SUFFICES ASSUME FInv, [Next]_vars PROVE HeadThere'
  OBVIOUS
<1>0. Typed /\ HeadThere /\ inflight \in Seq(Nat)
  BY DEF FInv, Typed
<1>1. CASE IssueGroup /\ Kept
  <2>. DEFINE n == Len(tasks) + 1
  <2>1. DOMAIN tasks' = DOMAIN tasks \union {n} /\ inflight' = Append(inflight, n) /\ n \in Nat
    BY <1>0, <1>1, IssueAdds
  <2>2. UNCHANGED <<pc, head>>
    BY <1>1 DEF IssueGroup, next
  <2>. HIDE DEF n
  <2>3. \A k \in DOMAIN inflight' : inflight'[k] = n \/ (k \in DOMAIN inflight /\ inflight'[k] = inflight[k])
    <3>1. DOMAIN inflight = 1..Len(inflight) /\ Len(inflight) \in Nat
      BY <1>0
    <3>2. DOMAIN inflight' = 1..(Len(inflight) + 1) /\ inflight'[Len(inflight) + 1] = n
            /\ \A k \in 1..Len(inflight) : inflight'[k] = inflight[k]
      BY <1>0, <2>1
    <3>3. \A k \in 1..(Len(inflight) + 1) : k = Len(inflight) + 1 \/ k \in 1..Len(inflight)
      BY <3>1
    <3>. QED BY <3>1, <3>2, <3>3
  <2>. QED BY <1>0, <2>1, <2>2, <2>3 DEF HeadThere
<1>2. CASE ~(IssueGroup /\ Kept)
  <2>0. DOMAIN tasks' = DOMAIN tasks
    BY <1>0, <1>2, TasksStay
  <2>a. ASSUME UNCHANGED inflight, pc' \in {"wait", "taken"} => pc \in {"wait", "taken"} /\ head' = head
        PROVE  HeadThere'
    BY <1>0, <2>0, <2>a DEF HeadThere
  <2>1. CASE Cancel \/ NextStarts \/ HeadRefuses \/ WaitEnds \/ CloseStops \/ UNCHANGED vars
    BY <2>1, <2>a DEF Cancel, NextStarts, HeadRefuses, WaitEnds, CloseStops, NextReturns, vars, issuing, next
  <2>2. CASE OpenFile \/ LeaveFile \/ CloseGate
    BY <2>2, <2>a DEF OpenFile, LeaveFile, CloseGate, issuing, next
  <2>3. CASE IssueGroup
    <3>1. UNCHANGED inflight
      BY <1>0, <1>2, <2>3, IssueSkips
    <3>. QED BY <2>3, <2>a, <3>1 DEF IssueGroup, next
  <2>4. CASE HeadAnswers
    <3>1. UNCHANGED inflight
      BY <2>4 DEF HeadAnswers, issuing
    <3>2. pc' \in {"wait", "taken"} => inflight # <<>> /\ head' = inflight[1]
      BY <2>4 DEF HeadAnswers, NextReturns
    <3>3. inflight # <<>> => 1 \in DOMAIN inflight
      BY <1>0
    <3>. QED BY <1>0, <2>0, <3>1, <3>2, <3>3 DEF HeadThere
  <2>5. CASE Receive
    BY <2>5, <2>a DEF Receive, NextReturns, issuing
  <2>6. CASE Taken
    BY <2>6, <2>a DEF Taken, NextReturns, issuing
  <2>7. CASE ReceiveClosed
    <3>1. \A k \in DOMAIN inflight' : \E j \in DOMAIN inflight : inflight'[k] = inflight[j]
      BY <1>0, <2>7 DEF ReceiveClosed
    <3>2. pc' = "head"
      BY <2>7 DEF ReceiveClosed
    <3>. QED BY <1>0, <2>0, <3>1, <3>2 DEF HeadThere
  <2>8. CASE CloseEnds
    BY <1>0, <2>0, <2>8 DEF CloseEnds, HeadThere, next
  <2>9. ASSUME NEW t \in DOMAIN tasks, Work(t) PROVE HeadThere'
    BY <1>0, <2>9, <2>a, WorkMoves DEF issuing, next
  <2>. QED BY <2>1, <2>2, <2>3, <2>4, <2>5, <2>6, <2>7, <2>8, <2>9 DEF Next, Reads, Closes
<1>. QED BY <1>1, <1>2

(* Nothing starts again after Close.                                       *)
LEMMA ClosedDownStep == FInv /\ [Next]_vars => ClosedDown'
<1>. SUFFICES ASSUME FInv, [Next]_vars PROVE ClosedDown'
  OBVIOUS
<1>0. Typed /\ HeadThere /\ ClosedDown
  BY DEF FInv
<1>a. ASSUME UNCHANGED <<stopped, closing>>, cur' = cur, DOMAIN tasks' = DOMAIN tasks,
             \A t \in DOMAIN tasks : tasks[t].pc = "done" => tasks'[t].pc = "done"
      PROVE  ClosedDown'
  BY <1>0, <1>a DEF ClosedDown
<1>b. ASSUME UNCHANGED <<stopped, closing>>, ~stopped PROVE ClosedDown'
  BY <1>0, <1>b DEF ClosedDown
<1>1. CASE Cancel \/ NextStarts \/ HeadRefuses \/ HeadAnswers \/ WaitEnds \/ ReceiveClosed \/ UNCHANGED vars
  BY <1>1, <1>a DEF Cancel, NextStarts, HeadRefuses, HeadAnswers, WaitEnds, ReceiveClosed, vars, issuing
<1>2. CASE OpenFile \/ IssueGroup \/ LeaveFile
  BY <1>2, <1>b DEF OpenFile, IssueGroup, LeaveFile, Issues
<1>3. CASE Receive
  <2>1. tasks[head] \in Task
    BY <1>0, <1>3, TaskTyped DEF Receive, HeadThere
  <2>2. tasks'[head].pc = tasks[head].pc
    BY <1>0, <1>3, <2>1, ReceiveMoves DEF Task
  <2>. QED BY <1>0, <1>3, <1>a, <2>2, ReceiveMoves DEF Receive, Moves, issuing
<1>4. CASE Taken
  BY <1>0, <1>4, <1>a, TakenKeeps DEF Taken, Keeps, issuing
<1>5. CASE CloseStops
  BY <1>0, <1>5 DEF CloseStops, ClosedDown
<1>6. CASE CloseGate
  BY <1>0, <1>6 DEF CloseGate, ClosedDown
<1>7. CASE CloseEnds
  BY <1>0, <1>7 DEF CloseEnds, ClosedDown
<1>8. ASSUME NEW t \in DOMAIN tasks, Work(t) PROVE ClosedDown'
  <2>1. Moves(t) /\ UNCHANGED <<stopped, closing>> /\ cur' = cur
    BY <1>0, <1>8, WorkMoves DEF issuing
  <2>2. tasks[t].pc # "done"
    BY <1>8, GoesWhere DEF Work, WorkerDecodes, WorkerSends, WorkerCloses
  <2>. QED BY <1>a, <2>1, <2>2 DEF Moves
<1>. QED BY <1>1, <1>2, <1>3, <1>4, <1>5, <1>6, <1>7, <1>8 DEF Next, Reads, Closes

(* The files' invariant holds of every state of the reader.                *)
THEOREM FilesInvariance == Safe => []FInv
<1>1. Init => FInv
  <2>1. Init => HeadThere /\ ClosedDown
    BY DEF Init, HeadThere, ClosedDown
  <2>. QED BY <2>1, TypedInit, CountsInit DEF FInv, Counted
<1>2. FInv /\ [Next]_vars => FInv'
  BY TypedStep, CountsStep, HeadStep, ClosedDownStep DEF FInv, Counted
<1>. QED BY <1>1, <1>2, PTL DEF Safe

(* No file is closed under a worker that reads it, nor twice, whichever    *)
(* of the workers, the reader and Close lets go of it last.                *)
THEOREM NoFileClosedEarly == Spec => []FileOpenWhileRead
<1>1. FInv => FileOpenWhileRead
  <2>. SUFFICES ASSUME FInv PROVE FileOpenWhileRead
    OBVIOUS
  <2>0. Typed /\ RefsCount /\ ClosedByLast /\ TasksOfOpened /\ DOMAIN files = 1..Len(files) /\ Len(files) \in Nat
    BY FilesTyped DEF FInv, Typed
  <2>1. ASSUME NEW t \in DOMAIN tasks, tasks[t].pc # "done" PROVE closes[tasks[t].file] = 0
    <3>1. PICK f \in DOMAIN files : f = tasks[t].file /\ f < fileIdx
      BY <2>0 DEF TasksOfOpened, Typed
    <3>2. t \in Users(f) /\ IsFiniteSet(Users(f)) /\ Cardinality(Users(f)) \in Nat
      BY <2>0, <2>1, <3>1, UsersFinite DEF Users
    <3>3. Cardinality(Users(f)) # 0
      BY <3>2, FS_EmptySet
    <3>4. refs[f] # 0
      BY <2>0, <3>2, <3>3 DEF RefsCount, UserCount
    <3>. QED BY <2>0, <3>1, <3>4 DEF ClosedByLast
  <2>2. \A f \in DOMAIN files : closes[f] <= 1
    BY <2>0 DEF ClosedByLast
  <2>. QED BY <2>1, <2>2 DEF FileOpenWhileRead
<1>. QED BY <1>1, FilesInvariance, PTL DEF Spec

(* Once Close has returned no worker runs, and every file that was opened  *)
(* is closed: by whom does not matter.                                     *)
THEOREM ClosedWhole == Spec => []CloseIsWhole
<1>1. FInv => CloseIsWhole
  <2>. SUFFICES ASSUME FInv, closing = "done"
                PROVE  /\ \A t \in DOMAIN tasks : tasks[t].pc = "done"
                       /\ \A f \in DOMAIN files : refs[f] = 0 /\ (f < fileIdx => closes[f] = 1)
    BY DEF CloseIsWhole
  <2>0. RefsCount /\ ClosedByLast /\ cur = None /\ DOMAIN files = 1..Len(files) /\ Len(files) \in Nat
    BY FilesTyped DEF FInv, ClosedDown, Typed
  <2>1. \A t \in DOMAIN tasks : tasks[t].pc = "done"
    BY DEF FInv, ClosedDown
  <2>2. \A f : Users(f) = {}
    BY <2>1 DEF Users
  <2>3. \A f \in DOMAIN files : refs[f] = 0
    <3>1. \A f : Cardinality(Users(f)) = 0
      BY <2>2, FS_EmptySet
    <3>. QED BY <2>0, <3>1 DEF RefsCount, UserCount, None
  <2>. QED BY <2>0, <2>1, <2>3 DEF ClosedByLast
<1>. QED BY <1>1, FilesInvariance, PTL DEF Spec

-----------------------------------------------------------------------------
(* What each worker holds.                                                 *)

(* A worker's step keeps its own figures in step.                          *)
LEMMA WorkTells ==
  ASSUME Typed, NEW t \in DOMAIN tasks, Work(t), Told(t), Covers(t)
  PROVE  /\ Told(t)' /\ Covers(t)'
         /\ tasks'[t].pending > 0 \/ ~tasks'[t].closed => tasks[t].pending > 0 \/ ~tasks[t].closed
<1>0. /\ tasks[t] \in Task /\ tasks[t].pending \in Int /\ tasks[t].at \in Nat
      /\ tasks[t].out \in Seq(Nat) /\ Len(tasks[t].out) \in Nat
      /\ DOMAIN tasks[t].out = 1..Len(tasks[t].out)
      /\ Carried(t) \in 0..2
  BY TaskTyped DEF Task, Carried
<1>1. Going' <=> Going
  BY WorkMoves DEF Going
<1>2. Carried(t)' = Carried(t) - (IF tasks[t].pc = "send" THEN 1 ELSE 0) + (IF tasks'[t].pc = "send" THEN 1 ELSE 0)
  BY WorkMoves DEF Carried, next
<1>3. CASE WorkerLoops(t) \/ WorkerAsks(t) \/ WorkerFails(t) \/ WorkerGivesUp(t) \/ WorkerEnds(t)
  <2>1. PICK p \in TaskPcs :
           /\ Goes(t, p) /\ p # "send"
           /\ \/ tasks[t].pc = "release" /\ p = "done"
              \/ tasks[t].pc \notin {"close", "release", "done"} /\ p \notin {"release", "done"}
           /\ tasks[t].pc = "send" => stopped
    BY <1>3, GoesWhere
  <2>2. /\ tasks'[t].pc = p /\ tasks'[t].at = tasks[t].at
        /\ tasks'[t].out = tasks[t].out /\ tasks'[t].pending = tasks[t].pending
        /\ tasks'[t].closed = tasks[t].closed
    BY <2>1, GoesTo
  <2>3. Told(t)'
    BY <2>1, <2>2 DEF Told
  <2>4. Carried(t)' <= Carried(t) /\ Carried(t)' \in Int /\ (Going => Carried(t)' = Carried(t))
    BY <1>0, <1>2, <2>1, <2>2 DEF Going
  <2>5. Covers(t)'
    <3>. DEFINE c == Carried(t)'
                d == Carried(t)
                m == tasks[t].pending
                q == tasks[t].out
    <3>1. c <= d /\ c \in Int /\ d \in Int /\ m \in Int /\ (Going => c = d) /\ DOMAIN q \subseteq Int
      BY <1>0, <2>4
    <3>2. /\ d <= m /\ (\A k \in DOMAIN q : q[k] # None => k + d <= m)
          /\ Going => m <= Len(q) + d
      BY DEF Covers
    <3>. HIDE DEF c, d, m, q
    <3>3. /\ c <= m /\ (\A k \in DOMAIN q : q[k] # None => k + c <= m)
          /\ Going => m <= Len(q) + c
      BY <3>1, <3>2
    <3>. QED BY <1>1, <2>2, <3>3 DEF Covers, c, m, q
  <2>. QED BY <2>2, <2>3, <2>5
<1>4. CASE WorkerDecodes(t)
  <2>1. /\ tasks'[t].out = tasks[t].out /\ tasks'[t].closed = tasks[t].closed
        /\ tasks'[t].at = tasks[t].at + 1 /\ tasks'[t].pc \in {"send", "loop"}
        /\ tasks'[t].pc = "send" => tasks'[t].pending = tasks[t].pending + 1
        /\ tasks'[t].pc = "loop" => tasks'[t].pending = tasks[t].pending
        /\ tasks[t].pc = "decode"
    BY <1>4, DecodesTo DEF WorkerDecodes
  <2>2. Told(t)' /\ ~tasks[t].closed
    <3>1. ~tasks[t].closed /\ ~tasks'[t].closed /\ \A k \in DOMAIN tasks[t].out : tasks[t].out[k] # None
      BY <2>1 DEF Told
    <3>2. tasks[t].at + 1 # 0
      BY <1>0
    <3>. QED BY <2>1, <3>1, <3>2 DEF Told, None
  <2>3. Carried(t)' \in Int /\ tasks'[t].pending - Carried(t)' = tasks[t].pending - Carried(t)
          /\ tasks'[t].pending \in Int
    BY <1>0, <1>2, <2>1
  <2>4. Covers(t)'
    <3>. DEFINE c == Carried(t)'
                d == Carried(t)
                m == tasks[t].pending
                n == tasks'[t].pending
                q == tasks[t].out
    <3>1. n - c = m - d /\ c \in Int /\ d \in Int /\ m \in Int /\ n \in Int
            /\ DOMAIN q \subseteq Int /\ Len(q) \in Int
      BY <1>0, <2>3
    <3>2. /\ d <= m /\ (\A k \in DOMAIN q : q[k] # None => k + d <= m)
          /\ Going => m <= Len(q) + d
      BY DEF Covers
    <3>. HIDE DEF c, d, m, n, q
    <3>3. /\ c <= n /\ (\A k \in DOMAIN q : q[k] # None => k + c <= n)
          /\ Going => n <= Len(q) + c
      BY <3>1, <3>2
    <3>. QED BY <1>1, <2>1, <3>3 DEF Covers, c, n, q
  <2>. QED BY <2>2, <2>4
<1>5. CASE WorkerSends(t)
  <2>. DEFINE i == IF tasks[t].pc = "send" THEN tasks[t].at ELSE None
              q == tasks[t].out
  <2>1. /\ tasks'[t].pending = tasks[t].pending /\ tasks'[t].closed = tasks[t].closed
        /\ tasks'[t].pc = (IF tasks[t].pc = "send" THEN "loop" ELSE "close")
        /\ tasks'[t].out = Append(q, i) /\ tasks[t].pc \in {"send", "fail"}
    BY <1>5, SendsTo DEF WorkerSends
  <2>2. i \in Nat /\ (tasks[t].pc = "send" => i # None) /\ (tasks[t].pc # "send" => i = None)
    BY <1>0 DEF Told, None
  <2>3. \A k \in 1..Len(q) : q[k] # None
    BY <1>0, <2>1 DEF Told
  <2>4. /\ DOMAIN Append(q, i) = 1..(Len(q) + 1) /\ Len(Append(q, i)) = Len(q) + 1
        /\ Append(q, i)[Len(q) + 1] = i /\ \A k \in 1..Len(q) : Append(q, i)[k] = q[k]
    BY <1>0, <2>2
  <2>. HIDE DEF i, q
  <2>5. Len(q) \in Nat /\ \A k \in 1..(Len(q) + 1) : k = Len(q) + 1 \/ k \in 1..Len(q)
    BY <1>0 DEF q
  <2>6. Told(t)'
    <3>1. tasks'[t].closed <=> tasks'[t].pc \in {"release", "done"}
      BY <2>1 DEF Told
    <3>2. tasks[t].pc = "send" => \A k \in DOMAIN Append(q, i) : Append(q, i)[k] # None
      BY <2>2, <2>3, <2>4, <2>5
    <3>. QED BY <2>1, <3>1, <3>2 DEF Told
  <2>7. Carried(t)' = Carried(t) - (IF tasks[t].pc = "send" THEN 1 ELSE 0) /\ Carried(t)' \in Int
    BY <1>0, <1>2, <2>1
  <2>8. Covers(t)'
    <3>. DEFINE c == Carried(t)'
                d == Carried(t)
                m == tasks[t].pending
                L == Len(q)
    <3>0. c = d - (IF tasks[t].pc = "send" THEN 1 ELSE 0) /\ d \in 0..2 /\ m \in Int /\ L \in Nat /\ c \in Int
      BY <1>0, <2>5, <2>7
    <3>1. d <= m /\ (\A k \in 1..L : k + d <= m) /\ (Going => m <= L + d)
      BY <1>0, <2>3 DEF Covers, q
    <3>2. i # None => tasks[t].pc = "send"
      BY <2>2
    <3>. HIDE DEF c, d, m, L
    <3>3. c <= m
      BY <3>0, <3>1
    <3>4. L = 0 \/ L \in 1..L
      BY <3>0
    <3>5. L + d <= m
      BY <3>0, <3>1, <3>4
    <3>6. tasks[t].pc = "send" => (L + 1) + c <= m
      BY <3>0, <3>5
    <3>7. \A k \in 1..L : k + c <= m
      BY <3>0, <3>1
    <3>8. Going => m <= (L + 1) + c
      BY <3>0, <3>1
    <3>9. \A k \in DOMAIN Append(q, i) : Append(q, i)[k] # None => k + c <= m
      BY <2>4, <2>5, <3>2, <3>6, <3>7 DEF L
    <3>. QED BY <1>1, <2>1, <2>4, <3>3, <3>8, <3>9 DEF Covers, c, m, L
  <2>. QED BY <2>1, <2>6, <2>8
<1>6. CASE WorkerCloses(t)
  <2>1. /\ tasks'[t].pending = tasks[t].pending /\ tasks'[t].out = tasks[t].out
        /\ tasks'[t].pc = "release" /\ tasks'[t].closed /\ tasks[t].pc = "close"
    BY <1>6, ClosesTo DEF WorkerCloses
  <2>2. Carried(t)' = Carried(t)
    BY <1>0, <1>2, <2>1
  <2>3. Covers(t)'
    BY <1>1, <2>1, <2>2 DEF Covers
  <2>4. Told(t)' /\ ~tasks[t].closed
    BY <2>1 DEF Told
  <2>. QED BY <2>3, <2>4
<1>. QED BY <1>3, <1>4, <1>5, <1>6 DEF Work

(* A row group a step leaves alone, but for waking it.                     *)
Same(u) ==
  /\ tasks'[u].pending = tasks[u].pending /\ tasks'[u].out = tasks[u].out
  /\ tasks'[u].closed = tasks[u].closed /\ tasks'[u].at = tasks[u].at
  /\ \/ tasks'[u].pc = tasks[u].pc
     \/ tasks[u].pc = "parked" /\ tasks'[u].pc = "gate"

(* A row group left alone keeps its figures.                               *)
LEMMA OthersTell ==
  ASSUME NEW u, Told(u), Covers(u), Going' => Going, Same(u),
         (pc' = "taken" /\ head' = u) <=> (pc = "taken" /\ head = u)
  PROVE  Told(u)' /\ Covers(u)' /\ (Settled(u) => Settled(u)')
<1>1. Carried(u)' = Carried(u)
  BY DEF Carried, Same
<1>2. Told(u)'
  BY DEF Told, Same
<1>3. Covers(u)'
  BY <1>1 DEF Covers, Same
<1>4. Settled(u) => Settled(u)'
  BY DEF Settled, Same
<1>. QED BY <1>2, <1>3, <1>4

(* Next takes a batch from the head's channel, or its error, after which   *)
(* no batch is taken.                                                      *)
LEMMA ReceiveTells ==
  ASSUME Typed, HeadThere, Receive, Told(head), Covers(head)
  PROVE  \A t \in DOMAIN tasks : t = head => Told(t)' /\ Covers(t)' /\ (Settled(t) => Settled(t)')
<1>. SUFFICES ASSUME NEW t \in DOMAIN tasks, t = head
              PROVE  Told(t)' /\ Covers(t)' /\ (Settled(t) => Settled(t)')
  OBVIOUS
<1>0. /\ tasks[t] \in Task /\ tasks[t].pending \in Int
      /\ tasks[t].out \in Seq(Nat) /\ tasks[t].out # <<>> /\ pc = "wait"
  BY TaskTyped DEF Task, Receive
<1>. DEFINE q == tasks[t].out
            L == Len(q)
            d == Carried(t)
            c == Carried(t)'
            m == tasks[t].pending
<1>1. /\ tasks'[t].pending = m /\ tasks'[t].closed = tasks[t].closed /\ tasks'[t].at = tasks[t].at
      /\ tasks'[t].pc = tasks[t].pc /\ tasks'[t].out = Tail(q)
  BY <1>0, ReceiveMoves DEF Task
<1>2. /\ L \in Nat \ {0} /\ DOMAIN q = 1..L /\ DOMAIN Tail(q) = 1..(L - 1) /\ Len(Tail(q)) = L - 1
      /\ \A k \in 1..(L - 1) : k + 1 \in 1..L /\ Tail(q)[k] = q[k + 1]
      /\ Head(q) = q[1] /\ m \in Int
  BY <1>0
<1>3. \/ Head(q) = None /\ c = d /\ ~Going'
      \/ Head(q) # None /\ c = d + 1 /\ (Going' <=> Going)
  BY <1>0, <1>1 DEF Receive, Carried, NextReturns, Going
<1>4. /\ d \in 0..2 /\ c \in Int
      /\ d <= m /\ (\A k \in 1..L : q[k] # None => k + d <= m)
      /\ Going => m <= L + d
  <2>1. d \in 0..2 /\ c \in Int
    BY DEF Carried
  <2>. QED BY <1>2, <2>1 DEF Covers
<1>5. Told(t)'
  <2>. HIDE DEF q
  <2>1. tasks[t].pc \notin {"close", "release", "done"} => \A k \in DOMAIN Tail(q) : Tail(q)[k] # None
    BY <1>2 DEF Told, q
  <2>. QED BY <1>1, <2>1 DEF Told
<1>6. Settled(t) => Settled(t)'
  BY <1>1 DEF Settled
<1>7. Covers(t)'
  <2>. HIDE DEF q, L, d, c, m
  <2>1. Head(q) # None => 1 + d <= m
    BY <1>2, <1>4
  <2>2. c <= m
    BY <1>2, <1>3, <1>4, <2>1
  <2>3. ASSUME NEW k \in 1..(L - 1), Tail(q)[k] # None PROVE k + c <= m
    <3>1. (k + 1) + d <= m
      BY <1>2, <1>4, <2>3
    <3>. QED BY <1>2, <1>3, <1>4, <3>1
  <2>4. Going' => m <= Len(Tail(q)) + c
    BY <1>2, <1>3, <1>4
  <2>. QED BY <1>1, <1>2, <2>2, <2>3, <2>4 DEF Covers, c
<1>. QED BY <1>5, <1>6, <1>7

(* The batch taken is counted off.                                         *)
LEMMA TakenTells ==
  ASSUME Typed, HeadThere, Taken, Told(head), Covers(head)
  PROVE  \A t \in DOMAIN tasks : t = head => Told(t)' /\ Covers(t)' /\ (Settled(t) => Settled(t)')
<1>. SUFFICES ASSUME NEW t \in DOMAIN tasks, t = head
              PROVE  Told(t)' /\ Covers(t)' /\ (Settled(t) => Settled(t)')
  OBVIOUS
<1>. DEFINE q == tasks[t].out
            d == Carried(t)
            c == Carried(t)'
            m == tasks[t].pending
            n == tasks'[t].pending
<1>0. m \in Int /\ Len(q) \in Int /\ DOMAIN q \subseteq Int
  BY TaskTyped DEF Task
<1>1. /\ n = m - 1 /\ tasks'[t].out = q /\ tasks'[t].closed = tasks[t].closed
      /\ tasks'[t].at = tasks[t].at
      /\ tasks'[t].pc = IF tasks[t].pc = "parked" THEN "gate" ELSE tasks[t].pc
  BY TakenKeeps
<1>2. (Going' <=> Going) /\ c = d - 1 /\ d \in Int
  BY <1>1 DEF Taken, Carried, NextReturns, Going
<1>3. /\ d <= m /\ (\A k \in DOMAIN q : q[k] # None => k + d <= m)
      /\ Going => m <= Len(q) + d
  BY DEF Covers
<1>4. Told(t)'
  BY <1>1 DEF Told
<1>5. Covers(t)'
  <2>. HIDE DEF q, c, d, m, n
  <2>1. /\ c <= n /\ (\A k \in DOMAIN q : q[k] # None => k + c <= n)
        /\ Going => n <= Len(q) + c
    BY <1>0, <1>1, <1>2, <1>3
  <2>. QED BY <1>1, <1>2, <2>1 DEF Covers, c, n, q
<1>6. Settled(t) => Settled(t)'
  BY <1>0, <1>1 DEF Settled
<1>. QED BY <1>4, <1>5, <1>6

(* Each row group keeps its figures through every step that issues none,   *)
(* and one that is settled stays so.                                       *)
LEMMA TellsStep ==
  ASSUME FInv, WorkersTold, PendingCovers, [Next]_vars, ~(IssueGroup /\ Kept), NEW u \in DOMAIN tasks
  PROVE  Told(u)' /\ Covers(u)' /\ (Settled(u) => Settled(u)') /\ (Going' => Going)
<1>0. Typed /\ HeadThere /\ Told(u) /\ Covers(u)
  BY DEF FInv, WorkersTold, PendingCovers
<1>a. ASSUME tasks' = tasks, Going' => Going,
             (pc' = "taken" /\ head' = u) <=> (pc = "taken" /\ head = u)
      PROVE  Told(u)' /\ Covers(u)' /\ (Settled(u) => Settled(u)') /\ (Going' => Going)
  BY <1>0, <1>a, OthersTell DEF Same
<1>1. CASE Cancel \/ NextStarts \/ HeadRefuses \/ HeadAnswers \/ WaitEnds
  BY <1>1, <1>a DEF Cancel, NextStarts, HeadRefuses, HeadAnswers, WaitEnds, NextReturns, Going, next
<1>2. CASE ReceiveClosed \/ CloseStops \/ CloseEnds \/ UNCHANGED vars
  BY <1>2, <1>a DEF ReceiveClosed, CloseStops, CloseEnds, Going, next, vars
<1>3. CASE OpenFile \/ LeaveFile
  BY <1>3, <1>a DEF OpenFile, LeaveFile, Going, next
<1>4. CASE IssueGroup
  BY <1>0, <1>4, <1>a, IssueSkips DEF IssueGroup, Going, next
<1>5. CASE Receive
  <2>0. head \in DOMAIN tasks /\ (Going' => Going) /\ pc = "wait"
    BY <1>0, <1>5 DEF Receive, HeadThere, Going
  <2>1. CASE u = head
    BY <1>0, <1>5, <2>0, <2>1, ReceiveTells
  <2>2. CASE u # head
    <3>1. tasks'[u] = tasks[u]
      BY <1>0, <1>5, <2>2, ReceiveMoves DEF Moves
    <3>2. ~(pc' = "taken" /\ head' = u)
      BY <1>5, <2>2 DEF Receive, NextReturns
    <3>. QED BY <1>0, <2>0, <3>1, <3>2, OthersTell DEF Same
  <2>. QED BY <2>1, <2>2
<1>6. CASE Taken
  <2>0. head \in DOMAIN tasks /\ (Going' => Going) /\ pc' = "out"
    BY <1>0, <1>6 DEF Taken, HeadThere, Going, NextReturns
  <2>1. CASE u = head
    BY <1>0, <1>6, <2>0, <2>1, TakenTells
  <2>2. CASE u # head
    <3>1. Same(u)
      BY <1>0, <1>6, <2>2, TakenKeeps DEF Same
    <3>. QED BY <1>0, <2>0, <2>2, <3>1, OthersTell
  <2>. QED BY <2>1, <2>2
<1>7. CASE CloseGate
  <2>1. UNCHANGED <<pc, head>> /\ (Going' => Going)
    BY <1>7 DEF CloseGate, Going, next
  <2>2. Same(u)
    BY <1>0, <1>7, GateKeeps DEF Same
  <2>. QED BY <1>0, <2>1, <2>2, OthersTell
<1>8. ASSUME NEW t \in DOMAIN tasks, Work(t)
      PROVE  Told(u)' /\ Covers(u)' /\ (Settled(u) => Settled(u)') /\ (Going' => Going)
  <2>1. Moves(t) /\ UNCHANGED <<pc, head>> /\ (Going' => Going)
    BY <1>0, <1>8, WorkMoves DEF Going, next
  <2>2. CASE u = t
    <3>1. Told(u)' /\ Covers(u)'
      BY <1>0, <1>8, <2>2, WorkTells
    <3>2. tasks'[u].pending > 0 \/ ~tasks'[u].closed => tasks[u].pending > 0 \/ ~tasks[u].closed
      BY <1>0, <1>8, <2>2, WorkTells
    <3>3. tasks[u].pending \in Int /\ tasks'[u].pending \in Int
      <4>1. tasks[u] \in Task /\ tasks'[u] \in Task
        BY <1>0, <2>1, TaskTyped DEF Moves
      <4>. QED BY <4>1 DEF Task
    <3>. QED BY <2>1, <3>1, <3>2, <3>3 DEF Settled
  <2>3. CASE u # t
    <3>1. tasks'[u] = tasks[u]
      BY <2>1, <2>3 DEF Moves
    <3>. QED BY <1>0, <2>1, <3>1, OthersTell DEF Same
  <2>. QED BY <2>2, <2>3
<1>. QED BY <1>1, <1>2, <1>3, <1>4, <1>5, <1>6, <1>7, <1>8 DEF Next, Reads, Closes

-----------------------------------------------------------------------------
(* What they hold together.                                                *)

(* The batches pending are numbers, and so is their sum.                   *)
LEMMA PendingsTyped ==
  ASSUME Typed
  PROVE  /\ IsFiniteSet(DOMAIN tasks)
         /\ \A u \in DOMAIN tasks : tasks[u].pending \in Int /\ Pendings[u] = tasks[u].pending
         /\ SumFunctionOnSet(Pendings, DOMAIN tasks) \in Int
<1>1. IsFiniteSet(DOMAIN tasks)
  BY PlacesFinite DEF Typed
<1>2. \A u \in DOMAIN tasks : tasks[u].pending \in Int
  BY TaskTyped DEF Task
<1>3. \A u \in DOMAIN tasks : Pendings[u] = tasks[u].pending
  BY DEF Pendings
<1>4. \A u \in DOMAIN tasks : Pendings[u] \in Int
  BY <1>2, <1>3
<1>5. SumFunctionOnSet(Pendings, DOMAIN tasks) \in Int
  <2>. HIDE DEF Pendings
  <2>. QED BY <1>1, <1>4, SumIsInteger
<1>. QED BY <1>1, <1>2, <1>3, <1>5

(* A step that counts no row group's batches up or down.                   *)
LEMMA PendingsStay ==
  ASSUME Typed, DOMAIN tasks' = DOMAIN tasks,
         \A u \in DOMAIN tasks : tasks'[u].pending = tasks[u].pending
  PROVE  SumFunctionOnSet(Pendings, DOMAIN tasks)' = SumFunctionOnSet(Pendings, DOMAIN tasks)
<1>. DEFINE D == DOMAIN tasks
            f == Pendings
            g == Pendings'
<1>1. IsFiniteSet(D) /\ \A u \in D : f[u] \in Int /\ g[u] = f[u]
  BY PendingsTyped DEF Pendings
<1>2. SumFunctionOnSet(g, D) = SumFunctionOnSet(f, D)
  <2>. HIDE DEF D, f, g
  <2>. QED BY <1>1, SumDependsOnValues
<1>. QED BY <1>2

(* A step that counts one row group's batches up or down by d.             *)
LEMMA PendingMoves ==
  ASSUME Typed, DOMAIN tasks' = DOMAIN tasks, NEW t \in DOMAIN tasks, NEW d \in Int,
         \A u \in DOMAIN tasks : tasks'[u].pending = IF u = t THEN tasks[u].pending + d ELSE tasks[u].pending
  PROVE  SumFunctionOnSet(Pendings, DOMAIN tasks)' = SumFunctionOnSet(Pendings, DOMAIN tasks) + d
<1>. DEFINE D == DOMAIN tasks
            f == Pendings
            g == Pendings'
<1>1. IsFiniteSet(D) /\ t \in D
  BY PendingsTyped
<1>2. \A u \in D : f[u] \in Int /\ g[u] = IF u = t THEN f[u] + d ELSE f[u]
  BY PendingsTyped DEF Pendings
<1>3. SumFunctionOnSet(f, D) \in Int
  BY PendingsTyped
<1>4. SumFunctionOnSet(g, D) = SumFunctionOnSet(f, D) + d
  <2>. HIDE DEF D, f, g
  <2>. QED BY <1>1, <1>2, SumMovesBy
<1>. QED BY <1>4

(* The gate's count is of the batches its row groups have pending.         *)
LEMMA HeldStep == FInv /\ HeldIsPending /\ [Next]_vars => HeldIsPending'
<1>. SUFFICES ASSUME FInv, HeldIsPending, [Next]_vars PROVE HeldIsPending'
  OBVIOUS
<1>0. Typed /\ HeadThere /\ held = SumFunctionOnSet(Pendings, DOMAIN tasks) /\ held \in Int
  BY PendingsTyped DEF FInv, HeldIsPending
<1>a. ASSUME DOMAIN tasks' = DOMAIN tasks, \A u \in DOMAIN tasks : tasks'[u].pending = tasks[u].pending,
             held' = held
      PROVE  HeldIsPending'
  BY <1>0, <1>a, PendingsStay DEF HeldIsPending
<1>1. CASE Cancel \/ NextStarts \/ HeadRefuses \/ HeadAnswers \/ WaitEnds \/ CloseStops \/ UNCHANGED vars
  BY <1>1, <1>a DEF Cancel, NextStarts, HeadRefuses, HeadAnswers, WaitEnds, CloseStops, vars, gate
<1>2. CASE OpenFile \/ LeaveFile \/ ReceiveClosed \/ CloseEnds
  BY <1>2, <1>a DEF OpenFile, LeaveFile, ReceiveClosed, CloseEnds, gate
<1>3. CASE IssueGroup /\ ~Kept
  BY <1>0, <1>3, <1>a, IssueSkips DEF IssueGroup, gate
<1>4. CASE IssueGroup /\ Kept
  <2>. DEFINE n == Len(tasks) + 1
              D == DOMAIN tasks
              f == Pendings
              g == Pendings'
  <2>1. /\ n \notin D /\ DOMAIN tasks' = D \union {n} /\ tasks'[n].pending = 0
        /\ \A u \in D : tasks'[u] = tasks[u]
    BY <1>0, <1>4, IssueAdds DEF NewTask
  <2>2. \A u \in D : f[u] \in Int /\ g[u] = f[u]
    BY <1>0, <2>1, PendingsTyped DEF Pendings
  <2>3. g[n] = 0 /\ IsFiniteSet(D)
    BY <1>0, <2>1, PendingsTyped DEF Pendings
  <2>4. SumFunctionOnSet(g, D \union {n}) = SumFunctionOnSet(f, D) + g[n]
    <3>. HIDE DEF D, f, g, n
    <3>1. n \notin D /\ IsFiniteSet(D) /\ g[n] \in Int
      BY <2>1, <2>3
    <3>. QED BY <2>2, <3>1, SumOfOneMore
  <2>5. held' = held
    BY <1>4 DEF IssueGroup, gate
  <2>6. SumFunctionOnSet(Pendings, DOMAIN tasks)' = held
    BY <1>0, <2>1, <2>3, <2>4
  <2>. QED BY <2>5, <2>6 DEF HeldIsPending
<1>5. CASE Receive
  <2>1. tasks[head] \in Task /\ Moves(head) /\ tasks'[head] = [tasks[head] EXCEPT !.out = Tail(tasks[head].out)]
    BY <1>0, <1>5, TaskTyped, ReceiveMoves DEF Receive, HeadThere
  <2>2. tasks'[head].pending = tasks[head].pending
    BY <2>1 DEF Task
  <2>. QED BY <1>5, <1>a, <2>1, <2>2 DEF Moves, Receive, gate
<1>6. CASE Taken
  <2>1. PICK t \in DOMAIN tasks : t = head
    BY <1>0, <1>6 DEF Taken, HeadThere
  <2>2. /\ DOMAIN tasks' = DOMAIN tasks
        /\ \A u \in DOMAIN tasks :
             tasks'[u].pending = IF u = t THEN tasks[u].pending + (-1) ELSE tasks[u].pending
    BY <1>0, <1>6, <2>1, TakenKeeps, PendingsTyped DEF Keeps
  <2>3. SumFunctionOnSet(Pendings, DOMAIN tasks)' = SumFunctionOnSet(Pendings, DOMAIN tasks) + (-1)
    BY <1>0, <2>2, PendingMoves
  <2>. QED BY <1>0, <1>6, <2>3 DEF Taken, HeldIsPending
<1>7. CASE CloseGate
  BY <1>0, <1>7, <1>a, GateKeeps DEF CloseGate, Keeps
<1>8. ASSUME NEW t \in DOMAIN tasks, Work(t) PROVE HeldIsPending'
  <2>1. Moves(t)
    BY <1>0, <1>8, WorkMoves
  <2>2. CASE tasks'[t].pending = tasks[t].pending /\ held' = held
    BY <1>a, <2>1, <2>2 DEF Moves
  <2>3. CASE tasks'[t].pending = tasks[t].pending + 1 /\ held' = held + 1
    <3>1. DOMAIN tasks' = DOMAIN tasks /\ \A u \in DOMAIN tasks :
            tasks'[u].pending = IF u = t THEN tasks[u].pending + 1 ELSE tasks[u].pending
      BY <2>1, <2>3 DEF Moves
    <3>2. SumFunctionOnSet(Pendings, DOMAIN tasks)' = SumFunctionOnSet(Pendings, DOMAIN tasks) + 1
      BY <1>0, <3>1, PendingMoves
    <3>. QED BY <1>0, <2>3, <3>2 DEF HeldIsPending
  <2>4. CASE WorkerLoops(t) \/ WorkerAsks(t) \/ WorkerFails(t) \/ WorkerGivesUp(t) \/ WorkerEnds(t)
    BY <1>0, <2>2, <2>4, GoesWhere, GoesTo
  <2>5. CASE WorkerDecodes(t)
    BY <1>0, <2>2, <2>3, <2>5, DecodesTo
  <2>6. CASE WorkerSends(t)
    BY <1>0, <2>2, <2>6, SendsTo DEF WorkerSends, WorkerOnly, gate
  <2>7. CASE WorkerCloses(t)
    BY <1>0, <2>2, <2>7, ClosesTo DEF WorkerCloses, WorkerOnly, gate
  <2>. QED BY <1>8, <2>4, <2>5, <2>6, <2>7 DEF Work
<1>. QED BY <1>1, <1>2, <1>3, <1>4, <1>5, <1>6, <1>7, <1>8 DEF Next, Reads, Closes

(* A reader that has failed or is closed does not go on.                   *)
LEMMA GoingBefore ==
  ASSUME FInv, [Next]_vars
  PROVE  Going' => Going
<1>0. Typed
  BY DEF FInv
<1>1. CASE Cancel \/ NextStarts \/ HeadRefuses \/ HeadAnswers \/ WaitEnds \/ CloseStops \/ UNCHANGED vars
  BY <1>1 DEF Cancel, NextStarts, HeadRefuses, HeadAnswers, WaitEnds, CloseStops, vars, Going
<1>2. CASE OpenFile \/ IssueGroup \/ LeaveFile \/ Receive \/ Taken \/ ReceiveClosed \/ Closes
  BY <1>2 DEF OpenFile, IssueGroup, LeaveFile, Receive, Taken, ReceiveClosed, Closes, CloseGate, CloseEnds, Going
<1>3. ASSUME NEW t \in DOMAIN tasks, Work(t) PROVE Going' => Going
  BY <1>0, <1>3, WorkMoves DEF Going
<1>. QED BY <1>1, <1>2, <1>3 DEF Next, Reads

(* The queue changes where a row group is issued, read to its end, or Close *)
(* ends.                                                                   *)
LEMMA QueueStays ==
  ASSUME FInv, [Next]_vars, ~(IssueGroup /\ Kept), ~ReceiveClosed, ~CloseEnds
  PROVE  inflight' = inflight
<1>0. Typed
  BY DEF FInv
<1>1. CASE Cancel \/ NextStarts \/ HeadRefuses \/ HeadAnswers \/ WaitEnds \/ CloseStops \/ UNCHANGED vars
  BY <1>1 DEF Cancel, NextStarts, HeadRefuses, HeadAnswers, WaitEnds, CloseStops, vars, issuing
<1>2. CASE OpenFile \/ LeaveFile \/ Receive \/ Taken \/ CloseGate
  BY <1>2 DEF OpenFile, LeaveFile, Receive, Taken, CloseGate, issuing
<1>3. CASE IssueGroup
  BY <1>0, <1>3, IssueSkips
<1>4. ASSUME NEW t \in DOMAIN tasks, Work(t) PROVE inflight' = inflight
  BY <1>0, <1>4, WorkMoves DEF issuing
<1>. QED BY <1>1, <1>2, <1>3, <1>4 DEF Next, Reads, Closes

(* No more row groups are in flight than the queue is long.                *)
LEMMA InFlightFew ==
  ASSUME NEW q \in Seq(Nat)
  PROVE  LET T == {q[k] : k \in DOMAIN q} IN IsFiniteSet(T) /\ Cardinality(T) <= Len(q)
<1>. DEFINE T == {q[k] : k \in DOMAIN q}
<1>1. q \in [DOMAIN q -> T] /\ \A x \in T : \E k \in DOMAIN q : q[k] = x
  OBVIOUS
<1>2. q \in Surjection(DOMAIN q, T)
  BY <1>1 DEF Surjection
<1>3. IsFiniteSet(DOMAIN q) /\ Cardinality(DOMAIN q) = Len(q)
  BY PlacesFinite
<1>4. IsFiniteSet(T) /\ Cardinality(T) <= Cardinality(DOMAIN q)
  <2>. HIDE DEF T
  <2>. QED BY <1>2, <1>3, FS_Surjection
<1>. QED BY <1>3, <1>4

(* The row groups that still hold a batch, or may decode one, are no more  *)
(* than the threads: they are in flight while any are issued.              *)
LEMMA FewStep ==
  FInv /\ WorkersTold /\ PendingCovers /\ FewUnsettled /\ [Next]_vars => FewUnsettled'
<1>. SUFFICES ASSUME FInv, WorkersTold, PendingCovers, FewUnsettled, [Next]_vars PROVE FewUnsettled'
  OBVIOUS
<1>0. /\ Typed /\ HeadThere /\ ClosedDown /\ inflight \in Seq(Nat) /\ Threads \in Nat
      /\ IsFiniteSet(Unsettled) /\ Cardinality(Unsettled) \in Nat
  <2>1. Typed /\ HeadThere /\ ClosedDown /\ inflight \in Seq(Nat) /\ Threads \in Nat
    BY ReaderAssumption DEF FInv, Typed
  <2>2. IsFiniteSet(DOMAIN tasks) /\ Unsettled \subseteq DOMAIN tasks
    BY <2>1, PendingsTyped DEF Unsettled
  <2>. QED BY <2>1, <2>2, FS_Subset, FS_CardinalityType
<1>1. CASE IssueGroup /\ Kept
  <2>. DEFINE n == Len(tasks) + 1
  <2>1. /\ DOMAIN tasks' = DOMAIN tasks \union {n} /\ inflight' = Append(inflight, n) /\ n \in Nat
        /\ \A u \in DOMAIN tasks : tasks'[u] = tasks[u]
    BY <1>0, <1>1, IssueAdds
  <2>2. Len(inflight) < Threads /\ Going
    BY <1>1 DEF IssueGroup, Issues, Going
  <2>. HIDE DEF n
  <2>3. /\ inflight' \in Seq(Nat) /\ Len(inflight') = Len(inflight) + 1
        /\ DOMAIN inflight' = 1..(Len(inflight) + 1) /\ DOMAIN inflight = 1..Len(inflight)
        /\ inflight'[Len(inflight) + 1] = n /\ \A k \in 1..Len(inflight) : inflight'[k] = inflight[k]
        /\ Len(inflight) \in Nat
    BY <1>0, <2>1
  <2>4. InFlight \union {n} \subseteq InFlight'
    <3>1. \A k \in 1..Len(inflight) : k \in DOMAIN inflight'
      BY <2>3
    <3>2. Len(inflight) + 1 \in DOMAIN inflight'
      BY <2>3
    <3>. QED BY <2>3, <3>1, <3>2 DEF InFlight
  <2>5. Unsettled' \subseteq Unsettled \union {n}
    BY <2>1 DEF Unsettled, Settled
  <2>6. Unsettled' \subseteq InFlight'
    BY <2>2, <2>4, <2>5 DEF FewUnsettled
  <2>7. IsFiniteSet(InFlight') /\ Cardinality(InFlight') <= Len(inflight')
    BY <2>3, InFlightFew DEF InFlight
  <2>8. Cardinality(Unsettled') <= Cardinality(InFlight') /\ Cardinality(Unsettled') \in Nat
          /\ Cardinality(InFlight') \in Nat
    BY <2>6, <2>7, FS_Subset, FS_CardinalityType
  <2>. QED BY <1>0, <2>2, <2>3, <2>6, <2>7, <2>8 DEF FewUnsettled
<1>2. CASE ~(IssueGroup /\ Kept)
  <2>1. DOMAIN tasks' = DOMAIN tasks
    BY <1>0, <1>2, TasksStay
  <2>2. Unsettled' \subseteq Unsettled
    BY <1>2, <2>1, TellsStep DEF Unsettled
  <2>3. Cardinality(Unsettled') <= Cardinality(Unsettled) /\ Cardinality(Unsettled') \in Nat
    BY <1>0, <2>2, FS_Subset, FS_CardinalityType
  <2>4. Going' => Going
    BY GoingBefore
  <2>5. CASE ReceiveClosed
    <3>1. head \in DOMAIN tasks /\ Told(head) /\ Covers(head) /\ pc = "wait" /\ tasks' = tasks
            /\ tasks[head].closed /\ tasks[head].out = <<>> /\ tasks[head].pending \in Int
      BY <1>0, <2>5, PendingsTyped DEF ReceiveClosed, HeadThere, WorkersTold, PendingCovers
    <3>2. tasks[head].pc # "send" /\ Carried(head) = 0
      BY <3>1 DEF Told, Carried
    <3>3. Going => Settled(head)
      BY <3>1, <3>2 DEF Covers, Settled
    <3>4. Unsettled' = Unsettled
      BY <3>1 DEF Unsettled, Settled
    <3>5. CASE inflight # <<>> /\ inflight[1] = head
      <4>1. /\ inflight' = Tail(inflight) /\ Len(inflight) \in Nat \ {0} /\ DOMAIN inflight = 1..Len(inflight)
            /\ Len(inflight') = Len(inflight) - 1 /\ DOMAIN inflight' = 1..(Len(inflight) - 1)
            /\ \A k \in 1..(Len(inflight) - 1) : inflight'[k] = inflight[k + 1]
        BY <1>0, <2>5, <3>5 DEF ReceiveClosed
      <4>2. \A k \in 1..Len(inflight) : k = 1 \/ (k - 1 \in 1..(Len(inflight) - 1) /\ (k - 1) + 1 = k)
        BY <4>1
      <4>3. InFlight \ {head} \subseteq InFlight'
        <5>. SUFFICES ASSUME NEW x \in InFlight, x # head PROVE x \in InFlight'
          OBVIOUS
        <5>1. PICK k \in 1..Len(inflight) : inflight[k] = x
          BY <4>1 DEF InFlight
        <5>2. k - 1 \in DOMAIN inflight' /\ inflight'[k - 1] = x
          BY <3>5, <4>1, <4>2, <5>1
        <5>. QED BY <5>2 DEF InFlight
      <4>4. Going => head \notin Unsettled
        BY <3>3 DEF Unsettled
      <4>5. Len(inflight') <= Threads
        BY <1>0, <4>1 DEF FewUnsettled
      <4>. QED BY <1>0, <2>3, <2>4, <3>4, <4>3, <4>4, <4>5 DEF FewUnsettled
    <3>6. CASE ~(inflight # <<>> /\ inflight[1] = head)
      <4>1. inflight' = inflight
        BY <2>5, <3>6 DEF ReceiveClosed
      <4>. QED BY <2>3, <2>4, <3>4, <4>1 DEF FewUnsettled, InFlight
    <3>. QED BY <3>5, <3>6
  <2>6. CASE CloseEnds
    <3>1. ~Going' /\ inflight' = <<>>
      BY <1>0, <2>6 DEF CloseEnds, ClosedDown, Going
    <3>2. Len(inflight') = 0
      BY <3>1
    <3>. QED BY <1>0, <2>3, <3>1, <3>2 DEF FewUnsettled
  <2>7. CASE ~ReceiveClosed /\ ~CloseEnds
    <3>1. inflight' = inflight
      BY <1>2, <2>7, QueueStays
    <3>. QED BY <1>0, <2>2, <2>3, <2>4, <3>1 DEF FewUnsettled, InFlight
  <2>. QED BY <2>5, <2>6, <2>7
<1>. QED BY <1>1, <1>2

(* No step but the gate's makes a row group weigh more.                    *)
LEMMA WeightsFall ==
  ASSUME FInv, [Next]_vars, ~(IssueGroup /\ Kept), NEW u \in DOMAIN tasks,
         ~(WorkerAsks(u) /\ tasks'[u].pc = "decode")
  PROVE  /\ tasks'[u].pending \in Int /\ Weight(u)' \in Int /\ Weight(u) \in Int
         /\ Weight(u)' <= Weight(u)
<1>0. Typed /\ HeadThere /\ tasks[u].pending \in Int
  BY PendingsTyped DEF FInv
<1>a. ASSUME tasks'[u].pending = tasks[u].pending, tasks'[u].pc = "decode" => tasks[u].pc = "decode"
      PROVE  tasks'[u].pending \in Int /\ Weight(u)' \in Int /\ Weight(u) \in Int /\ Weight(u)' <= Weight(u)
  BY <1>0, <1>a DEF Weight
<1>1. CASE Cancel \/ NextStarts \/ HeadRefuses \/ HeadAnswers \/ WaitEnds \/ CloseStops \/ UNCHANGED vars
  BY <1>1, <1>a DEF Cancel, NextStarts, HeadRefuses, HeadAnswers, WaitEnds, CloseStops, vars
<1>2. CASE OpenFile \/ LeaveFile \/ ReceiveClosed \/ CloseEnds
  BY <1>2, <1>a DEF OpenFile, LeaveFile, ReceiveClosed, CloseEnds
<1>3. CASE IssueGroup
  BY <1>0, <1>3, <1>a, IssueSkips
<1>4. CASE Receive
  <2>1. head \in DOMAIN tasks /\ tasks[head] \in Task
    BY <1>0, <1>4, TaskTyped DEF Receive, HeadThere
  <2>2. tasks'[head].pending = tasks[head].pending /\ tasks'[head].pc = tasks[head].pc
    BY <1>0, <1>4, <2>1, ReceiveMoves DEF Task
  <2>. QED BY <1>0, <1>4, <1>a, <2>2, ReceiveMoves DEF Moves
<1>5. CASE Taken
  BY <1>0, <1>5, TakenKeeps DEF Weight
<1>6. CASE CloseGate
  BY <1>0, <1>6, <1>a, GateKeeps
<1>7. ASSUME NEW t \in DOMAIN tasks, Work(t)
      PROVE  tasks'[u].pending \in Int /\ Weight(u)' \in Int /\ Weight(u) \in Int /\ Weight(u)' <= Weight(u)
  <2>1. CASE u # t
    BY <1>0, <1>7, <1>a, <2>1, WorkMoves DEF Moves
  <2>2. CASE u = t
    <3>1. CASE WorkerLoops(t) \/ WorkerAsks(t) \/ WorkerFails(t) \/ WorkerGivesUp(t) \/ WorkerEnds(t)
      <4>1. tasks'[t].pending = tasks[t].pending
        BY <1>0, <3>1, GoesWhere, GoesTo
      <4>2. tasks'[t].pc # "decode"
        <5>1. CASE WorkerAsks(t)
          BY <2>2, <5>1
        <5>2. CASE WorkerLoops(t) \/ WorkerFails(t) \/ WorkerGivesUp(t) \/ WorkerEnds(t)
          <6>1. \E p \in TaskPcs : Goes(t, p) /\ p # "decode"
            BY <5>2 DEF WorkerLoops, WorkerFails, WorkerGivesUp, WorkerEnds, TaskPcs
          <6>. QED BY <1>0, <6>1, GoesTo
        <5>. QED BY <3>1, <5>1, <5>2
      <4>. QED BY <1>a, <2>2, <4>1, <4>2
    <3>2. CASE WorkerDecodes(t)
      <4>1. /\ tasks[t].pc = "decode" /\ tasks'[t].pc # "decode"
            /\ tasks'[t].pending = tasks[t].pending \/ tasks'[t].pending = tasks[t].pending + 1
        BY <1>0, <3>2, DecodesTo DEF WorkerDecodes
      <4>2. Weight(u) = tasks[u].pending + 1 /\ Weight(u)' = tasks'[u].pending
        BY <1>0, <2>2, <4>1 DEF Weight
      <4>. QED BY <1>0, <2>2, <4>1, <4>2
    <3>3. CASE WorkerSends(t)
      BY <1>0, <1>a, <2>2, <3>3, SendsTo
    <3>4. CASE WorkerCloses(t)
      BY <1>0, <1>a, <2>2, <3>4, ClosesTo
    <3>. QED BY <1>7, <3>1, <3>2, <3>3, <3>4 DEF Work
  <2>. QED BY <2>1, <2>2
<1>. QED BY <1>1, <1>2, <1>3, <1>4, <1>5, <1>6, <1>7 DEF Next, Reads, Closes

(* A row group issued holds nothing yet, and those before it stay as they  *)
(* are.                                                                    *)
LEMMA TellsIssue ==
  ASSUME FInv, WorkersTold, PendingCovers, IssueGroup, Kept
  PROVE  WorkersTold' /\ PendingCovers'
<1>0. Typed /\ HeadThere
  BY DEF FInv
<1>. DEFINE n == Len(tasks) + 1
<1>1. /\ n \notin DOMAIN tasks /\ DOMAIN tasks' = DOMAIN tasks \union {n} /\ tasks'[n] = NewTask
      /\ \A u \in DOMAIN tasks : tasks'[u] = tasks[u]
  BY <1>0, IssueAdds
<1>2. UNCHANGED <<pc, head, stopped, err>> /\ pc = "head"
  BY DEF IssueGroup, Issues, next
<1>. HIDE DEF n
<1>3. ASSUME NEW u \in DOMAIN tasks PROVE Told(u)' /\ Covers(u)'
  BY <1>1, <1>2, OthersTell DEF WorkersTold, PendingCovers, Going, Same
<1>4. ASSUME NEW u, u = n PROVE Told(u)' /\ Covers(u)'
  <2>1. /\ tasks'[u].pc = "loop" /\ tasks'[u].out = <<>> /\ tasks'[u].pending = 0
        /\ tasks'[u].closed = FALSE
    BY <1>1, <1>4 DEF NewTask
  <2>2. Carried(u)' = 0
    BY <1>2, <2>1 DEF Carried
  <2>3. Told(u)'
    BY <2>1 DEF Told
  <2>4. Len(tasks'[u].out) = 0 /\ DOMAIN tasks'[u].out = {}
    BY <2>1
  <2>5. Covers(u)'
    BY <2>1, <2>2, <2>4 DEF Covers
  <2>. QED BY <2>3, <2>5
<1>. QED BY <1>1, <1>3, <1>4 DEF WorkersTold, PendingCovers

(* Each row group keeps its figures through every step.                    *)
LEMMA WorkersTell ==
  FInv /\ WorkersTold /\ PendingCovers /\ [Next]_vars => WorkersTold' /\ PendingCovers'
<1>. SUFFICES ASSUME FInv, WorkersTold, PendingCovers, [Next]_vars PROVE WorkersTold' /\ PendingCovers'
  OBVIOUS
<1>1. CASE IssueGroup /\ Kept
  BY <1>1, TellsIssue
<1>2. CASE ~(IssueGroup /\ Kept)
  <2>1. DOMAIN tasks' = DOMAIN tasks
    BY <1>2, TasksStay DEF FInv
  <2>. QED BY <1>2, <2>1, TellsStep DEF WorkersTold, PendingCovers
<1>. QED BY <1>1, <1>2

(* What a row group holds past its floor is a number, none of it where it  *)
(* weighs no more than the floor.                                          *)
LEMMA ExcessTyped ==
  ASSUME Typed
  PROVE  /\ Floor \in Nat \ {0} /\ Limit \in Nat \ {0} /\ IsFiniteSet(DOMAIN tasks)
         /\ \A u \in DOMAIN tasks : /\ Weight(u) \in Int /\ Excess(u) \in Nat
                                    /\ Excesses[u] = Excess(u)
         /\ SumFunctionOnSet(Excesses, DOMAIN tasks) \in Int
<1>1. Floor \in Nat \ {0} /\ Limit \in Nat \ {0} /\ IsFiniteSet(DOMAIN tasks)
  BY ReaderAssumption, PendingsTyped
<1>2. \A u \in DOMAIN tasks : Weight(u) \in Int
  BY PendingsTyped DEF Weight
<1>3. \A u \in DOMAIN tasks : Excess(u) \in Nat
  BY <1>1, <1>2 DEF Excess
<1>4. \A u \in DOMAIN tasks : Excesses[u] = Excess(u)
  BY DEF Excesses
<1>5. SumFunctionOnSet(Excesses, DOMAIN tasks) \in Int
  <2>1. \A u \in DOMAIN tasks : Excesses[u] \in Int
    BY <1>3, <1>4
  <2>. HIDE DEF Excesses
  <2>. QED BY <1>1, <2>1, SumIsInteger
<1>. QED BY <1>1, <1>2, <1>3, <1>4, <1>5

(* Where no row group holds more past its floor than some figure of its    *)
(* own, they hold together no more than the figures together.              *)
LEMMA ExcessesWithin ==
  ASSUME Typed', DOMAIN tasks' = DOMAIN tasks, NEW f,
         \A u \in DOMAIN tasks : f[u] \in Int /\ Excess(u)' <= f[u]
  PROVE  /\ SumFunctionOnSet(Excesses, DOMAIN tasks)' <= SumFunctionOnSet(f, DOMAIN tasks)
         /\ SumFunctionOnSet(Excesses, DOMAIN tasks)' \in Int
<1>. DEFINE D == DOMAIN tasks
            g == Excesses'
<1>1. IsFiniteSet(D) /\ Cardinality(D) \in Nat
  <2>1. IsFiniteSet(DOMAIN tasks')
    BY PlacesFinite DEF Typed
  <2>. QED BY <2>1, FS_CardinalityType
<1>2. \A u \in D : g[u] \in Int /\ f[u] \in Int /\ g[u] <= f[u] + 0
  <2>1. \A u \in DOMAIN tasks' : tasks'[u].pending \in Int
    <3>1. \A u \in DOMAIN tasks' : tasks'[u] \in Task
      BY DEF Typed
    <3>. QED BY <3>1 DEF Task
  <2>2. \A u \in D : Weight(u)' \in Int
    BY <2>1 DEF Weight
  <2>3. \A u \in D : Excess(u)' \in Int
    BY <2>2, ReaderAssumption DEF Excess
  <2>4. \A u \in D : g[u] = Excess(u)'
    BY DEF Excesses
  <2>. QED BY <2>3, <2>4
<1>3. SumFunctionOnSet(f, D) \in Int /\ SumFunctionOnSet(g, D) \in Int
  <2>. HIDE DEF D, g
  <2>. QED BY <1>1, <1>2, SumIsInteger
<1>4. SumFunctionOnSet(g, D) <= SumFunctionOnSet(f, D) + Cardinality(D) * 0
  <2>. DEFINE k == 0
  <2>1. k \in Int /\ \A u \in D : g[u] \in Int /\ f[u] \in Int /\ g[u] <= f[u] + k
    BY <1>2
  <2>. HIDE DEF D, g, k
  <2>2. SumFunctionOnSet(g, D) <= SumFunctionOnSet(f, D) + Cardinality(D) * k
    BY <1>1, <2>1, SumWithin
  <2>. QED BY <2>2 DEF k
<1>5. SumFunctionOnSet(g, D) <= SumFunctionOnSet(f, D)
  <2>. HIDE DEF D, g
  <2>. QED BY <1>1, <1>3, <1>4
<1>. QED BY <1>3, <1>5

(* A step that makes no row group heavier, the gate's apart, adds nothing. *)
LEMMA ExcessFalls ==
  ASSUME FInv, ExcessBounded, [Next]_vars, ~(IssueGroup /\ Kept),
         \A u \in DOMAIN tasks : ~(WorkerAsks(u) /\ tasks'[u].pc = "decode")
  PROVE  ExcessBounded'
<1>0. Typed /\ HeadThere /\ Typed' /\ DOMAIN tasks' = DOMAIN tasks
  BY TypedStep, TasksStay DEF FInv
<1>. DEFINE f == Excesses
<1>1. \A u \in DOMAIN tasks : f[u] \in Int /\ Excess(u)' <= f[u]
  <2>1. ASSUME NEW u \in DOMAIN tasks PROVE Excess(u)' <= Excess(u)
    <3>1. Weight(u)' \in Int /\ Weight(u) \in Int /\ Weight(u)' <= Weight(u)
      BY WeightsFall
    <3>2. Floor \in Nat
      BY <1>0, ExcessTyped
    <3>. DEFINE w == Weight(u)
                x == Weight(u)'
    <3>. HIDE DEF w, x
    <3>3. (IF x > Floor THEN x - Floor ELSE 0) <= (IF w > Floor THEN w - Floor ELSE 0)
      BY <3>1, <3>2 DEF w, x
    <3>. QED BY <3>3 DEF Excess, w, x
  <2>. QED BY <1>0, <2>1, ExcessTyped
<1>2. /\ SumFunctionOnSet(Excesses, DOMAIN tasks)' <= SumFunctionOnSet(f, DOMAIN tasks)
      /\ SumFunctionOnSet(Excesses, DOMAIN tasks)' \in Int
  <2>. HIDE DEF f
  <2>. QED BY <1>0, <1>1, ExcessesWithin
<1>3. SumFunctionOnSet(Excesses, DOMAIN tasks) < Limit /\ SumFunctionOnSet(Excesses, DOMAIN tasks) \in Int
        /\ Limit \in Int
  BY <1>0, ExcessTyped DEF ExcessBounded
<1>. QED BY <1>2, <1>3 DEF ExcessBounded

(* The gate lets a worker on that is below its floor, which adds nothing,  *)
(* or when they all hold less than the limit, of which each row group's    *)
(* excess is at most its part: the batch let on is within the floor.       *)
LEMMA ExcessAtGate ==
  ASSUME FInv, WorkersTold, PendingCovers, HeldIsPending, ExcessBounded, [Next]_vars,
         NEW t \in DOMAIN tasks, WorkerAsks(t), tasks'[t].pc = "decode"
  PROVE  ExcessBounded'
<1>0. Typed /\ Typed' /\ Floor \in Nat \ {0} /\ Limit \in Nat \ {0}
  BY TypedStep, ExcessTyped DEF FInv
<1>1. PICK p \in TaskPcs : Goes(t, p) /\ (p = "decode" => ~Waits(t) /\ ~gateStopped)
  BY DEF WorkerAsks, TaskPcs
<1>2. /\ Moves(t) /\ tasks'[t].pc = p /\ tasks'[t].pending = tasks[t].pending
      /\ DOMAIN tasks' = DOMAIN tasks
  BY <1>0, <1>1, GoesTo DEF Moves
<1>3. tasks[t].pending < Floor \/ held < Limit
  <2>1. ~gateStopped /\ ~Waits(t)
    BY <1>1, <1>2
  <2>2. tasks[t].pending \in Int /\ held \in Int
    BY <1>0, PendingsTyped DEF HeldIsPending
  <2>. QED BY <1>0, <2>1, <2>2 DEF Waits
<1>4. \A u \in DOMAIN tasks : /\ tasks[u].pending \in Nat /\ tasks'[u].pending = tasks[u].pending
                              /\ Weight(u)' <= tasks[u].pending + 1
                              /\ u # t => Weight(u)' = Weight(u)
                              /\ Weight(u)' \in Int /\ Weight(u) \in Int
  <2>. SUFFICES ASSUME NEW u \in DOMAIN tasks
                PROVE  /\ tasks[u].pending \in Nat /\ tasks'[u].pending = tasks[u].pending
                       /\ Weight(u)' <= tasks[u].pending + 1
                       /\ u # t => Weight(u)' = Weight(u)
                       /\ Weight(u)' \in Int /\ Weight(u) \in Int
    OBVIOUS
  <2>1. tasks[u].pending \in Int /\ Carried(u) \in 0..2 /\ Carried(u) <= tasks[u].pending
    <3>1. tasks[u].pending \in Int
      BY <1>0, PendingsTyped
    <3>2. Carried(u) \in 0..2
      BY DEF Carried
    <3>. QED BY <3>1, <3>2 DEF PendingCovers, Covers
  <2>2. tasks[u].pending \in Nat
    BY <2>1
  <2>3. tasks'[u].pending = tasks[u].pending /\ (u # t => tasks'[u] = tasks[u])
    BY <1>2 DEF Moves
  <2>. QED BY <2>2, <2>3 DEF Weight
<1>5. CASE tasks[t].pending < Floor
  <2>. DEFINE f == Excesses
  <2>1. \A u \in DOMAIN tasks : f[u] \in Int /\ Excess(u)' <= f[u]
    <3>. SUFFICES ASSUME NEW u \in DOMAIN tasks PROVE Excess(u)' <= Excess(u)
      BY <1>0, ExcessTyped
    <3>1. Excess(u) \in Nat
      BY <1>0, ExcessTyped
    <3>2. CASE u = t
      <4>1. Weight(u)' <= Floor /\ Weight(u)' \in Int
        BY <1>0, <1>4, <1>5, <3>2
      <4>2. Excess(u)' = 0
        BY <1>0, <4>1 DEF Excess
      <4>. QED BY <3>1, <4>2
    <3>3. CASE u # t
      <4>1. Excess(u)' = Excess(u)
        BY <1>4, <3>3 DEF Excess
      <4>. QED BY <3>1, <4>1
    <3>. QED BY <3>2, <3>3
  <2>2. /\ SumFunctionOnSet(Excesses, DOMAIN tasks)' <= SumFunctionOnSet(f, DOMAIN tasks)
        /\ SumFunctionOnSet(Excesses, DOMAIN tasks)' \in Int
    <3>. HIDE DEF f
    <3>. QED BY <1>0, <1>2, <2>1, ExcessesWithin
  <2>3. SumFunctionOnSet(Excesses, DOMAIN tasks) < Limit /\ SumFunctionOnSet(Excesses, DOMAIN tasks) \in Int
    BY <1>0, ExcessTyped DEF ExcessBounded
  <2>. QED BY <1>0, <2>2, <2>3 DEF ExcessBounded
<1>6. CASE held < Limit
  <2>. DEFINE f == Pendings
  <2>1. \A u \in DOMAIN tasks : f[u] \in Int /\ Excess(u)' <= f[u]
    <3>. SUFFICES ASSUME NEW u \in DOMAIN tasks PROVE Excess(u)' <= tasks[u].pending
      BY <1>0, PendingsTyped
    <3>1. tasks[u].pending \in Nat /\ Weight(u)' <= tasks[u].pending + 1 /\ Weight(u)' \in Int
      BY <1>4
    <3>. DEFINE w == Weight(u)'
                m == tasks[u].pending
    <3>. HIDE DEF w, m
    <3>2. (IF w > Floor THEN w - Floor ELSE 0) <= m
      BY <1>0, <3>1 DEF w, m
    <3>. QED BY <3>2 DEF Excess, w, m
  <2>2. /\ SumFunctionOnSet(Excesses, DOMAIN tasks)' <= SumFunctionOnSet(f, DOMAIN tasks)
        /\ SumFunctionOnSet(Excesses, DOMAIN tasks)' \in Int
    <3>. HIDE DEF f
    <3>. QED BY <1>0, <1>2, <2>1, ExcessesWithin
  <2>3. held = SumFunctionOnSet(f, DOMAIN tasks) /\ held \in Int
    BY <1>0, PendingsTyped DEF HeldIsPending
  <2>. QED BY <1>0, <1>6, <2>2, <2>3 DEF ExcessBounded
<1>. QED BY <1>3, <1>5, <1>6

(* A row group issued weighs nothing.                                      *)
LEMMA ExcessIssue ==
  ASSUME FInv, ExcessBounded, IssueGroup, Kept
  PROVE  ExcessBounded'
<1>0. Typed
  BY DEF FInv
<1>. DEFINE n == Len(tasks) + 1
            D == DOMAIN tasks
            f == Excesses
            g == Excesses'
<1>1. /\ n \notin D /\ DOMAIN tasks' = D \union {n} /\ tasks'[n] = NewTask
      /\ \A u \in D : tasks'[u] = tasks[u]
  BY <1>0, IssueAdds
<1>2. \A u \in D : f[u] \in Int /\ g[u] = f[u]
  <2>1. \A u \in D : Excess(u)' = Excess(u)
    BY <1>1 DEF Excess, Weight
  <2>2. \A u \in D : g[u] = Excess(u)' /\ f[u] = Excess(u) /\ Excess(u) \in Int
    BY <1>0, <1>1, ExcessTyped DEF Excesses
  <2>. QED BY <2>1, <2>2
<1>3. g[n] = 0
  <2>. HIDE DEF n
  <2>1. \A u : u = n => Weight(u)' = 0
    BY <1>1 DEF Weight, NewTask
  <2>2. \A u : u = n => Excess(u)' = 0
    BY <1>0, <2>1, ExcessTyped DEF Excess
  <2>3. \A u \in DOMAIN tasks' : Excesses'[u] = Excess(u)'
    BY DEF Excesses
  <2>. QED BY <1>1, <2>2, <2>3
<1>4. SumFunctionOnSet(g, D \union {n}) = SumFunctionOnSet(f, D) + g[n]
  <2>1. n \notin D /\ IsFiniteSet(D) /\ g[n] \in Int
    BY <1>0, <1>1, <1>3, ExcessTyped
  <2>. HIDE DEF D, f, g, n
  <2>. QED BY <1>2, <2>1, SumOfOneMore
<1>5. SumFunctionOnSet(f, D) < Limit /\ SumFunctionOnSet(f, D) \in Int
  BY <1>0, ExcessTyped DEF ExcessBounded
<1>. QED BY <1>1, <1>3, <1>4, <1>5 DEF ExcessBounded

(* What they hold past their floors stays below the limit.                 *)
LEMMA ExcessStep ==
  FInv /\ WorkersTold /\ PendingCovers /\ HeldIsPending /\ ExcessBounded /\ [Next]_vars
    => ExcessBounded'
<1>. SUFFICES ASSUME FInv, WorkersTold, PendingCovers, HeldIsPending, ExcessBounded, [Next]_vars
              PROVE  ExcessBounded'
  OBVIOUS
<1>1. CASE IssueGroup /\ Kept
  BY <1>1, ExcessIssue
<1>2. CASE \E t \in DOMAIN tasks : WorkerAsks(t) /\ tasks'[t].pc = "decode"
  BY <1>2, ExcessAtGate
<1>3. CASE ~(IssueGroup /\ Kept) /\ ~(\E t \in DOMAIN tasks : WorkerAsks(t) /\ tasks'[t].pc = "decode")
  BY <1>3, ExcessFalls
<1>. QED BY <1>1, <1>2, <1>3

(* Before any row group is issued nothing is held.                         *)
LEMMA AheadInit ==
  Init => WorkersTold /\ PendingCovers /\ HeldIsPending /\ FewUnsettled /\ ExcessBounded
<1>. SUFFICES ASSUME Init
              PROVE  WorkersTold /\ PendingCovers /\ HeldIsPending /\ FewUnsettled /\ ExcessBounded
  OBVIOUS
<1>1. DOMAIN tasks = {} /\ held = 0 /\ inflight = <<>> /\ Len(inflight) = 0
  BY DEF Init
<1>2. WorkersTold /\ PendingCovers
  BY <1>1 DEF WorkersTold, PendingCovers
<1>3. \A f : SumFunctionOnSet(f, DOMAIN tasks) = 0
  BY <1>1, SumOfNone
<1>4. Threads \in Nat \ {0} /\ Limit \in Nat \ {0}
  BY ReaderAssumption
<1>5. HeldIsPending /\ ExcessBounded
  BY <1>1, <1>3, <1>4 DEF HeldIsPending, ExcessBounded
<1>6. Unsettled = {} /\ Cardinality(Unsettled) = 0
  <2>1. Unsettled = {}
    BY <1>1 DEF Unsettled
  <2>. QED BY <2>1, FS_EmptySet
<1>7. FewUnsettled
  BY <1>1, <1>4, <1>6 DEF FewUnsettled
<1>. QED BY <1>2, <1>5, <1>7

(* The invariant on what is held ahead holds of every state of the reader. *)
THEOREM AheadInvariance == Safe => []AInv
<1>1. Init => AInv
  <2>1. Init => FInv
    <3>1. Init => HeadThere /\ ClosedDown
      BY DEF Init, HeadThere, ClosedDown
    <3>. QED BY <3>1, TypedInit, CountsInit DEF FInv, Counted
  <2>. QED BY <2>1, AheadInit DEF AInv
<1>2. AInv /\ [Next]_vars => AInv'
  <2>1. FInv /\ [Next]_vars => FInv'
    BY TypedStep, CountsStep, HeadStep, ClosedDownStep DEF FInv, Counted
  <2>. QED BY <2>1, WorkersTell, HeldStep, FewStep, ExcessStep DEF AInv
<1>. QED BY <1>1, <1>2, PTL DEF Safe

(* What the row groups weigh is what is held and what is being decoded.    *)
LEMMA WeightsAreHeld ==
  ASSUME Typed, HeldIsPending
  PROVE  SumFunctionOnSet([t \in DOMAIN tasks |-> Weight(t)], DOMAIN tasks)
           = held + Cardinality(Decoding)
<1>. DEFINE D == DOMAIN tasks
            f == Pendings
            g == [t \in DOMAIN tasks |-> Weight(t)]
            P == Decoding
<1>1. IsFiniteSet(D) /\ P \in SUBSET D
  BY PendingsTyped DEF Decoding
<1>2. \A u \in D : f[u] \in Int /\ g[u] = f[u] + (IF u \in P THEN 1 ELSE 0)
  BY PendingsTyped DEF Weight, Decoding
<1>3. SumFunctionOnSet(g, D) = SumFunctionOnSet(f, D) + Cardinality(P)
  <2>. HIDE DEF D, f, g, P
  <2>. QED BY <1>1, <1>2, SumWithCount
<1>. QED BY <1>3 DEF HeldIsPending

(* What is decoded ahead of Next, or about to be, stays below the limit    *)
(* and the floor of every row group in flight, whichever of the workers    *)
(* the gate lets on: it weighs no more than what is past the floors, less  *)
(* than the limit, and a floor for each row group that is not settled.     *)
THEOREM AheadIsBounded == Spec => []AheadBounded
<1>1. AInv => AheadBounded
  <2>. SUFFICES ASSUME AInv PROVE held + Cardinality(Decoding) < Limit + Threads * Floor
    BY DEF AheadBounded
  <2>0. /\ Typed /\ WorkersTold /\ PendingCovers /\ HeldIsPending /\ ExcessBounded
        /\ Floor \in Nat \ {0} /\ Limit \in Nat \ {0} /\ Threads \in Nat \ {0}
    BY ExcessTyped, ReaderAssumption DEF AInv, FInv
  <2>. DEFINE D == DOMAIN tasks
              U == Unsettled
              w == [t \in DOMAIN tasks |-> Weight(t)]
              e == Excesses
  <2>1. U \in SUBSET D /\ IsFiniteSet(D) /\ IsFiniteSet(U) /\ Cardinality(U) \in Nat /\ Cardinality(U) <= Threads
    <3>1. U \in SUBSET D /\ IsFiniteSet(D)
      BY <2>0, PendingsTyped DEF Unsettled
    <3>. QED BY <3>1, FS_Subset, FS_CardinalityType DEF AInv, FewUnsettled
  <2>2. \A u \in D : w[u] \in Int /\ e[u] \in Nat /\ w[u] <= e[u] + Floor
    <3>. SUFFICES ASSUME NEW u \in DOMAIN tasks PROVE Weight(u) \in Int /\ Weight(u) <= Excess(u) + Floor
      BY <2>0, ExcessTyped
    <3>1. Weight(u) \in Int
      BY <2>0, ExcessTyped
    <3>2. CASE Weight(u) > Floor
      BY <2>0, <3>1, <3>2 DEF Excess
    <3>3. CASE ~(Weight(u) > Floor)
      BY <2>0, <3>1, <3>3 DEF Excess
    <3>. QED BY <3>1, <3>2, <3>3
  <2>3. \A u \in D : u \notin U => w[u] = 0 /\ e[u] = 0
    <3>. SUFFICES ASSUME NEW u \in DOMAIN tasks, Settled(u) PROVE Weight(u) = 0 /\ Excess(u) = 0
      BY <2>0, ExcessTyped DEF Unsettled
    <3>1. tasks[u].pending \in Int /\ Carried(u) \in 0..2
      BY <2>0, PendingsTyped DEF Carried
    <3>2. tasks[u].pending <= 0 /\ tasks[u].closed /\ Carried(u) <= tasks[u].pending
      BY <2>0 DEF Settled, PendingCovers, Covers
    <3>3. tasks[u].pc # "decode"
      BY <2>0, <3>2 DEF WorkersTold, Told
    <3>4. tasks[u].pending = 0
      BY <3>1, <3>2
    <3>5. Weight(u) = 0
      BY <3>3, <3>4 DEF Weight
    <3>. QED BY <2>0, <3>5 DEF Excess
  <2>4. SumFunctionOnSet(w, D) = SumFunctionOnSet(w, U)
    <3>1. \A u \in D : w[u] \in Int /\ w[u] = IF u \in U THEN w[u] ELSE 0
      BY <2>2, <2>3
    <3>. HIDE DEF D, U, w
    <3>. QED BY <2>1, <3>1, SumOverPart
  <2>5. SumFunctionOnSet(e, D) = SumFunctionOnSet(e, U)
    <3>1. \A u \in D : e[u] \in Int /\ e[u] = IF u \in U THEN e[u] ELSE 0
      BY <2>2, <2>3
    <3>. HIDE DEF D, U, e
    <3>. QED BY <2>1, <3>1, SumOverPart
  <2>6. SumFunctionOnSet(w, U) <= SumFunctionOnSet(e, U) + Cardinality(U) * Floor
    <3>1. Floor \in Int /\ \A u \in U : w[u] \in Int /\ e[u] \in Int /\ w[u] <= e[u] + Floor
      BY <2>0, <2>1, <2>2
    <3>. HIDE DEF U, w, e
    <3>. QED BY <2>1, <3>1, SumWithin
  <2>7. Cardinality(U) * Floor <= Threads * Floor
    <3>. DEFINE k == Cardinality(U)
    <3>1. k \in Nat /\ k <= Threads
      BY <2>1
    <3>. HIDE DEF k
    <3>. DEFINE m == Threads - k
    <3>2. m \in Nat /\ Threads = k + m /\ Floor \in Nat
      BY <2>0, <3>1
    <3>. HIDE DEF m
    <3>3. m * Floor \in Nat /\ k * Floor \in Nat
      BY <3>1, <3>2
    <3>4. (k + m) * Floor = k * Floor + m * Floor
      BY <3>1, <3>2
    <3>5. Threads * Floor = k * Floor + m * Floor
      BY <3>2, <3>4
    <3>6. k * Floor <= k * Floor + m * Floor
      BY <3>3
    <3>. QED BY <3>5, <3>6 DEF k
  <2>8. SumFunctionOnSet(w, D) = held + Cardinality(Decoding)
    BY <2>0, WeightsAreHeld
  <2>9. SumFunctionOnSet(e, D) < Limit
    BY <2>0 DEF ExcessBounded
  <2>10. SumFunctionOnSet(w, D) \in Int /\ SumFunctionOnSet(e, D) \in Int
           /\ Cardinality(U) * Floor \in Int /\ Threads * Floor \in Int
    <3>1. (\A u \in D : w[u] \in Int) /\ (\A u \in D : e[u] \in Int)
      BY <2>2
    <3>2. Cardinality(U) * Floor \in Int /\ Threads * Floor \in Int
      BY <2>0, <2>1
    <3>. HIDE DEF D, w, e
    <3>. QED BY <2>1, <3>1, <3>2, SumIsInteger
  <2>. DEFINE sw == SumFunctionOnSet(w, D)
              se == SumFunctionOnSet(e, D)
              cf == Cardinality(U) * Floor
              tf == Threads * Floor
  <2>11. sw <= se + cf /\ cf <= tf /\ se < Limit /\ sw \in Int /\ se \in Int /\ cf \in Int /\ tf \in Int
    BY <2>4, <2>5, <2>6, <2>7, <2>9, <2>10
  <2>12. sw < Limit + tf
    <3>. HIDE DEF sw, se, cf, tf
    <3>. QED BY <2>0, <2>11
  <2>. QED BY <2>8, <2>12
<1>. QED BY <1>1, AheadInvariance, PTL DEF Spec

-----------------------------------------------------------------------------
(* The third part, on what is issued, delivered and given.                 *)

(* The row groups' places: a batch of one, what Next has been given of it, *)
(* and what waits in its channel.                                          *)
Place(t, i) == <<tasks[t].file, tasks[t].group, i>>
Of(t) == RowBatches(tasks[t].file, tasks[t].group)
Count(t) == Len(Group(t).batches)
IsGiven(t, i) == \E k \in DOMAIN given : given[k] = Place(t, i)
IsOut(t, i) == \E k \in DOMAIN tasks[t].out : tasks[t].out[k] = i
Ended(t) == tasks[t].pc \in {"close", "release", "done"}

(* Row groups are issued in the serial reader's order, and none that is    *)
(* kept is left out.                                                       *)
Ahead(f, g, t) == f < tasks[t].file \/ (f = tasks[t].file /\ g < tasks[t].group)
Issued(f, g) == \E t \in DOMAIN tasks : tasks[t].file = f /\ tasks[t].group = g
Passed(f, g) ==
  /\ files[f].groups[g].stats # "bad"
  /\ files[f].groups[g].stats = "keep" => Issued(f, g)
TasksOrdered ==
  \A t \in DOMAIN tasks :
    /\ tasks[t].group \in KeptGroups(tasks[t].file)
    /\ \A u \in DOMAIN tasks : u < t => Ahead(tasks[u].file, tasks[u].group, t)
    /\ \A f \in DOMAIN files :
         /\ f <= tasks[t].file => files[f].opens
         /\ \A g \in DOMAIN files[f].groups : Ahead(f, g, t) => Passed(f, g)

(* Where the issuing has come to.                                          *)
Considered(f, g) == f < fileIdx /\ (f = cur => g <= rgIndex)
FailsHere ==
  IF cur # None THEN rgIndex \in DOMAIN files[cur].groups /\ files[cur].groups[rgIndex].stats = "bad"
  ELSE fileIdx \in DOMAIN files /\ ~files[fileIdx].opens
IssuedSoFar ==
  ~stopped =>
    /\ cur # None => cur = fileIdx - 1 /\ rgIndex <= Len(files[cur].groups)
    /\ \A f \in 1..(fileIdx - 1) :
         /\ files[f].opens
         /\ \A g \in DOMAIN files[f].groups :
              Considered(f, g) => Passed(f, g) \/ (issueErr /\ f = cur /\ g = rgIndex)
    /\ \A t \in DOMAIN tasks : Considered(tasks[t].file, tasks[t].group)
    /\ issueErr => FailsHere
    /\ issuedAll => cur = None /\ fileIdx = Len(files) + 1

(* A row group's batches are in its channel in their order, behind those   *)
(* given; only one that a worker gave up when the reader was stopped is in *)
(* neither; and a worker ends at its row group's end.                      *)
Dropped(t, i) == i = tasks[t].at /\ stopped /\ Ended(t) /\ ~IsOut(t, None)
Delivers(t) ==
  /\ tasks[t].at <= Count(t)
  /\ tasks[t].pc = "send" => tasks[t].at \in Of(t)
  /\ \A k, l \in DOMAIN tasks[t].out :
       k < l => /\ tasks[t].out[k] # None
                /\ tasks[t].out[l] = None \/ tasks[t].out[k] < tasks[t].out[l]
  /\ \A i \in Nat \ {None} :
       IsOut(t, i) => i \in Of(t) /\ i <= tasks[t].at /\ (tasks[t].pc = "send" => i < tasks[t].at)
  /\ \A i \in Nat :
       IsGiven(t, i) => /\ i <= tasks[t].at /\ (tasks[t].pc = "send" => i < tasks[t].at)
                        /\ \A j \in Nat \ {None} : IsOut(t, j) => i < j
  /\ \A i \in Of(t) :
       i <= tasks[t].at => \/ IsGiven(t, i) \/ IsOut(t, i)
                           \/ i = tasks[t].at /\ tasks[t].pc = "send"
                           \/ Dropped(t, i)
  /\ tasks[t].pc = "fail" \/ IsOut(t, None)
       => tasks[t].at = Count(t) /\ Group(t).end # "ok"
  /\ Ended(t) => \/ stopped \/ err
                 \/ tasks[t].at = Count(t) /\ (Group(t).end = "ok" \/ IsOut(t, None))
AllDeliver == (gateStopped => stopped) /\ \A t \in DOMAIN tasks : Delivers(t)

(* Next takes of one row group at a time: those before are given whole and *)
(* have not failed, and of those behind nothing is given.                  *)
Full(t) == Group(t).end = "ok" /\ \A i \in Of(t) : IsGiven(t, i)
Untouched(t) == \A i \in Nat : ~IsGiven(t, i)
TakesAt(h) == \A t \in DOMAIN tasks : (t < h => Full(t)) /\ (t > h => Untouched(t))
Oldest == Len(tasks) - Len(inflight) + 1
InTurn ==
  /\ ~stopped => /\ \A k \in DOMAIN inflight : inflight[k] = Oldest + k - 1
                 /\ TakesAt(Oldest)
                 /\ pc \in {"wait", "taken"} => head = Oldest
  /\ pc \in {"wait", "taken"} => TakesAt(head)

(* What has been given is of the row groups issued, in their order and     *)
(* each to its end, and what was answered stands.                          *)
GivenInOrder ==
  /\ given \in Seq(Nat \X Nat \X Nat)
  /\ \A k \in DOMAIN given : \E t \in DOMAIN tasks : \E i \in Of(t) : given[k] = Place(t, i)
  /\ \A j, k \in DOMAIN given : j < k => Before(given[j], given[k])
  /\ \A t, u \in DOMAIN tasks : u < t /\ ~Untouched(t) => Full(u)
Answered ==
  /\ err => /\ pc \in {"out", "head"}
            /\ \E x \in Failures : ToSet(given) = BatchesBefore(x)
  /\ answer = "err" => err
  /\ answer = "eof" => Failures = {} /\ Batches \subseteq ToSet(given)

SInv == TasksOrdered /\ IssuedSoFar /\ AllDeliver /\ InTurn /\ GivenInOrder /\ Answered
-----------------------------------------------------------------------------
(* The rows and the row groups.                                            *)

(* A file's row groups, and each one's batches.                            *)
LEMMA GroupShape ==
  ASSUME Typed, NEW f \in DOMAIN files, NEW g \in DOMAIN files[f].groups
  PROVE  LET G == files[f].groups[g] IN
         /\ f \in Nat /\ g \in Nat \ {0} /\ files[f].opens \in BOOLEAN
         /\ G.stats \in {"keep", "skip", "bad"} /\ Len(G.batches) \in Nat
         /\ DOMAIN G.batches = 1..Len(G.batches)
         /\ RowBatches(f, g) \subseteq 1..Len(G.batches)
<1>1. files \in Seq(AFile) /\ DOMAIN files = 1..Len(files) /\ Len(files) \in Nat
  BY FilesTyped DEF Typed
<1>2. files[f] \in AFile /\ f \in Nat
  BY <1>1
<1>3. files[f].groups \in Seq(Groups) /\ files[f].opens \in BOOLEAN
  BY <1>2 DEF AFile
<1>4. files[f].groups[g] \in Groups /\ g \in Nat \ {0}
  BY <1>3
<1>. DEFINE G == files[f].groups[g]
<1>5. G.stats \in {"keep", "skip", "bad"} /\ G.batches \in Seq({"rows", "empty"})
  BY <1>4 DEF Groups
<1>6. DOMAIN G.batches = 1..Len(G.batches) /\ Len(G.batches) \in Nat
  BY <1>5
<1>7. RowBatches(f, g) \subseteq DOMAIN G.batches
  BY DEF RowBatches
<1>. HIDE DEF G
<1>. QED BY <1>2, <1>3, <1>4, <1>5, <1>6, <1>7 DEF G

(* A file's row groups are a sequence.                                     *)
LEMMA GroupsSeq ==
  ASSUME Typed, NEW f \in DOMAIN files
  PROVE  /\ f \in Nat /\ DOMAIN files = 1..Len(files) /\ Len(files) \in Nat
         /\ Len(files[f].groups) \in Nat /\ DOMAIN files[f].groups = 1..Len(files[f].groups)
         /\ files[f].opens \in BOOLEAN
<1>1. files \in Seq(AFile) /\ DOMAIN files = 1..Len(files) /\ Len(files) \in Nat
  BY FilesTyped DEF Typed
<1>2. files[f] \in AFile /\ f \in Nat
  BY <1>1
<1>3. files[f].groups \in Seq(Groups) /\ files[f].opens \in BOOLEAN
  BY <1>2 DEF AFile
<1>. QED BY <1>1, <1>2, <1>3

(* What a batch of the scan is.                                            *)
LEMMA BatchIs ==
  ASSUME NEW p
  PROVE  p \in Batches <=> \E f \in DOMAIN files : \E g \in KeptGroups(f) :
                             \E i \in RowBatches(f, g) : p = <<f, g, i>>
BY DEF Batches

(* What fails of a scan.                                                   *)
LEMMA FailureIs ==
  ASSUME NEW p
  PROVE  p \in Failures <=>
           \E f \in DOMAIN files :
             \/ ~files[f].opens /\ p = <<f, 0, 0>>
             \/ files[f].opens /\ \E g \in DOMAIN files[f].groups :
                  \/ files[f].groups[g].stats = "bad" /\ p = <<f, g, 0>>
                  \/ /\ files[f].groups[g].stats = "keep" /\ files[f].groups[g].end # "ok"
                     /\ p = <<f, g, Len(files[f].groups[g].batches) + 1>>
<1>1. \A f, g : p \in FailureIn(f, g) <=>
                  \/ files[f].groups[g].stats = "bad" /\ p = <<f, g, 0>>
                  \/ /\ files[f].groups[g].stats = "keep" /\ files[f].groups[g].end # "ok"
                     /\ p = <<f, g, Len(files[f].groups[g].batches) + 1>>
  BY DEF FailureIn
<1>2. p \in Failures <=> \E f \in DOMAIN files :
                           p \in IF files[f].opens THEN UNION {FailureIn(f, g) : g \in DOMAIN files[f].groups}
                                 ELSE {<<f, 0, 0>>}
  BY DEF Failures
<1>. QED BY <1>1, <1>2

(* A row group issued is one of a file's, and its batches are those.       *)
LEMMA TaskShape ==
  ASSUME Typed, TasksOfOpened, TasksOrdered, NEW t \in DOMAIN tasks
  PROVE  /\ tasks[t].file \in DOMAIN files /\ tasks[t].group \in DOMAIN files[tasks[t].file].groups
         /\ tasks[t].file \in Nat /\ tasks[t].group \in Nat /\ t \in Nat
         /\ Count(t) \in Nat /\ Of(t) \subseteq 1..Count(t) /\ tasks[t].at \in Nat
         /\ Group(t).stats = "keep" /\ files[tasks[t].file].opens
<1>1. tasks[t].group \in KeptGroups(tasks[t].file) /\ tasks[t].file \in 1..(fileIdx - 1)
  BY DEF TasksOrdered, TasksOfOpened
<1>2. DOMAIN files = 1..Len(files) /\ Len(files) \in Nat /\ fileIdx \in 2..(Len(files) + 1)
  BY FilesTyped DEF Typed
<1>3. tasks[t].file \in DOMAIN files
  BY <1>1, <1>2
<1>4. tasks[t].group \in DOMAIN files[tasks[t].file].groups
        /\ Group(t).stats = "keep" /\ files[tasks[t].file].opens
  BY <1>1 DEF KeptGroups, Group
<1>5. tasks[t] \in Task /\ t \in Nat
  BY TaskTyped DEF Typed
<1>6. tasks[t].at \in Nat
  BY <1>5 DEF Task
<1>. QED BY <1>3, <1>4, <1>5, <1>6, GroupShape DEF Count, Of, Group

-----------------------------------------------------------------------------
(* The order of issue.                                                     *)

(* Steps that add no row group keep the order.                             *)
LEMMA OrderStays ==
  ASSUME TasksOrdered, Keeps, UNCHANGED files
  PROVE  TasksOrdered'
BY DEF TasksOrdered, Keeps, KeptGroups, Ahead, Passed, Issued

(* And where the issuing has come to, while the issuing is where it was.   *)
LEMMA SoFarStays ==
  ASSUME IssuedSoFar, Keeps, ~stopped' => ~stopped,
         UNCHANGED <<files, fileIdx, cur, rgIndex, issueErr, issuedAll>>
  PROVE  IssuedSoFar'
BY DEF IssuedSoFar, Keeps, Considered, FailsHere, Passed, Issued

(* The same where the tasks are not touched at all.                        *)
LEMMA KeepsSame == ASSUME Typed, UNCHANGED tasks PROVE Keeps
BY DEF Keeps, Typed

(* A file is opened at its first row group, in its turn.                   *)
LEMMA OpenSoFar ==
  ASSUME FInv, IssuedSoFar, OpenFile
  PROVE  IssuedSoFar'
<1>. USE DEF FInv
<1>1. /\ Issues /\ cur = None /\ UNCHANGED <<files, tasks, stopped>>
      /\ ~stopped /\ ~issueErr /\ ~issuedAll
  BY DEF OpenFile, Issues
<1>2. Len(files) \in Nat /\ DOMAIN files = 1..Len(files) /\ fileIdx \in 2..(Len(files) + 1)
  BY FilesTyped DEF Typed
<1>3. \A f \in 1..(fileIdx - 1) : files[f].opens /\ f < fileIdx /\ f # cur
  BY <1>1, <1>2 DEF IssuedSoFar, None
<1>4. \A f \in 1..(fileIdx - 1) : \A g \in DOMAIN files[f].groups : Passed(f, g)
  BY <1>1, <1>3 DEF IssuedSoFar, Considered
<1>5. \A f, g : Passed(f, g)' <=> Passed(f, g)
  BY <1>1 DEF Passed, Issued
<1>6. CASE fileIdx > Len(files)
  <2>1. UNCHANGED <<fileIdx, cur, rgIndex, issueErr>>
    BY <1>2, <1>6 DEF OpenFile
  <2>2. fileIdx = Len(files) + 1
    BY <1>2, <1>6
  <2>. QED BY <1>1, <1>3, <1>4, <1>5, <2>1, <2>2 DEF IssuedSoFar, Considered, None
<1>7. CASE fileIdx <= Len(files) /\ ~files[fileIdx].opens
  <2>1. issueErr' /\ UNCHANGED <<fileIdx, cur, rgIndex, issuedAll>>
    BY <1>7 DEF OpenFile
  <2>. QED BY <1>1, <1>2, <1>3, <1>4, <1>5, <1>7, <2>1 DEF IssuedSoFar, Considered, FailsHere, None
<1>8. CASE fileIdx <= Len(files) /\ files[fileIdx].opens
  <2>1. cur' = fileIdx /\ rgIndex' = 0 /\ fileIdx' = fileIdx + 1 /\ UNCHANGED <<issueErr, issuedAll>>
    BY <1>2, <1>8 DEF OpenFile
  <2>2. fileIdx \in DOMAIN files /\ Len(files[fileIdx].groups) \in Nat
          /\ DOMAIN files[fileIdx].groups = 1..Len(files[fileIdx].groups)
    BY <1>2, <1>8, GroupsSeq
  <2>3. \A f \in 1..(fileIdx' - 1) : f \in 1..(fileIdx - 1) \/ f = fileIdx
    BY <1>2, <2>1
  <2>4. \A f \in 1..(fileIdx' - 1) : files[f].opens
    BY <1>3, <1>8, <2>3
  <2>5. \A f \in 1..(fileIdx' - 1) : \A g \in DOMAIN files[f].groups :
          Considered(f, g)' => Passed(f, g)
    <3>. SUFFICES ASSUME NEW f \in 1..(fileIdx' - 1), NEW g \in DOMAIN files[f].groups, Considered(f, g)'
                  PROVE  Passed(f, g)
      OBVIOUS
    <3>1. f # fileIdx
      BY <2>1, <2>2 DEF Considered
    <3>. QED BY <1>4, <2>3, <3>1
  <2>6. \A t \in DOMAIN tasks : Considered(tasks[t].file, tasks[t].group)'
    BY <1>1, <1>2, <2>1 DEF Considered, TasksOfOpened
  <2>. QED BY <1>1, <1>2, <1>5, <2>1, <2>2, <2>4, <2>5, <2>6 DEF IssuedSoFar, None
<1>. QED BY <1>2, <1>6, <1>7, <1>8

(* A file is left with all its row groups considered.                      *)
LEMMA LeaveSoFar ==
  ASSUME FInv, IssuedSoFar, LeaveFile
  PROVE  IssuedSoFar'
<1>. USE DEF FInv
<1>1. /\ cur # None /\ rgIndex = Len(files[cur].groups) /\ cur' = None
      /\ UNCHANGED <<files, tasks, stopped, fileIdx, rgIndex, issueErr, issuedAll>>
      /\ ~stopped /\ ~issueErr /\ ~issuedAll
  BY DEF LeaveFile, Issues
<1>2. Len(files) \in Nat /\ DOMAIN files = 1..Len(files) /\ fileIdx \in 2..(Len(files) + 1)
        /\ cur \in 1..(fileIdx - 1)
  BY <1>1, FilesTyped DEF Typed, None
<1>3. \A f \in 1..(fileIdx - 1) : \A g \in DOMAIN files[f].groups : Considered(f, g)
  <2>. SUFFICES ASSUME NEW f \in 1..(fileIdx - 1), NEW g \in DOMAIN files[f].groups
                PROVE  Considered(f, g)
    OBVIOUS
  <2>1. f \in DOMAIN files
    BY <1>2
  <2>. QED BY <1>1, <1>2, <2>1, GroupsSeq DEF Considered
<1>4. \A f \in 1..(fileIdx - 1) : \A g \in DOMAIN files[f].groups : Passed(f, g)
  BY <1>1, <1>3 DEF IssuedSoFar
<1>5. \A f, g : Passed(f, g)' <=> Passed(f, g)
  BY <1>1 DEF Passed, Issued
<1>6. \A t \in DOMAIN tasks : Considered(tasks[t].file, tasks[t].group)'
  BY <1>1, <1>2 DEF Considered, TasksOfOpened, None
<1>. QED BY <1>1, <1>2, <1>4, <1>5, <1>6 DEF IssuedSoFar, None

(* A row group is considered next in its file, and issued where it is kept. *)
LEMMA IssueOrders ==
  ASSUME FInv, TasksOrdered, IssuedSoFar, IssueGroup
  PROVE  TasksOrdered' /\ IssuedSoFar'
<1>0. PICK c, m : c = cur /\ m = rgIndex + 1
  OBVIOUS
<1>. DEFINE n == Len(tasks) + 1
            here == files[c].groups[m]
<1>1. /\ c = cur /\ m = rgIndex + 1 /\ cur # None /\ rgIndex' = m /\ rgIndex < Len(files[cur].groups)
      /\ UNCHANGED <<files, stopped, fileIdx, cur, issuedAll>>
      /\ ~stopped /\ ~issueErr /\ ~issuedAll
  BY <1>0 DEF IssueGroup, Issues
<1>2. /\ Typed /\ TasksOfOpened /\ tasks \in Seq(Task) /\ Len(tasks) \in Nat /\ rgIndex \in Nat
      /\ DOMAIN tasks = 1..Len(tasks)
      /\ Len(files) \in Nat /\ DOMAIN files = 1..Len(files) /\ fileIdx \in 2..(Len(files) + 1)
      /\ cur = fileIdx - 1 /\ cur \in DOMAIN files /\ cur \in Nat
  BY <1>1, FilesTyped DEF FInv, Typed, IssuedSoFar, None
<1>3. /\ Len(files[cur].groups) \in Nat /\ DOMAIN files[cur].groups = 1..Len(files[cur].groups)
      /\ m \in DOMAIN files[cur].groups
  BY <1>1, <1>2, GroupsSeq
<1>4. \A f \in 1..(fileIdx - 1) :
        files[f].opens /\ \A g \in DOMAIN files[f].groups : Considered(f, g) => Passed(f, g)
  BY <1>1 DEF IssuedSoFar
<1>5. \A t \in DOMAIN tasks : Considered(tasks[t].file, tasks[t].group)
  BY <1>1 DEF IssuedSoFar
<1>6. \A f \in DOMAIN files : \A g \in DOMAIN files[f].groups :
        f < cur \/ (f = cur /\ g < m) => Considered(f, g)
  <2>. SUFFICES ASSUME NEW f \in DOMAIN files, NEW g \in DOMAIN files[f].groups,
                       f < cur \/ (f = cur /\ g < m)
                PROVE  Considered(f, g)
    OBVIOUS
  <2>1. f \in Nat /\ g \in Nat
    BY <1>2, GroupsSeq
  <2>. QED BY <1>1, <1>2, <2>1 DEF Considered
<1>7. \A f \in DOMAIN files : \A g \in DOMAIN files[f].groups :
        Considered(f, g)' => Considered(f, g) \/ (f = c /\ g = m)
  <2>. SUFFICES ASSUME NEW f \in DOMAIN files, NEW g \in DOMAIN files[f].groups, Considered(f, g)'
                PROVE  Considered(f, g) \/ (f = c /\ g = m)
    OBVIOUS
  <2>1. f \in Nat /\ g \in Nat
    BY <1>2, GroupsSeq
  <2>. QED BY <1>1, <1>2, <2>1 DEF Considered
<1>8. CASE Kept
  <2>1. /\ n \notin DOMAIN tasks /\ DOMAIN tasks' = DOMAIN tasks \union {n}
        /\ tasks'[n].file = cur /\ tasks'[n].group = m
        /\ \A u \in DOMAIN tasks : tasks'[u] = tasks[u]
        /\ issueErr' = issueErr
    BY <1>1, <1>2, <1>8, IssueAdds DEF NewTask
  <2>2. \A f, g : Passed(f, g) => Passed(f, g)'
    BY <1>1, <2>1 DEF Passed, Issued
  <2>3. here.stats = "keep" /\ Issued(c, m)'
    BY <1>1, <2>1, <1>8 DEF Kept, Issued
  <2>4. Passed(c, m)'
    BY <1>1, <2>3 DEF Passed
  <2>5. m \in KeptGroups(cur) /\ cur \in 1..(fileIdx - 1)
    BY <1>1, <1>2, <1>3, <1>4, <2>3 DEF KeptGroups
  <2>6. \A u \in DOMAIN tasks : tasks[u].file < cur \/ (tasks[u].file = cur /\ tasks[u].group < m)
    <3>. SUFFICES ASSUME NEW u \in DOMAIN tasks
                  PROVE  tasks[u].file < cur \/ (tasks[u].file = cur /\ tasks[u].group < m)
      OBVIOUS
    <3>1. tasks[u].file \in Nat /\ tasks[u].group \in Nat
      BY <1>2, TaskTyped DEF Task
    <3>. QED BY <1>1, <1>2, <1>5, <3>1 DEF Considered
  <2>7. \A t \in DOMAIN tasks' : (tasks[t].group \in KeptGroups(tasks[t].file))'
    BY <1>1, <2>1, <2>5 DEF TasksOrdered, KeptGroups
  <2>8. \A t, u \in DOMAIN tasks' : u < t => Ahead(tasks[u].file, tasks[u].group, t)'
    <3>. SUFFICES ASSUME NEW t \in DOMAIN tasks', NEW u \in DOMAIN tasks', u < t
                  PROVE  Ahead(tasks[u].file, tasks[u].group, t)'
      OBVIOUS
    <3>1. u \in DOMAIN tasks
      BY <1>2, <2>1
    <3>2. CASE t \in DOMAIN tasks
      BY <2>1, <3>1, <3>2 DEF TasksOrdered, Ahead
    <3>3. CASE t = n
      BY <2>1, <2>6, <3>1, <3>3 DEF Ahead
    <3>. QED BY <2>1, <3>2, <3>3
  <2>9. \A t \in DOMAIN tasks' : \A f \in DOMAIN files :
          /\ f <= tasks'[t].file => files[f].opens
          /\ \A g \in DOMAIN files[f].groups : Ahead(f, g, t)' => Passed(f, g)'
    <3>. SUFFICES ASSUME NEW t \in DOMAIN tasks', NEW f \in DOMAIN files
                  PROVE  /\ f <= tasks'[t].file => files[f].opens
                         /\ \A g \in DOMAIN files[f].groups : Ahead(f, g, t)' => Passed(f, g)'
      OBVIOUS
    <3>1. CASE t \in DOMAIN tasks
      BY <2>1, <2>2, <3>1 DEF TasksOrdered, Ahead
    <3>2. CASE t = n
      <4>1. f <= cur => f \in 1..(fileIdx - 1)
        BY <1>2
      <4>2. f <= cur => files[f].opens
        BY <1>4, <4>1
      <4>3. \A g \in DOMAIN files[f].groups : Ahead(f, g, t)' => f <= cur /\ Considered(f, g)
        BY <1>2, <1>6, <2>1, <3>2 DEF Ahead
      <4>. QED BY <1>4, <2>1, <2>2, <3>2, <4>1, <4>2, <4>3
    <3>. QED BY <2>1, <3>1, <3>2
  <2>10. TasksOrdered'
    BY <1>1, <2>7, <2>8, <2>9 DEF TasksOrdered
  <2>11. \A t \in DOMAIN tasks' : Considered(tasks[t].file, tasks[t].group)'
    <3>. SUFFICES ASSUME NEW t \in DOMAIN tasks'
                  PROVE  Considered(tasks[t].file, tasks[t].group)'
      OBVIOUS
    <3>1. CASE t \in DOMAIN tasks
      <4>1. tasks[t].group \in Nat
        BY <1>2, <3>1, TaskTyped DEF Task
      <4>. QED BY <1>1, <1>2, <1>5, <2>1, <3>1, <4>1 DEF Considered
    <3>2. CASE t = n
      BY <1>1, <1>2, <2>1, <3>2 DEF Considered
    <3>. QED BY <2>1, <3>1, <3>2
  <2>12. \A f \in 1..(fileIdx - 1) : \A g \in DOMAIN files[f].groups : Considered(f, g)' => Passed(f, g)'
    BY <1>1, <1>2, <1>4, <1>7, <2>2, <2>4
  <2>. QED BY <1>1, <1>2, <1>3, <1>4, <2>1, <2>10, <2>11, <2>12 DEF IssuedSoFar
<1>9. CASE ~Kept
  <2>1. UNCHANGED <<tasks, inflight, refs>> /\ Keeps
    BY <1>2, <1>9, IssueSkips, KeepsSame
  <2>2. here.stats # "keep" /\ (here.stats = "bad" => issueErr')
    BY <1>1, <1>9 DEF Kept, IssueGroup
  <2>3. here.stats # "bad" => issueErr' = issueErr
    BY <1>1, <1>2, <1>9, GroupTyped DEF Kept, IssueGroup
  <2>4. \A f, g : Passed(f, g)' <=> Passed(f, g)
    BY <1>1, <2>1 DEF Passed, Issued
  <2>5. \A f \in 1..(fileIdx - 1) : \A g \in DOMAIN files[f].groups :
          Considered(f, g)' => Passed(f, g)' \/ (issueErr' /\ f = c /\ g = m)
    <3>1. here.stats # "bad" => Passed(c, m)'
      BY <1>1, <2>2 DEF Passed
    <3>. QED BY <1>1, <1>2, <1>4, <1>7, <2>2, <2>4, <3>1
  <2>6. issueErr' => FailsHere'
    BY <1>1, <1>3, <2>3 DEF FailsHere
  <2>7. \A t \in DOMAIN tasks' : Considered(tasks[t].file, tasks[t].group)'
    <3>. SUFFICES ASSUME NEW t \in DOMAIN tasks
                  PROVE  Considered(tasks[t].file, tasks[t].group)'
      BY <2>1
    <3>1. tasks[t].group \in Nat
      BY <1>2, TaskTyped DEF Task
    <3>. QED BY <1>1, <1>2, <1>5, <2>1, <3>1 DEF Considered
  <2>8. TasksOrdered'
    BY <1>1, <2>1, OrderStays
  <2>. QED BY <1>1, <1>2, <1>3, <1>4, <2>5, <2>6, <2>7, <2>8 DEF IssuedSoFar
<1>. QED BY <1>8, <1>9

(* No step but an issue adds a row group or changes whose it is; the files *)
(* stay, and what is stopped stays so.                                     *)
LEMMA OthersKeep ==
  ASSUME FInv, [Next]_vars
  PROVE  /\ UNCHANGED files /\ (stopped => stopped') /\ (err => err')
         /\ ~IssueGroup => Keeps
<1>1. Typed /\ HeadThere
  BY DEF FInv
<1>2. CASE Cancel \/ NextStarts \/ HeadRefuses \/ OpenFile \/ LeaveFile \/ HeadAnswers
             \/ ReceiveClosed \/ WaitEnds \/ CloseStops \/ CloseEnds \/ UNCHANGED vars
  <2>1. UNCHANGED <<files, tasks>> /\ (stopped => stopped') /\ (err => err')
    BY <1>2 DEF Cancel, NextStarts, HeadRefuses, OpenFile, LeaveFile, HeadAnswers,
                ReceiveClosed, WaitEnds, CloseStops, CloseEnds, vars
  <2>. QED BY <1>1, <2>1, KeepsSame
<1>3. CASE IssueGroup
  BY <1>3 DEF IssueGroup
<1>4. CASE Receive
  <2>1. UNCHANGED <<files, stopped>> /\ (err => err')
    BY <1>4 DEF Receive
  <2>. QED BY <1>1, <1>4, <2>1, ReceiveMoves, MovesKeeps
<1>5. CASE Taken
  <2>1. UNCHANGED <<files, stopped, err>>
    BY <1>5 DEF Taken
  <2>. QED BY <1>1, <1>5, <2>1, TakenKeeps
<1>6. CASE CloseGate
  <2>1. UNCHANGED <<files, stopped, err>>
    BY <1>6 DEF CloseGate
  <2>. QED BY <1>1, <1>6, <2>1, GateKeeps
<1>7. ASSUME NEW t \in DOMAIN tasks, Work(t)
      PROVE  UNCHANGED <<files, stopped, err>> /\ Keeps
  BY <1>1, <1>7, WorkMoves, MovesKeeps
<1>. QED BY <1>2, <1>3, <1>4, <1>5, <1>6, <1>7 DEF Next, Reads, Closes

(* Every step keeps the order of issue.                                    *)
LEMMA OrderStep ==
  ASSUME FInv, TasksOrdered, IssuedSoFar, [Next]_vars
  PROVE  TasksOrdered' /\ IssuedSoFar'
<1>1. CASE IssueGroup
  BY <1>1, IssueOrders
<1>2. CASE ~IssueGroup
  <2>1. UNCHANGED files /\ Keeps /\ (~stopped' => ~stopped)
    BY <1>2, OthersKeep
  <2>2. TasksOrdered'
    BY <2>1, OrderStays
  <2>3. CASE OpenFile \/ LeaveFile
    BY <2>2, <2>3, OpenSoFar, LeaveSoFar
  <2>4. CASE CloseEnds
    <3>1. stopped'
      BY <2>4 DEF CloseEnds, FInv, ClosedDown
    <3>. QED BY <2>2, <3>1 DEF IssuedSoFar
  <2>5. CASE ~OpenFile /\ ~LeaveFile /\ ~CloseEnds
    <3>1. UNCHANGED <<fileIdx, cur, rgIndex, issueErr, issuedAll>>
      <4>1. ASSUME NEW t \in DOMAIN tasks, Work(t)
            PROVE  UNCHANGED <<fileIdx, cur, rgIndex, issueErr, issuedAll>>
        BY <4>1, WorkMoves DEF FInv, issuing
      <4>2. CASE Cancel \/ NextStarts \/ HeadRefuses \/ HeadAnswers \/ ReceiveClosed \/ WaitEnds
                   \/ CloseStops \/ Receive \/ Taken \/ CloseGate \/ UNCHANGED vars
        BY <4>2 DEF Cancel, NextStarts, HeadRefuses, HeadAnswers, ReceiveClosed, WaitEnds,
                    CloseStops, Receive, Taken, CloseGate, vars, issuing
      <4>. QED BY <1>2, <2>5, <4>1, <4>2 DEF Next, Reads, Closes
    <3>. QED BY <2>1, <2>2, <3>1, SoFarStays
  <2>. QED BY <2>3, <2>4, <2>5
<1>. QED BY <1>1, <1>2

-----------------------------------------------------------------------------
(* What each row group delivers.                                           *)

(* A row group's batches are what they were.                               *)
LEMMA GroupStays ==
  ASSUME Keeps, UNCHANGED files, NEW t \in DOMAIN tasks
  PROVE  UNCHANGED <<Of(t), Count(t), Group(t)>> /\ \A i : Place(t, i)' = Place(t, i)
BY DEF Keeps, Of, Count, Group, Place, RowBatches

(* A worker that takes no batch on or off its channel delivers as before:  *)
(* it gives up what it was to send only once the reader is stopped, and    *)
(* ends only for that or at its row group's end.                           *)
LEMMA DeliversOn ==
  ASSUME Keeps, UNCHANGED <<files, given>>, NEW t \in DOMAIN tasks, Delivers(t),
         tasks'[t].at = tasks[t].at, tasks'[t].out = tasks[t].out,
         stopped => stopped', err => err',
         tasks'[t].pc = "send" => tasks[t].pc = "send",
         tasks[t].pc = "send" /\ tasks'[t].pc # "send" => stopped' /\ Ended(t)' /\ ~IsOut(t, None),
         tasks'[t].pc = "fail" =>
           tasks[t].pc = "fail" \/ (tasks[t].at = Count(t) /\ Group(t).end # "ok"),
         Ended(t) => Ended(t)',
         Ended(t)' => Ended(t) \/ stopped' \/ (tasks[t].at = Count(t) /\ Group(t).end = "ok")
  PROVE  Delivers(t)'
<1>1. UNCHANGED <<Of(t), Count(t), Group(t)>> /\ \A i : Place(t, i)' = Place(t, i)
  BY GroupStays
<1>2. \A i : (IsGiven(t, i)' <=> IsGiven(t, i)) /\ (IsOut(t, i)' <=> IsOut(t, i))
  BY <1>1 DEF IsGiven, IsOut
<1>3. IsOut(t, None)' <=> IsOut(t, None)
  BY DEF IsOut, None
<1>4. \A i : Dropped(t, i) => Dropped(t, i)'
  BY <1>3 DEF Dropped
<1>5. tasks[t].pc = "send" /\ tasks'[t].pc # "send" => Dropped(t, tasks[t].at)'
  BY <1>3 DEF Dropped
<1>6. /\ tasks'[t].at <= Count(t)'
      /\ tasks'[t].pc = "send" => tasks'[t].at \in Of(t)'
      /\ \A k, l \in DOMAIN tasks'[t].out :
           k < l => /\ tasks'[t].out[k] # None
                    /\ tasks'[t].out[l] = None \/ tasks'[t].out[k] < tasks'[t].out[l]
  BY <1>1 DEF Delivers
<1>7. /\ \A i \in Nat \ {None} :
           IsOut(t, i)' => i \in Of(t)' /\ i <= tasks'[t].at /\ (tasks'[t].pc = "send" => i < tasks'[t].at)
      /\ \A i \in Nat :
           IsGiven(t, i)' => /\ i <= tasks'[t].at /\ (tasks'[t].pc = "send" => i < tasks'[t].at)
                             /\ \A j \in Nat \ {None} : IsOut(t, j)' => i < j
  BY <1>1, <1>2 DEF Delivers
<1>8. \A i \in Of(t)' :
        i <= tasks'[t].at => \/ IsGiven(t, i)' \/ IsOut(t, i)'
                             \/ i = tasks'[t].at /\ tasks'[t].pc = "send"
                             \/ Dropped(t, i)'
  <2>. SUFFICES ASSUME NEW i \in Of(t), i <= tasks[t].at, ~IsGiven(t, i), ~IsOut(t, i)
                PROVE  (i = tasks[t].at /\ tasks'[t].pc = "send") \/ Dropped(t, i)'
    BY <1>1, <1>2
  <2>1. (i = tasks[t].at /\ tasks[t].pc = "send") \/ Dropped(t, i)
    BY DEF Delivers
  <2>2. CASE Dropped(t, i)
    BY <1>4, <2>2
  <2>3. CASE i = tasks[t].at /\ tasks[t].pc = "send" /\ tasks'[t].pc # "send"
    BY <1>3, <2>3 DEF Dropped
  <2>. QED BY <2>1, <2>2, <2>3
<1>9. /\ tasks'[t].pc = "fail" \/ IsOut(t, None)'
           => tasks'[t].at = Count(t)' /\ Group(t)'.end # "ok"
      /\ Ended(t)' => \/ stopped' \/ err'
                      \/ tasks'[t].at = Count(t)' /\ (Group(t)'.end = "ok" \/ IsOut(t, None)')
  BY <1>1, <1>3 DEF Delivers
<1>. QED BY <1>1, <1>6, <1>7, <1>8, <1>9 DEF Delivers

(* A worker that decodes, sends nothing and gives nothing up delivers on.  *)
LEMMA MoveDelivers ==
  ASSUME FInv, WorkersTold, AllDeliver, NEW t \in DOMAIN tasks,
         WorkerLoops(t) \/ WorkerAsks(t) \/ WorkerFails(t) \/ WorkerGivesUp(t) \/ WorkerEnds(t)
           \/ WorkerCloses(t)
  PROVE  Delivers(t)'
<1>1. Typed /\ Delivers(t) /\ Told(t) /\ (gateStopped => stopped)
  BY DEF FInv, WorkersTold, AllDeliver
<1>2. Work(t) /\ Keeps /\ UNCHANGED <<files, given, stopped, err>>
  BY <1>1, WorkMoves, MovesKeeps DEF Work, next
<1>3. tasks[t].pc = "send" => ~IsOut(t, None)
  BY <1>1 DEF Told, IsOut
<1>4. CASE WorkerCloses(t)
  <2>1. tasks'[t].at = tasks[t].at /\ tasks'[t].out = tasks[t].out /\ tasks'[t].pc = "release"
          /\ tasks[t].pc = "close"
    BY <1>1, <1>4, ClosesTo DEF WorkerCloses
  <2>. QED BY <1>1, <1>2, <2>1, DeliversOn DEF Ended
<1>5. CASE ~WorkerCloses(t)
  <2>1. PICK p \in TaskPcs : Goes(t, p) /\ (WorkerEnds(t) => p = "done")
    BY <1>5, GoesWhere
  <2>2. tasks'[t].at = tasks[t].at /\ tasks'[t].out = tasks[t].out /\ tasks'[t].pc = p
    BY <1>1, <2>1, GoesTo
  <2>3. CASE WorkerLoops(t)
    <3>1. tasks[t].pc = "loop" /\ p \in {"close", "gate"}
            /\ (p = "close" => stopped \/ (tasks[t].at = Count(t) /\ Group(t).end = "ok"))
      <4>1. tasks[t].pc = "loop" /\ Goes(t, IF stopped \/ (tasks[t].at = Count(t) /\ Group(t).end = "ok")
                                            THEN "close" ELSE "gate")
        BY <2>3 DEF WorkerLoops, Count
      <4>2. tasks'[t].pc = IF stopped \/ (tasks[t].at = Count(t) /\ Group(t).end = "ok")
                           THEN "close" ELSE "gate"
        BY <1>1, <4>1, GoesTo DEF TaskPcs
      <4>. QED BY <2>2, <4>1, <4>2
    <3>. QED BY <1>1, <1>2, <2>2, <3>1, DeliversOn DEF Ended
  <2>4. CASE WorkerAsks(t)
    <3>1. tasks[t].pc = "gate" /\ p \in {"parked", "close", "decode"} /\ (p = "close" => stopped)
      <4>1. tasks[t].pc = "gate"
              /\ Goes(t, IF Waits(t) THEN "parked" ELSE IF gateStopped THEN "close" ELSE "decode")
        BY <2>4 DEF WorkerAsks
      <4>2. tasks'[t].pc = IF Waits(t) THEN "parked" ELSE IF gateStopped THEN "close" ELSE "decode"
        BY <1>1, <4>1, GoesTo DEF TaskPcs
      <4>. QED BY <1>1, <2>2, <4>1, <4>2
    <3>. QED BY <1>1, <1>2, <2>2, <3>1, DeliversOn DEF Ended
  <2>5. CASE WorkerFails(t)
    <3>1. tasks[t].pc \in {"decode", "loop"} /\ tasks[t].at = Count(t) /\ Group(t).end # "ok"
      BY <2>5 DEF WorkerFails, AtFailure, Count
    <3>2. tasks'[t].pc = "fail"
      BY <1>1, <2>5, GoesTo DEF WorkerFails, TaskPcs
    <3>. QED BY <1>1, <1>2, <2>2, <3>1, <3>2, DeliversOn DEF Ended
  <2>6. CASE WorkerGivesUp(t)
    <3>1. tasks[t].pc \in {"send", "fail"} /\ stopped
      BY <2>6 DEF WorkerGivesUp
    <3>2. tasks'[t].pc = "close"
      BY <1>1, <2>6, GoesTo DEF WorkerGivesUp, TaskPcs
    <3>. QED BY <1>1, <1>2, <1>3, <2>2, <3>1, <3>2, DeliversOn DEF Ended
  <2>7. CASE WorkerEnds(t)
    <3>1. tasks[t].pc = "release" /\ p = "done"
      BY <2>1, <2>7 DEF WorkerEnds
    <3>. QED BY <1>1, <1>2, <2>2, <3>1, DeliversOn DEF Ended
  <2>. QED BY <1>5, <2>3, <2>4, <2>5, <2>6, <2>7
<1>. QED BY <1>4, <1>5

(* A worker that decodes goes one batch on, which it is to send if it has  *)
(* rows.                                                                   *)
LEMMA DecodeDelivers ==
  ASSUME FInv, TasksOrdered, WorkersTold, AllDeliver, NEW t \in DOMAIN tasks, WorkerDecodes(t)
  PROVE  Delivers(t)'
<1>1. Typed /\ TasksOfOpened /\ Delivers(t) /\ Told(t)
  BY DEF FInv, WorkersTold, AllDeliver
<1>2. Work(t) /\ Keeps /\ UNCHANGED <<files, given, stopped, err>>
  BY <1>1, WorkMoves, MovesKeeps DEF Work, next
<1>3. UNCHANGED <<Of(t), Count(t), Group(t)>> /\ \A i : Place(t, i)' = Place(t, i)
  BY <1>2, GroupStays
<1>4. tasks[t].at \in Nat /\ Count(t) \in Nat /\ Of(t) \subseteq 1..Count(t)
  BY <1>1, TaskShape
<1>5. /\ tasks[t].pc = "decode" /\ tasks[t].at + 1 <= Count(t)
      /\ tasks'[t].out = tasks[t].out /\ tasks'[t].at = tasks[t].at + 1
      /\ tasks'[t].pc \in {"send", "loop"}
  BY <1>1, DecodesTo DEF WorkerDecodes, Count
<1>6. tasks'[t].pc = "send" <=> tasks[t].at + 1 \in Of(t)
  <2>1. tasks[t].at + 1 \in Of(t) <=> Group(t).batches[tasks[t].at + 1] = "rows"
    <3>1. DOMAIN Group(t).batches = 1..Count(t)
      BY <1>1, TaskShape, GroupShape DEF Count, Group
    <3>. QED BY <1>4, <1>5, <3>1 DEF Of, RowBatches, Group
  <2>2. tasks[t] \in Task /\ tasks \in Seq(Task)
    BY <1>1, TaskTyped
  <2>3. IF Group(t).batches[tasks[t].at + 1] = "rows"
        THEN tasks' = [tasks EXCEPT ![t].pc = "send", ![t].at = tasks[t].at + 1, ![t].pending = @ + 1]
        ELSE tasks' = [tasks EXCEPT ![t].pc = "loop", ![t].at = tasks[t].at + 1]
    BY DEF WorkerDecodes
  <2>4. tasks'[t].pc = IF Group(t).batches[tasks[t].at + 1] = "rows" THEN "send" ELSE "loop"
    BY <2>2, <2>3 DEF Task
  <2>. QED BY <2>1, <2>4
<1>7. ~IsOut(t, None) /\ ~IsOut(t, None)'
  BY <1>1, <1>4, <1>5 DEF Delivers, IsOut, None
<1>8. \A i : (IsGiven(t, i)' <=> IsGiven(t, i)) /\ (IsOut(t, i)' <=> IsOut(t, i))
  BY <1>2, <1>3, <1>5 DEF IsGiven, IsOut
<1>9. \A i \in Nat \ {None} : IsOut(t, i) => i \in Of(t) /\ i <= tasks[t].at
  BY <1>1 DEF Delivers
<1>10. \A i \in Nat :
         IsGiven(t, i) => i <= tasks[t].at /\ \A j \in Nat \ {None} : IsOut(t, j) => i < j
  BY <1>1 DEF Delivers
<1>11. \A i \in Of(t) : i <= tasks[t].at => IsGiven(t, i) \/ IsOut(t, i)
  BY <1>1, <1>5 DEF Delivers, Dropped, Ended
<1>12. \A i \in Of(t)' :
         i <= tasks'[t].at => \/ IsGiven(t, i)' \/ IsOut(t, i)'
                              \/ i = tasks'[t].at /\ tasks'[t].pc = "send"
  BY <1>3, <1>4, <1>5, <1>6, <1>8, <1>11
<1>13. \A k, l \in DOMAIN tasks'[t].out :
         k < l => /\ tasks'[t].out[k] # None
                  /\ tasks'[t].out[l] = None \/ tasks'[t].out[k] < tasks'[t].out[l]
  BY <1>1, <1>5 DEF Delivers
<1>14. \A i \in Nat \ {None} :
         IsOut(t, i)' => i \in Of(t)' /\ i <= tasks'[t].at /\ (tasks'[t].pc = "send" => i < tasks'[t].at)
  BY <1>3, <1>4, <1>5, <1>8, <1>9
<1>15. \A i \in Nat :
         IsGiven(t, i)' => /\ i <= tasks'[t].at /\ (tasks'[t].pc = "send" => i < tasks'[t].at)
                           /\ \A j \in Nat \ {None} : IsOut(t, j)' => i < j
  BY <1>4, <1>5, <1>8, <1>10
<1>. QED BY <1>3, <1>5, <1>6, <1>7, <1>12, <1>13, <1>14, <1>15 DEF Delivers, Ended

(* A worker that sends puts one more behind what is in its channel.        *)
LEMMA SendDelivers ==
  ASSUME FInv, TasksOrdered, WorkersTold, AllDeliver, NEW t \in DOMAIN tasks, WorkerSends(t)
  PROVE  Delivers(t)'
<1>1. Typed /\ TasksOfOpened /\ Delivers(t) /\ Told(t)
  BY DEF FInv, WorkersTold, AllDeliver
<1>2. Work(t) /\ Keeps /\ UNCHANGED <<files, given, stopped, err>>
  BY <1>1, WorkMoves, MovesKeeps DEF Work, next
<1>3. UNCHANGED <<Of(t), Count(t), Group(t)>> /\ \A i : Place(t, i)' = Place(t, i)
  BY <1>2, GroupStays
<1>4. /\ tasks[t].at \in Nat /\ Count(t) \in Nat /\ Of(t) \subseteq 1..Count(t)
      /\ tasks[t].out \in Seq(Nat)
  BY <1>1, TaskShape, TaskTyped DEF Task
<1>5. PICK i \in Nat : /\ i = IF tasks[t].pc = "send" THEN tasks[t].at ELSE None
                       /\ tasks'[t].out = Append(tasks[t].out, i)
  BY <1>1, <1>4, SendsTo DEF None
<1>6. /\ tasks[t].pc \in {"send", "fail"} /\ tasks'[t].at = tasks[t].at
      /\ tasks'[t].pc = IF tasks[t].pc = "send" THEN "loop" ELSE "close"
  BY <1>1, SendsTo DEF WorkerSends
<1>. DEFINE q == tasks[t].out
            p == tasks'[t].out
<1>7. /\ Len(q) \in Nat /\ DOMAIN q = 1..Len(q) /\ DOMAIN p = 1..(Len(q) + 1) /\ p[Len(q) + 1] = i
      /\ \A k \in DOMAIN q : p[k] = q[k] /\ q[k] \in Nat \ {None}
  <2>1. \A k \in DOMAIN q : q[k] # None
    BY <1>1, <1>6 DEF Told
  <2>. QED BY <1>4, <1>5, <2>1
<1>8. /\ ~IsOut(t, None) /\ (IsOut(t, None)' <=> i = None)
      /\ \A j : IsGiven(t, j)' <=> IsGiven(t, j)
      /\ \A j : IsOut(t, j)' <=> IsOut(t, j) \/ j = i
  <2>1. \A j : IsGiven(t, j)' <=> IsGiven(t, j)
    BY <1>2, <1>3 DEF IsGiven
  <2>2. \A j : IsOut(t, j)' <=> IsOut(t, j) \/ j = i
    BY <1>7 DEF IsOut
  <2>3. ~IsOut(t, None)
    BY <1>7 DEF IsOut
  <2>4. IsOut(t, None)' <=> IsOut(t, None) \/ None = i
    BY <1>7 DEF IsOut, None
  <2>. QED BY <2>1, <2>2, <2>3, <2>4
<1>9. i # None => i \in Of(t) /\ i = tasks[t].at /\ tasks[t].pc = "send"
  BY <1>1, <1>5 DEF Delivers
<1>10. tasks[t].pc = "send" => i # None
  BY <1>1, <1>4, <1>5 DEF Delivers, None
<1>11. \A j \in Nat \ {None} :
         IsOut(t, j) => j \in Of(t) /\ j <= tasks[t].at /\ (tasks[t].pc = "send" => j < tasks[t].at)
  BY <1>1 DEF Delivers
<1>12. \A k, l \in DOMAIN p : k < l => p[k] # None /\ (p[l] = None \/ p[k] < p[l])
  <2>. SUFFICES ASSUME NEW k \in DOMAIN p, NEW l \in DOMAIN p, k < l
                PROVE  p[k] # None /\ (p[l] = None \/ p[k] < p[l])
    OBVIOUS
  <2>1. k \in DOMAIN q /\ p[k] = q[k] /\ q[k] \in Nat \ {None}
    BY <1>7
  <2>2. CASE l \in DOMAIN q
    BY <1>1, <1>7, <2>1, <2>2 DEF Delivers
  <2>3. CASE l = Len(q) + 1
    <3>1. IsOut(t, q[k])
      BY <2>1 DEF IsOut
    <3>2. i # None => q[k] < i
      BY <1>9, <1>11, <2>1, <3>1
    <3>. QED BY <1>7, <2>1, <2>3, <3>2
  <2>. QED BY <1>7, <2>2, <2>3
<1>13. \A j \in Nat \ {None} : IsOut(t, j)' => j \in Of(t)' /\ j <= tasks'[t].at
  BY <1>3, <1>4, <1>6, <1>8, <1>9, <1>11
<1>14. \A j \in Nat : IsGiven(t, j)' => /\ j <= tasks'[t].at
                                        /\ \A h \in Nat \ {None} : IsOut(t, h)' => j < h
  <2>1. \A j \in Nat :
          IsGiven(t, j) => /\ j <= tasks[t].at /\ (tasks[t].pc = "send" => j < tasks[t].at)
                           /\ \A h \in Nat \ {None} : IsOut(t, h) => j < h
    BY <1>1 DEF Delivers
  <2>. QED BY <1>6, <1>8, <1>9, <2>1
<1>15. \A j \in Of(t)' : j <= tasks'[t].at => IsGiven(t, j)' \/ IsOut(t, j)'
  <2>1. \A j \in Of(t) : j <= tasks[t].at =>
          IsGiven(t, j) \/ IsOut(t, j) \/ (j = tasks[t].at /\ tasks[t].pc = "send")
    BY <1>1, <1>6 DEF Delivers, Dropped, Ended
  <2>. QED BY <1>3, <1>5, <1>6, <1>8, <2>1
<1>16. tasks[t].pc = "fail" => tasks[t].at = Count(t) /\ Group(t).end # "ok" /\ i = None
  BY <1>1, <1>5 DEF Delivers
<1>17. tasks'[t].at <= Count(t)'
  BY <1>1, <1>3, <1>6 DEF Delivers
<1>. HIDE DEF p, q
<1>. QED BY <1>3, <1>6, <1>8, <1>10, <1>12, <1>13, <1>14, <1>15, <1>16, <1>17 DEF Delivers, Ended, p

(* No two row groups have a place in common.                               *)
LEMMA PlacesApart ==
  ASSUME Typed, TasksOrdered, NEW t \in DOMAIN tasks, NEW u \in DOMAIN tasks, NEW i, NEW j,
         Place(t, i) = Place(u, j)
  PROVE  t = u /\ i = j
<1>1. tasks[t].file = tasks[u].file /\ tasks[t].group = tasks[u].group /\ i = j
  BY DEF Place
<1>2. /\ tasks[t].file \in Nat /\ tasks[t].group \in Nat /\ t \in Nat
      /\ tasks[u].file \in Nat /\ tasks[u].group \in Nat /\ u \in Nat
  <2>1. tasks[t] \in Task /\ tasks[u] \in Task /\ tasks \in Seq(Task)
    BY TaskTyped
  <2>2. t \in Nat /\ u \in Nat
    BY DEF Typed
  <2>. QED BY <2>1, <2>2 DEF Task
<1>3. ~(u < t) /\ ~(t < u)
  BY <1>1, <1>2 DEF TasksOrdered, Ahead
<1>. QED BY <1>1, <1>2, <1>3

(* What a sequence is with one more behind.                                *)
LEMMA AppendIs ==
  ASSUME NEW S, NEW q \in Seq(S), NEW x \in S
  PROVE  /\ Len(q) \in Nat /\ DOMAIN q = 1..Len(q) /\ Append(q, x) \in Seq(S)
         /\ DOMAIN Append(q, x) = 1..(Len(q) + 1) /\ Append(q, x)[Len(q) + 1] = x
         /\ \A k \in DOMAIN q : Append(q, x)[k] = q[k] /\ k \in 1..(Len(q) + 1)
OBVIOUS

(* What the head of a channel and its rest are.                            *)
LEMMA TailIs ==
  ASSUME NEW q \in Seq(Nat), q # <<>>
  PROVE  /\ Head(q) = q[1] /\ Head(q) \in Nat /\ 1 \in DOMAIN q /\ Len(q) \in Nat
         /\ DOMAIN q = 1..Len(q) /\ DOMAIN Tail(q) = 1..(Len(q) - 1)
         /\ \A k \in DOMAIN Tail(q) : Tail(q)[k] = q[k + 1] /\ k + 1 \in DOMAIN q
OBVIOUS

(* What Next takes, by its row group's channel, and what that does.        *)
LEMMA ReceiveGives ==
  ASSUME FInv, TasksOrdered, GivenInOrder, Receive
  PROVE  LET i == Head(tasks[head].out) IN
         /\ head \in DOMAIN tasks /\ i \in Nat /\ tasks[head].out \in Seq(Nat)
         /\ tasks[head].out # <<>> /\ tasks'[head].out = Tail(tasks[head].out)
         /\ tasks'[head].at = tasks[head].at /\ tasks'[head].pc = tasks[head].pc
         /\ \A u \in DOMAIN tasks : u # head => tasks'[u] = tasks[u]
         /\ Keeps /\ UNCHANGED <<files, stopped, gateStopped, inflight>>
         /\ i = None => given' = given /\ err' /\ pc' = "out" /\ answer' = "err"
         /\ i # None => /\ given' = Append(given, Place(head, i))
                        /\ UNCHANGED <<err, head, answer>> /\ pc' = "taken"
         /\ \A u \in DOMAIN tasks, j \in Nat :
              IsGiven(u, j)' <=> IsGiven(u, j) \/ (i # None /\ u = head /\ j = i)
<1>1. Typed /\ head \in DOMAIN tasks /\ tasks[head].out # <<>>
  BY DEF FInv, HeadThere, Receive
<1>2. tasks[head] \in Task
  BY <1>1, TaskTyped
<1>3. tasks[head].out \in Seq(Nat)
  BY <1>2 DEF Task
<1>4. PICK i \in Nat : i = Head(tasks[head].out)
  BY <1>1, <1>3, TailIs
<1>5. Moves(head) /\ Keeps /\ tasks'[head] = [tasks[head] EXCEPT !.out = Tail(tasks[head].out)]
  BY <1>1, ReceiveMoves, MovesKeeps DEF FInv
<1>6. /\ tasks'[head].out = Tail(tasks[head].out)
      /\ tasks'[head].at = tasks[head].at /\ tasks'[head].pc = tasks[head].pc
      /\ \A u \in DOMAIN tasks : u # head => tasks'[u] = tasks[u]
  BY <1>2, <1>5 DEF Task, Moves
<1>7. /\ i = None => given' = given /\ err' /\ pc' = "out" /\ answer' = "err"
      /\ i # None => /\ given' = Append(given, Place(head, i))
                     /\ UNCHANGED <<err, head, answer>> /\ pc' = "taken"
      /\ UNCHANGED <<files, stopped, gateStopped, inflight>>
  BY <1>4 DEF Receive, NextReturns, Place, issuing, gate
<1>8. given \in Seq(Nat \X Nat \X Nat) /\ Place(head, i) \in Nat \X Nat \X Nat
  BY <1>2 DEF GivenInOrder, Place, Task
<1>9. \A u \in DOMAIN tasks, j \in Nat :
        IsGiven(u, j)' <=> IsGiven(u, j) \/ (i # None /\ u = head /\ j = i)
  <2>. SUFFICES ASSUME NEW u \in DOMAIN tasks, NEW j \in Nat
                PROVE  IsGiven(u, j)' <=> IsGiven(u, j) \/ (i # None /\ u = head /\ j = i)
    OBVIOUS
  <2>1. Place(u, j)' = Place(u, j)
    BY <1>5 DEF Place, Keeps
  <2>2. CASE i = None
    BY <1>7, <2>1, <2>2 DEF IsGiven
  <2>3. CASE i # None
    <3>1. IsGiven(u, j)' <=> IsGiven(u, j) \/ Place(head, i) = Place(u, j)
      <4>. DEFINE x == Place(head, i)
                  y == Place(u, j)
      <4>1. given' = Append(given, x)
        BY <1>7, <2>3
      <4>2. IsGiven(u, j)' <=> \E k \in DOMAIN given' : given'[k] = y
        BY <2>1 DEF IsGiven
      <4>3. IsGiven(u, j) <=> \E k \in DOMAIN given : given[k] = y
        BY DEF IsGiven
      <4>4. PICK T : given \in Seq(T) /\ x \in T
        BY <1>8
      <4>. HIDE DEF x, y
      <4>5. /\ Len(given) \in Nat /\ DOMAIN given = 1..Len(given)
            /\ DOMAIN given' = 1..(Len(given) + 1) /\ given'[Len(given) + 1] = x
            /\ \A k \in DOMAIN given : given'[k] = given[k]
        BY <4>1, <4>4, AppendIs
      <4>6. (\E k \in DOMAIN given' : given'[k] = y) <=> (\E k \in DOMAIN given : given[k] = y) \/ x = y
        BY <4>5
      <4>. QED BY <4>2, <4>3, <4>6 DEF x, y
    <3>2. Place(head, i) = Place(u, j) <=> u = head /\ j = i
      BY <1>1, PlacesApart
    <3>. QED BY <2>3, <3>1, <3>2
  <2>. QED BY <2>2, <2>3
<1>. QED BY <1>1, <1>3, <1>4, <1>5, <1>6, <1>7, <1>9

(* A row group Next does not take of delivers as it did.                   *)
LEMMA OthersDeliver ==
  ASSUME NEW t \in DOMAIN tasks, Keeps, UNCHANGED files, Delivers(t), tasks'[t] = tasks[t],
         Of(t) \subseteq Nat,
         stopped => stopped', err => err', \A j \in Nat : IsGiven(t, j)' <=> IsGiven(t, j)
  PROVE  Delivers(t)'
<1>1. UNCHANGED <<Of(t), Count(t), Group(t)>>
  BY GroupStays
<1>2. \A i : IsOut(t, i)' <=> IsOut(t, i)
  BY DEF IsOut
<1>3. IsOut(t, None)' <=> IsOut(t, None)
  BY DEF IsOut, None
<1>4. \A i : Dropped(t, i) => Dropped(t, i)'
  BY <1>3 DEF Dropped, Ended
<1>. QED BY <1>1, <1>2, <1>3, <1>4 DEF Delivers, Ended

(* What Next has taken of a row group is before what it has not.           *)
LEMMA ReceiveDelivers ==
  ASSUME FInv, TasksOrdered, WorkersTold, AllDeliver, GivenInOrder, Receive,
         NEW t \in DOMAIN tasks, t = head
  PROVE  Delivers(t)'
<1>1. Typed /\ TasksOfOpened /\ Delivers(t) /\ Told(t)
  BY DEF FInv, WorkersTold, AllDeliver
<1>2. PICK i \in Nat : i = Head(tasks[t].out)
  BY ReceiveGives
<1>. DEFINE q == tasks[t].out
            p == tasks'[t].out
<1>3. /\ q \in Seq(Nat) /\ q # <<>> /\ p = Tail(q)
      /\ tasks'[t].at = tasks[t].at /\ tasks'[t].pc = tasks[t].pc
      /\ Keeps /\ UNCHANGED <<files, stopped>>
      /\ i = None => err'
      /\ \A j \in Nat : IsGiven(t, j)' <=> IsGiven(t, j) \/ (i # None /\ j = i)
  BY <1>2, ReceiveGives
<1>4. UNCHANGED <<Of(t), Count(t), Group(t)>>
  BY <1>3, GroupStays
<1>5. tasks[t].at \in Nat /\ Count(t) \in Nat /\ Of(t) \subseteq 1..Count(t)
  BY <1>1, TaskShape
<1>6. /\ i = q[1] /\ 1 \in DOMAIN q /\ Len(q) \in Nat /\ DOMAIN q = 1..Len(q)
      /\ DOMAIN p = 1..(Len(q) - 1)
      /\ \A k \in DOMAIN p : p[k] = q[k + 1] /\ k + 1 \in DOMAIN q
  BY <1>2, <1>3, TailIs
<1>7. \A k, l \in DOMAIN q : k < l => q[k] # None /\ (q[l] = None \/ q[k] < q[l])
  BY <1>1 DEF Delivers
<1>8. \A j : IsOut(t, j)' <=> \E k \in DOMAIN p : p[k] = j
  BY DEF IsOut
<1>9. \A j : IsOut(t, j) <=> \E k \in DOMAIN q : q[k] = j
  BY DEF IsOut
<1>10. \A j : /\ IsOut(t, j) => IsOut(t, j)' \/ j = i
              /\ IsOut(t, j)' => IsOut(t, j) /\ i # None /\ (j # None => i < j)
  <2>1. \A j : IsOut(t, j) => IsOut(t, j)' \/ j = i
    <3>. SUFFICES ASSUME NEW j, NEW k \in DOMAIN q, q[k] = j, k # 1
                  PROVE  \E l \in DOMAIN p : p[l] = j
      BY <1>6, <1>8, <1>9
    <3>1. k - 1 \in DOMAIN p
      BY <1>6
    <3>. QED BY <1>6, <3>1
  <2>2. \A j : IsOut(t, j)' => IsOut(t, j) /\ i # None /\ (j # None => i < j)
    <3>. SUFFICES ASSUME NEW j, NEW k \in DOMAIN p, p[k] = j
                  PROVE  IsOut(t, j) /\ i # None /\ (j # None => i < j)
      BY <1>8
    <3>1. k + 1 \in DOMAIN q /\ q[k + 1] = j /\ 1 < k + 1
      BY <1>6
    <3>. QED BY <1>6, <1>7, <1>9, <3>1
  <2>. QED BY <2>1, <2>2
<1>11. IsOut(t, None)' => IsOut(t, None) /\ i # None
  BY <1>8, <1>9, <1>10 DEF IsOut, None
<1>12. i # None => i \in Of(t) /\ i <= tasks[t].at /\ (tasks[t].pc = "send" => i < tasks[t].at)
  BY <1>1, <1>6, <1>9 DEF Delivers
<1>13. i = None => IsOut(t, None) /\ tasks[t].pc # "send"
  BY <1>1, <1>6 DEF IsOut, Told
<1>14. \A k, l \in DOMAIN p : k < l => p[k] # None /\ (p[l] = None \/ p[k] < p[l])
  <2>. SUFFICES ASSUME NEW k \in DOMAIN p, NEW l \in DOMAIN p, k < l
                PROVE  p[k] # None /\ (p[l] = None \/ p[k] < p[l])
    OBVIOUS
  <2>1. k + 1 \in DOMAIN q /\ l + 1 \in DOMAIN q /\ k + 1 < l + 1
    BY <1>6
  <2>. QED BY <1>6, <1>7, <2>1
<1>15. \A j \in Nat \ {None} :
         IsOut(t, j)' => j \in Of(t)' /\ j <= tasks'[t].at /\ (tasks'[t].pc = "send" => j < tasks'[t].at)
  BY <1>1, <1>3, <1>4, <1>10 DEF Delivers
<1>16. \A j \in Nat :
         IsGiven(t, j)' => /\ j <= tasks'[t].at /\ (tasks'[t].pc = "send" => j < tasks'[t].at)
                           /\ \A h \in Nat \ {None} : IsOut(t, h)' => j < h
  <2>1. \A j \in Nat :
          IsGiven(t, j) => /\ j <= tasks[t].at /\ (tasks[t].pc = "send" => j < tasks[t].at)
                           /\ \A h \in Nat \ {None} : IsOut(t, h) => j < h
    BY <1>1 DEF Delivers
  <2>. QED BY <1>3, <1>10, <1>12, <2>1
<1>17. \A j \in Of(t)' :
         j <= tasks'[t].at => \/ IsGiven(t, j)' \/ IsOut(t, j)'
                              \/ j = tasks'[t].at /\ tasks'[t].pc = "send"
                              \/ Dropped(t, j)'
  <2>. SUFFICES ASSUME NEW j \in Of(t), j <= tasks[t].at
                PROVE  \/ IsGiven(t, j)' \/ IsOut(t, j)'
                       \/ j = tasks[t].at /\ tasks[t].pc = "send"
                       \/ Dropped(t, j)'
    BY <1>3, <1>4
  <2>1. j \in Nat /\ j # None
    BY <1>5 DEF None
  <2>2. \/ IsGiven(t, j) \/ IsOut(t, j)
        \/ j = tasks[t].at /\ tasks[t].pc = "send"
        \/ Dropped(t, j)
    BY <1>1 DEF Delivers
  <2>3. CASE Dropped(t, j)
    BY <1>3, <1>11, <2>3 DEF Dropped, Ended
  <2>. QED BY <1>3, <1>10, <2>1, <2>2, <2>3
<1>18. tasks[t].pc = "fail" \/ IsOut(t, None) => tasks[t].at = Count(t) /\ Group(t).end # "ok"
  BY <1>1 DEF Delivers
<1>19. Ended(t)' => \/ stopped' \/ err'
                    \/ tasks'[t].at = Count(t)' /\ (Group(t)'.end = "ok" \/ IsOut(t, None)')
  <2>1. IsOut(t, None) => IsOut(t, None)' \/ i = None
    BY <1>6, <1>8, <1>9, <1>10 DEF IsOut, None
  <2>2. err => err'
    BY <1>2, ReceiveGives
  <2>. QED BY <1>1, <1>3, <1>4, <2>1, <2>2 DEF Delivers, Ended
<1>20. tasks'[t].at <= Count(t)' /\ (tasks'[t].pc = "send" => tasks'[t].at \in Of(t)')
  BY <1>1, <1>3, <1>4 DEF Delivers
<1>. HIDE DEF p, q
<1>. QED BY <1>3, <1>4, <1>11, <1>14, <1>15, <1>16, <1>17, <1>18, <1>19, <1>20 DEF Delivers, p

(* A row group issued has nothing to deliver yet.                          *)
LEMMA IssueDelivers ==
  ASSUME FInv, TasksOrdered, IssuedSoFar, AllDeliver, GivenInOrder, IssueGroup, Kept,
         NEW t \in DOMAIN tasks', t \notin DOMAIN tasks
  PROVE  Delivers(t)' /\ Untouched(t)'
<1>1. /\ Typed /\ UNCHANGED <<files, given, stopped, err>>
      /\ t = Len(tasks) + 1 /\ DOMAIN tasks' = DOMAIN tasks \union {t}
      /\ tasks'[t] = NewTask /\ \A u \in DOMAIN tasks : tasks'[u] = tasks[u]
  <2>1. Typed /\ UNCHANGED <<files, given, stopped, err>>
    BY DEF FInv, IssueGroup, next
  <2>. QED BY <2>1, IssueAdds
<1>2. /\ tasks'[t].at = 0 /\ tasks'[t].pc = "loop" /\ tasks'[t].out = <<>>
  BY <1>1 DEF NewTask
<1>3. TasksOrdered'
  BY IssueOrders
<1>4. Untouched(t)'
  <2>. SUFFICES ASSUME NEW i \in Nat, NEW k \in DOMAIN given, given[k] = Place(t, i)'
                PROVE  FALSE
    BY <1>1 DEF Untouched, IsGiven
  <2>1. PICK u \in DOMAIN tasks : \E j \in Of(u) : given[k] = Place(u, j)
    BY DEF GivenInOrder
  <2>2. tasks'[u].file = tasks'[t].file /\ tasks'[u].group = tasks'[t].group
    BY <1>1, <2>1 DEF Place
  <2>3. u < t /\ u \in DOMAIN tasks' /\ u \in Nat
    BY <1>1 DEF Typed
  <2>4. Ahead(tasks[u].file, tasks[u].group, t)'
    BY <1>3, <2>3 DEF TasksOrdered
  <2>5. tasks'[t].file \in Nat /\ tasks'[t].group \in Nat
    BY <1>1 DEF NewTask, Typed
  <2>. QED BY <2>2, <2>4, <2>5 DEF Ahead
<1>5. \A j : ~IsOut(t, j)'
  BY <1>2 DEF IsOut
<1>6. ~IsOut(t, None)'
  BY <1>2 DEF IsOut
<1>7. Count(t)' \in Nat /\ Of(t)' \subseteq 1..Count(t)'
  <2>1. PICK f, g : f = cur /\ g = rgIndex + 1
    OBVIOUS
  <2>2. f \in DOMAIN files
    BY <1>1, <2>1, GroupTyped
  <2>3. g \in DOMAIN files[f].groups
    BY <1>1, <2>1, <2>2, GroupsSeq DEF IssueGroup, Typed
  <2>4. tasks'[t].file = f /\ tasks'[t].group = g
    BY <1>1, <2>1 DEF NewTask
  <2>5. Count(t)' = Len(files[f].groups[g].batches) /\ Of(t)' = RowBatches(f, g)
    BY <1>1, <2>4 DEF Count, Of, Group, RowBatches
  <2>. QED BY <1>1, <2>2, <2>3, <2>5, GroupShape
<1>. QED BY <1>2, <1>4, <1>5, <1>6, <1>7 DEF Delivers, Ended, Untouched

(* Every step keeps what each row group is to deliver.                     *)
LEMMA DeliverStep ==
  ASSUME FInv, TasksOrdered, IssuedSoFar, WorkersTold, AllDeliver, GivenInOrder, [Next]_vars
  PROVE  AllDeliver'
<1>1. /\ Typed /\ TasksOfOpened /\ HeadThere /\ (gateStopped => stopped)
      /\ UNCHANGED files /\ (stopped => stopped') /\ (err => err')
      /\ ~IssueGroup => Keeps
  BY OthersKeep DEF FInv, AllDeliver
<1>2. gateStopped' => stopped'
  <2>1. ASSUME NEW t \in DOMAIN tasks, Work(t) PROVE UNCHANGED gateStopped
    BY <1>1, <2>1, WorkMoves
  <2>2. CASE CloseGate
    BY <2>2 DEF CloseGate, FInv, ClosedDown
  <2>3. CASE Cancel \/ NextStarts \/ HeadRefuses \/ OpenFile \/ IssueGroup \/ LeaveFile \/ HeadAnswers
               \/ Receive \/ Taken \/ ReceiveClosed \/ WaitEnds \/ CloseStops \/ CloseEnds \/ UNCHANGED vars
    BY <1>1, <2>3 DEF Cancel, NextStarts, HeadRefuses, OpenFile, IssueGroup, LeaveFile, HeadAnswers,
                Receive, Taken, ReceiveClosed, WaitEnds, CloseStops, CloseEnds, vars, gate
  <2>. QED BY <1>1, <2>1, <2>2, <2>3 DEF Next, Reads, Closes
<1>3. \A t \in DOMAIN tasks : Delivers(t) /\ Of(t) \subseteq Nat
  BY <1>1, TaskShape DEF AllDeliver
<1>4. ASSUME NEW t \in DOMAIN tasks, Keeps, tasks'[t] = tasks[t], UNCHANGED given PROVE Delivers(t)'
  <2>1. \A j \in Nat : IsGiven(t, j)' <=> IsGiven(t, j)
    BY <1>4 DEF IsGiven, Place
  <2>. QED BY <1>1, <1>3, <1>4, <2>1, OthersDeliver
<1>5. CASE UNCHANGED <<tasks, given>> /\ ~IssueGroup
  BY <1>1, <1>2, <1>4, <1>5 DEF AllDeliver
<1>6. CASE IssueGroup
  <2>1. UNCHANGED given
    BY <1>6 DEF IssueGroup, next
  <2>2. CASE Kept
    <3>1. /\ DOMAIN tasks' = DOMAIN tasks \union {Len(tasks) + 1}
          /\ \A u \in DOMAIN tasks : tasks'[u] = tasks[u]
      BY <1>1, <1>6, <2>2, IssueAdds
    <3>2. \A t \in DOMAIN tasks : Delivers(t)'
      <4>. SUFFICES ASSUME NEW t \in DOMAIN tasks PROVE Delivers(t)'
        OBVIOUS
      <4>0. tasks'[t] = tasks[t]
        BY <3>1
      <4>1. UNCHANGED <<Of(t), Count(t), Group(t)>> /\ \A i : Place(t, i)' = Place(t, i)
        BY <1>1, <4>0 DEF Of, Count, Group, Place, RowBatches
      <4>2. \A i : (IsOut(t, i)' <=> IsOut(t, i)) /\ (IsGiven(t, i)' <=> IsGiven(t, i))
        BY <2>1, <4>0, <4>1 DEF IsOut, IsGiven
      <4>3. IsOut(t, None)' <=> IsOut(t, None)
        BY <4>0 DEF IsOut, None
      <4>4. \A i : Dropped(t, i) => Dropped(t, i)'
        BY <1>1, <4>0, <4>3 DEF Dropped, Ended
      <4>. QED BY <1>1, <1>3, <4>0, <4>1, <4>2, <4>3, <4>4 DEF Delivers, Ended
    <3>3. \A t \in DOMAIN tasks' : t \notin DOMAIN tasks => Delivers(t)'
      BY <1>6, <2>2, IssueDelivers
    <3>. QED BY <1>2, <3>2, <3>3 DEF AllDeliver
  <2>3. CASE ~Kept
    <3>1. UNCHANGED tasks /\ Keeps
      BY <1>1, <1>6, <2>3, IssueSkips, KeepsSame
    <3>. QED BY <1>2, <1>4, <2>1, <3>1 DEF AllDeliver
  <2>. QED BY <2>2, <2>3
<1>7. CASE Receive
  <2>1. \A t \in DOMAIN tasks : Delivers(t)'
    <3>. SUFFICES ASSUME NEW t \in DOMAIN tasks PROVE Delivers(t)'
      OBVIOUS
    <3>1. CASE t = head
      BY <1>7, <3>1, ReceiveDelivers
    <3>2. CASE t # head
      <4>1. tasks'[t] = tasks[t] /\ Keeps /\ \A j \in Nat : IsGiven(t, j)' <=> IsGiven(t, j)
        BY <1>7, <3>2, ReceiveGives
      <4>. QED BY <1>1, <1>3, <4>1, OthersDeliver
    <3>. QED BY <3>1, <3>2
  <2>. QED BY <1>2, <1>7, <2>1, ReceiveGives DEF AllDeliver, Keeps
<1>8. CASE Taken \/ CloseGate
  <2>1. /\ Keeps /\ UNCHANGED given
        /\ \A u \in DOMAIN tasks :
             /\ tasks'[u].out = tasks[u].out /\ tasks'[u].at = tasks[u].at
             /\ tasks'[u].pc = IF tasks[u].pc = "parked" THEN "gate" ELSE tasks[u].pc
    BY <1>1, <1>8, TakenKeeps, GateKeeps DEF Taken, CloseGate, next
  <2>2. \A t \in DOMAIN tasks : Delivers(t)'
    <3>. SUFFICES ASSUME NEW t \in DOMAIN tasks PROVE Delivers(t)'
      OBVIOUS
    <3>. QED BY <1>1, <1>3, <2>1, DeliversOn DEF Ended
  <2>. QED BY <1>2, <2>1, <2>2 DEF AllDeliver, Keeps
<1>9. ASSUME NEW t \in DOMAIN tasks, Work(t) PROVE AllDeliver'
  <2>1. Moves(t) /\ Keeps /\ UNCHANGED given
    BY <1>1, <1>9, WorkMoves, MovesKeeps DEF next
  <2>2. Delivers(t)'
    BY <1>9, MoveDelivers, DecodeDelivers, SendDelivers DEF Work
  <2>3. \A u \in DOMAIN tasks : u # t => Delivers(u)'
    BY <1>4, <2>1 DEF Moves
  <2>. QED BY <1>2, <2>1, <2>2, <2>3 DEF AllDeliver, Keeps
<1>10. CASE Cancel \/ NextStarts \/ HeadRefuses \/ OpenFile \/ LeaveFile \/ HeadAnswers
              \/ ReceiveClosed \/ WaitEnds \/ CloseStops \/ CloseEnds \/ UNCHANGED vars
  <2>1. UNCHANGED <<tasks, given>>
    BY <1>10 DEF Cancel, NextStarts, HeadRefuses, OpenFile, LeaveFile, HeadAnswers, NextReturns,
                 ReceiveClosed, WaitEnds, CloseStops, CloseEnds, vars, next
  <2>. QED BY <1>5, <1>6, <2>1
<1>. QED BY <1>6, <1>7, <1>8, <1>9, <1>10 DEF Next, Reads, Closes

-----------------------------------------------------------------------------
(* Next's turn.                                                            *)

(* What is given of a row group stays, where nothing more is.              *)
LEMMA FullStays ==
  ASSUME NEW t, tasks'[t].file = tasks[t].file, tasks'[t].group = tasks[t].group,
         UNCHANGED files, \A j \in Nat : IsGiven(t, j)' <=> IsGiven(t, j), Of(t) \subseteq Nat
  PROVE  (Full(t)' <=> Full(t)) /\ (Untouched(t)' <=> Untouched(t))
<1>1. UNCHANGED <<Of(t), Group(t)>>
  BY DEF Of, Group, RowBatches
<1>. QED BY <1>1 DEF Full, Untouched

(* So do those Next has done with, and those behind.                       *)
LEMMA TakesStays ==
  ASSUME FInv, TasksOrdered, Keeps, UNCHANGED <<files, given>>
  PROVE  /\ \A t \in DOMAIN tasks : (Full(t)' <=> Full(t)) /\ (Untouched(t)' <=> Untouched(t))
         /\ \A h : TakesAt(h) => TakesAt(h)'
<1>1. \A t \in DOMAIN tasks : (Full(t)' <=> Full(t)) /\ (Untouched(t)' <=> Untouched(t))
  <2>. SUFFICES ASSUME NEW t \in DOMAIN tasks
                PROVE  (Full(t)' <=> Full(t)) /\ (Untouched(t)' <=> Untouched(t))
    OBVIOUS
  <2>1. tasks'[t].file = tasks[t].file /\ tasks'[t].group = tasks[t].group
    BY DEF Keeps
  <2>2. \A j \in Nat : IsGiven(t, j)' <=> IsGiven(t, j)
    BY <2>1 DEF IsGiven, Place
  <2>3. Of(t) \subseteq Nat
    BY TaskShape DEF FInv
  <2>. QED BY <2>1, <2>2, <2>3, FullStays
<1>2. DOMAIN tasks' = DOMAIN tasks
  BY DEF Keeps
<1>. QED BY <1>1, <1>2 DEF TakesAt

(* Next's turn stays where it is while the queue does.                     *)
LEMMA TurnStays ==
  ASSUME Typed, InTurn, Keeps, UNCHANGED inflight, ~stopped' => ~stopped,
         pc' \in {"wait", "taken"} => pc \in {"wait", "taken"} /\ head' = head,
         \A h : TakesAt(h) /\ (pc \in {"wait", "taken"} => h = head) => TakesAt(h)'
  PROVE  InTurn'
<1>1. Len(tasks') = Len(tasks)
  <2>1. tasks \in Seq(Task) /\ tasks' \in Seq(Task) /\ DOMAIN tasks' = DOMAIN tasks
    BY DEF Typed, Keeps
  <2>2. Len(tasks) \in Nat /\ Len(tasks') \in Nat /\ 1..Len(tasks) = 1..Len(tasks')
    BY <2>1
  <2>. QED BY <2>2
<1>2. PICK h : h = Oldest
  OBVIOUS
<1>3. Oldest' = h
  BY <1>1, <1>2 DEF Oldest
<1>4. ~stopped' => /\ \A k \in DOMAIN inflight' : inflight'[k] = Oldest' + k - 1
                   /\ TakesAt(h)'
                   /\ pc' \in {"wait", "taken"} => head' = Oldest'
  BY <1>2, <1>3 DEF InTurn
<1>5. PICK g : g = head
  OBVIOUS
<1>6. pc' \in {"wait", "taken"} => head' = g /\ TakesAt(g)'
  BY <1>5 DEF InTurn
<1>. QED BY <1>3, <1>4, <1>6 DEF InTurn, TakesAt

(* Every step keeps Next's turn.                                           *)
LEMMA TurnStep ==
  ASSUME FInv, TasksOrdered, IssuedSoFar, WorkersTold, AllDeliver, GivenInOrder, Answered,
         InTurn, [Next]_vars
  PROVE  InTurn'
<1>1. /\ Typed /\ TasksOfOpened /\ HeadThere /\ tasks \in Seq(Task) /\ Len(tasks) \in Nat
      /\ DOMAIN tasks = 1..Len(tasks) /\ inflight \in Seq(Nat) /\ Len(inflight) \in Nat
      /\ DOMAIN inflight = 1..Len(inflight)
      /\ UNCHANGED files /\ (stopped => stopped')
  <2>1. Typed /\ TasksOfOpened /\ HeadThere
    BY DEF FInv
  <2>2. tasks \in Seq(Task) /\ inflight \in Seq(Nat)
    BY <2>1 DEF Typed
  <2>. QED BY <2>1, <2>2, OthersKeep
<1>2. ASSUME Keeps, UNCHANGED <<given, inflight>>,
             pc' \in {"wait", "taken"} => pc \in {"wait", "taken"} /\ head' = head
      PROVE  InTurn'
  <2>1. \A h : TakesAt(h) => TakesAt(h)'
    BY <1>1, <1>2, TakesStays
  <2>. QED BY <1>1, <1>2, <2>1, TurnStays
<1>a. Oldest \in Int
  BY <1>1 DEF Oldest
<1>3. CASE Taken \/ CloseGate
  BY <1>1, <1>2, <1>3, TakenKeeps, GateKeeps DEF Taken, CloseGate, issuing, next, NextReturns
<1>4. CASE Cancel \/ NextStarts \/ HeadRefuses \/ OpenFile \/ LeaveFile \/ WaitEnds \/ CloseStops
             \/ UNCHANGED vars
  <2>1. UNCHANGED <<tasks, given, inflight>>
    BY <1>4 DEF Cancel, NextStarts, HeadRefuses, OpenFile, LeaveFile, WaitEnds, CloseStops,
                vars, issuing, next, NextReturns
  <2>2. pc' \in {"wait", "taken"} => pc \in {"wait", "taken"} /\ head' = head
    BY <1>4 DEF Cancel, NextStarts, HeadRefuses, OpenFile, LeaveFile, WaitEnds, CloseStops,
                vars, issuing, next, NextReturns
  <2>. QED BY <1>1, <1>2, <2>1, <2>2, KeepsSame
<1>5. CASE IssueGroup
  <2>1. UNCHANGED <<given, stopped>> /\ pc' = "head" /\ ~stopped
    BY <1>5 DEF IssueGroup, Issues, next
  <2>2. CASE Kept
    <3>. DEFINE n == Len(tasks) + 1
    <3>1. /\ DOMAIN tasks' = DOMAIN tasks \union {n} /\ n \notin DOMAIN tasks
          /\ tasks' \in Seq(Task) /\ inflight' = Append(inflight, n)
          /\ \A u \in DOMAIN tasks : tasks'[u] = tasks[u]
      BY <1>1, <1>5, <2>2, IssueAdds
    <3>2. Len(tasks') = Len(tasks) + 1
      <4>0. tasks' \in Seq(Task)
        BY <3>1
      <4>1. Len(tasks') \in Nat /\ DOMAIN tasks' = 1..Len(tasks')
        BY <4>0
      <4>2. n \in 1..Len(tasks') /\ Len(tasks') \in 1..n
        BY <1>1, <3>1, <4>1
      <4>3. Len(tasks) \in Nat /\ Len(tasks') \in Nat
        BY <1>1, <4>1
      <4>. QED BY <4>2, <4>3
    <3>3. /\ Len(inflight') = Len(inflight) + 1 /\ DOMAIN inflight' = 1..(Len(inflight) + 1)
          /\ inflight'[Len(inflight) + 1] = n
          /\ \A k \in DOMAIN inflight : inflight'[k] = inflight[k]
      BY <1>1, <3>1
    <3>4. Oldest' = Oldest
      BY <1>1, <3>2, <3>3 DEF Oldest
    <3>5. \A k \in DOMAIN inflight' : inflight'[k] = Oldest' + k - 1
      <4>1. \A k \in DOMAIN inflight : inflight[k] = Oldest + k - 1
        BY <2>1 DEF InTurn
      <4>2. n = Oldest + (Len(inflight) + 1) - 1
        BY <1>1 DEF Oldest
      <4>. QED BY <1>1, <3>3, <3>4, <4>1, <4>2
    <3>6. \A t \in DOMAIN tasks : (Full(t)' <=> Full(t)) /\ (Untouched(t)' <=> Untouched(t))
      <4>. SUFFICES ASSUME NEW t \in DOMAIN tasks
                    PROVE  (Full(t)' <=> Full(t)) /\ (Untouched(t)' <=> Untouched(t))
        OBVIOUS
      <4>1. \A j \in Nat : IsGiven(t, j)' <=> IsGiven(t, j)
        BY <2>1, <3>1 DEF IsGiven, Place
      <4>2. Of(t) \subseteq Nat
        BY <1>1, TaskShape
      <4>. QED BY <1>1, <3>1, <4>1, <4>2, FullStays
    <3>7. \A t \in DOMAIN tasks' : t \notin DOMAIN tasks => Untouched(t)'
      BY <1>5, <2>2, IssueDelivers
    <3>8. \A t \in DOMAIN tasks : (t < Oldest => Full(t)) /\ (t > Oldest => Untouched(t))
      BY <2>1 DEF InTurn, TakesAt
    <3>9. Oldest <= n
      BY <1>1 DEF Oldest
    <3>10. \A t \in DOMAIN tasks' : (t < Oldest' => Full(t)') /\ (t > Oldest' => Untouched(t)')
      BY <1>1, <1>a, <3>1, <3>4, <3>6, <3>7, <3>8, <3>9
    <3>11. TakesAt(Oldest)'
      BY <3>10 DEF TakesAt
    <3>. QED BY <2>1, <3>5, <3>11 DEF InTurn
  <2>3. CASE ~Kept
    <3>1. UNCHANGED <<tasks, inflight>>
      BY <1>1, <1>5, <2>3, IssueSkips
    <3>. QED BY <1>1, <1>2, <2>1, <3>1, KeepsSame
  <2>. QED BY <2>2, <2>3
<1>6. CASE HeadAnswers
  <2>1. /\ UNCHANGED <<tasks, given, inflight, stopped>> /\ ~stopped /\ pc = "head"
        /\ pc' \in {"wait", "taken"} => inflight # <<>> /\ head' = inflight[1]
    BY <1>6 DEF HeadAnswers, NextReturns, issuing
  <2>2. Keeps
    BY <1>1, <2>1, KeepsSame
  <2>3. CASE pc' \notin {"wait", "taken"}
    BY <1>2, <2>1, <2>2, <2>3
  <2>4. CASE pc' \in {"wait", "taken"}
    <3>1. head' = Oldest /\ Oldest' = Oldest
      <4>1. 1 \in DOMAIN inflight
        BY <1>1, <2>1, <2>4
      <4>2. inflight[1] = Oldest + 1 - 1
        BY <2>1, <4>1 DEF InTurn
      <4>. QED BY <1>1, <2>1, <2>4, <4>2 DEF Oldest
    <3>2. PICK h : h = Oldest
      OBVIOUS
    <3>3. TakesAt(h)'
      BY <1>1, <2>1, <2>2, <3>2, TakesStays DEF InTurn
    <3>4. TakesAt(Oldest)' /\ TakesAt(head)'
      BY <3>1, <3>2, <3>3 DEF TakesAt
    <3>. QED BY <2>1, <3>1, <3>4 DEF InTurn
  <2>. QED BY <2>3, <2>4
<1>7. CASE ReceiveClosed
  <2>1. /\ UNCHANGED <<tasks, given, stopped, err>> /\ pc = "wait" /\ pc' = "head"
        /\ tasks[head].out = <<>> /\ tasks[head].closed /\ head \in DOMAIN tasks
        /\ inflight' = IF inflight # <<>> /\ inflight[1] = head THEN Tail(inflight) ELSE inflight
    BY <1>1, <1>7 DEF ReceiveClosed, HeadThere
  <2>2. CASE stopped
    BY <2>1, <2>2 DEF InTurn
  <2>3. CASE ~stopped
    <3>1. head = Oldest /\ TakesAt(Oldest) /\ \A k \in DOMAIN inflight : inflight[k] = Oldest + k - 1
      BY <2>1, <2>3 DEF InTurn
    <3>2. inflight # <<>>
      <4>1. Len(inflight) # 0
        BY <1>1, <2>1, <3>1 DEF Oldest
      <4>. QED BY <1>1, <4>1
    <3>3. 1 \in DOMAIN inflight
      BY <1>1, <3>2
    <3>4. inflight' = Tail(inflight)
      <4>1. inflight[1] = Oldest + 1 - 1
        BY <3>1, <3>3
      <4>2. inflight[1] = head
        BY <1>a, <3>1, <4>1
      <4>. QED BY <2>1, <3>2, <4>2
    <3>5. /\ DOMAIN inflight' = 1..(Len(inflight) - 1)
          /\ \A k \in DOMAIN inflight' : inflight'[k] = inflight[k + 1] /\ k + 1 \in DOMAIN inflight
      BY <1>1, <3>2, <3>4, TailIs
    <3>6. Oldest' = Oldest + 1
      <4>1. Len(inflight') = Len(inflight) - 1
        BY <1>1, <3>2, <3>4
      <4>2. Len(tasks') = Len(tasks) /\ Len(tasks) \in Nat /\ Len(inflight) \in Nat
        BY <1>1, <2>1
      <4>. QED BY <4>1, <4>2 DEF Oldest
    <3>7. \A k \in DOMAIN inflight' : inflight'[k] = Oldest' + k - 1
      BY <1>1, <1>a, <3>1, <3>5, <3>6
    <3>8. Full(head)
      <4>1. Delivers(head) /\ Told(head) /\ tasks[head].at \in Nat /\ Count(head) \in Nat
              /\ Of(head) \subseteq 1..Count(head)
        BY <1>1, <2>1, TaskShape DEF AllDeliver, WorkersTold
      <4>2. ~err
        BY <2>1 DEF Answered
      <4>3. Ended(head) /\ \A j : ~IsOut(head, j)
        BY <2>1, <4>1 DEF Told, Ended, IsOut
      <4>4. ~IsOut(head, None)
        BY <2>1 DEF IsOut
      <4>5. tasks[head].at = Count(head) /\ Group(head).end = "ok"
        BY <2>3, <4>1, <4>2, <4>3, <4>4 DEF Delivers
      <4>6. \A i \in Of(head) : i <= tasks[head].at => IsGiven(head, i)
        BY <2>3, <4>1, <4>3 DEF Delivers, Dropped, Ended
      <4>. QED BY <4>1, <4>5, <4>6 DEF Full
    <3>9. PICK h : h = Oldest + 1
      OBVIOUS
    <3>10. TakesAt(h)
      BY <1>1, <3>1, <3>8, <3>9 DEF TakesAt, Oldest
    <3>11. TakesAt(h)'
      BY <1>1, <2>1, <3>10, TakesStays, KeepsSame
    <3>12. TakesAt(Oldest)'
      BY <3>6, <3>9, <3>11 DEF TakesAt
    <3>. QED BY <2>1, <3>7, <3>12 DEF InTurn
  <2>. QED BY <2>2, <2>3
<1>8. CASE Receive
  <2>1. /\ Keeps /\ UNCHANGED <<files, stopped, inflight>> /\ pc \in {"wait", "taken"}
        /\ pc' \in {"wait", "taken"} => head' = head
        /\ \A u \in DOMAIN tasks, j \in Nat : u # head => (IsGiven(u, j)' <=> IsGiven(u, j))
    <3>1. pc = "wait"
      BY <1>8 DEF Receive
    <3>. QED BY <1>8, <3>1, ReceiveGives
  <2>2. \A t \in DOMAIN tasks : t # head => (Full(t)' <=> Full(t)) /\ (Untouched(t)' <=> Untouched(t))
    <3>. SUFFICES ASSUME NEW t \in DOMAIN tasks, t # head
                  PROVE  (Full(t)' <=> Full(t)) /\ (Untouched(t)' <=> Untouched(t))
      OBVIOUS
    <3>1. Of(t) \subseteq Nat /\ tasks'[t].file = tasks[t].file /\ tasks'[t].group = tasks[t].group
      BY <1>1, <2>1, TaskShape DEF Keeps
    <3>. QED BY <2>1, <3>1, FullStays
  <2>3. ASSUME NEW h, TakesAt(h), h = head PROVE TakesAt(h)'
    <3>1. \A t \in DOMAIN tasks : t < h \/ t > h => t # head
      BY <1>1, <2>3 DEF HeadThere
    <3>2. DOMAIN tasks' = DOMAIN tasks
      BY <2>1 DEF Keeps
    <3>. QED BY <2>2, <2>3, <3>1, <3>2 DEF TakesAt
  <2>. QED BY <1>1, <2>1, <2>3, TurnStays
<1>9. CASE CloseEnds
  <2>1. UNCHANGED <<tasks, given, pc, head>> /\ stopped' /\ Keeps
    BY <1>1, <1>9, KeepsSame DEF CloseEnds, FInv, ClosedDown, next
  <2>2. PICK h : h = head
    OBVIOUS
  <2>3. TakesAt(h) => TakesAt(h)'
    BY <1>1, <2>1, TakesStays
  <2>. QED BY <2>1, <2>2, <2>3 DEF InTurn, TakesAt
<1>10. ASSUME NEW t \in DOMAIN tasks, Work(t) PROVE InTurn'
  BY <1>1, <1>2, <1>10, WorkMoves, MovesKeeps DEF next, issuing
<1>. QED BY <1>3, <1>4, <1>5, <1>6, <1>7, <1>8, <1>9, <1>10 DEF Next, Reads, Closes

-----------------------------------------------------------------------------
(* What has been given, and what was answered.                             *)

(* A batch given is of a row group issued, and one of the scan's.          *)
LEMMA GivenAre ==
  ASSUME FInv, TasksOrdered, GivenInOrder
  PROVE  /\ \A k \in DOMAIN given : \E t \in DOMAIN tasks : \E i \in Of(t) :
              given[k] = Place(t, i) /\ IsGiven(t, i)
         /\ \A t \in DOMAIN tasks : \A i \in Of(t) : Place(t, i) \in Batches
<1>1. \A k \in DOMAIN given : \E t \in DOMAIN tasks : \E i \in Of(t) :
        given[k] = Place(t, i) /\ IsGiven(t, i)
  BY DEF GivenInOrder, IsGiven
<1>2. ASSUME NEW t \in DOMAIN tasks, NEW i \in Of(t) PROVE Place(t, i) \in Batches
  <2>1. tasks[t].file \in DOMAIN files /\ tasks[t].group \in KeptGroups(tasks[t].file)
    BY TaskShape DEF FInv, TasksOrdered
  <2>. QED BY <2>1, BatchIs DEF Place, Of
<1>. QED BY <1>1, <1>2

(* Every step keeps the order in which batches are given.                  *)
LEMMA GivenStep ==
  ASSUME FInv, TasksOrdered, IssuedSoFar, WorkersTold, AllDeliver, InTurn, GivenInOrder, [Next]_vars
  PROVE  GivenInOrder'
<1>1. /\ Typed /\ TasksOfOpened /\ HeadThere /\ tasks \in Seq(Task)
      /\ DOMAIN tasks = 1..Len(tasks) /\ Len(tasks) \in Nat /\ UNCHANGED files
  BY OthersKeep DEF FInv, Typed
<1>2. ASSUME UNCHANGED given, Keeps PROVE GivenInOrder'
  <2>1. \A t \in DOMAIN tasks : (Full(t)' <=> Full(t)) /\ (Untouched(t)' <=> Untouched(t))
    BY <1>1, <1>2, TakesStays
  <2>2. \A t \in DOMAIN tasks : Of(t)' = Of(t) /\ \A i : Place(t, i)' = Place(t, i)
    BY <1>1, <1>2, GroupStays
  <2>3. DOMAIN tasks' = DOMAIN tasks
    BY <1>2 DEF Keeps
  <2>. QED BY <1>2, <2>1, <2>2, <2>3 DEF GivenInOrder, Before
<1>3. CASE IssueGroup
  <2>1. UNCHANGED given
    BY <1>3 DEF IssueGroup, next
  <2>2. CASE Kept
    <3>1. /\ DOMAIN tasks' = DOMAIN tasks \union {Len(tasks) + 1}
          /\ \A u \in DOMAIN tasks : tasks'[u] = tasks[u]
      BY <1>1, <1>3, <2>2, IssueAdds
    <3>2. \A t \in DOMAIN tasks : (Full(t)' <=> Full(t)) /\ (Untouched(t)' <=> Untouched(t))
      <4>. SUFFICES ASSUME NEW t \in DOMAIN tasks
                    PROVE  (Full(t)' <=> Full(t)) /\ (Untouched(t)' <=> Untouched(t))
        OBVIOUS
      <4>1. \A j \in Nat : IsGiven(t, j)' <=> IsGiven(t, j)
        BY <2>1, <3>1 DEF IsGiven, Place
      <4>2. Of(t) \subseteq Nat
        BY <1>1, TaskShape
      <4>. QED BY <1>1, <3>1, <4>1, <4>2, FullStays
    <3>3. \A t \in DOMAIN tasks' : t \notin DOMAIN tasks => Untouched(t)'
      BY <1>3, <2>2, IssueDelivers
    <3>4. \A t \in DOMAIN tasks : Of(t)' = Of(t) /\ \A i : Place(t, i)' = Place(t, i)
      BY <1>1, <3>1 DEF Of, Place, RowBatches
    <3>5. \A t, u \in DOMAIN tasks' : u < t /\ ~Untouched(t)' => Full(u)'
      BY <1>1, <3>1, <3>2, <3>3 DEF GivenInOrder
    <3>6. \A k \in DOMAIN given' : \E t \in DOMAIN tasks' : \E i \in Of(t)' : given'[k] = Place(t, i)'
      BY <2>1, <3>1, <3>4 DEF GivenInOrder
    <3>. QED BY <2>1, <3>5, <3>6 DEF GivenInOrder, Before
  <2>3. CASE ~Kept
    BY <1>1, <1>2, <1>3, <2>1, <2>3, IssueSkips, KeepsSame
  <2>. QED BY <2>2, <2>3
<1>4. CASE Receive
  <2>. PICK h \in DOMAIN tasks, i \in Nat : h = head /\ i = Head(tasks[head].out)
    BY <1>4, ReceiveGives
  <2>1. /\ Keeps
        /\ i = None => given' = given
        /\ i # None => given' = Append(given, Place(h, i))
        /\ tasks[h].out \in Seq(Nat) /\ tasks[h].out # <<>> /\ i = Head(tasks[h].out)
        /\ \A u \in DOMAIN tasks, j \in Nat :
             IsGiven(u, j)' <=> IsGiven(u, j) \/ (i # None /\ u = h /\ j = i)
    BY <1>4, ReceiveGives
  <2>2. CASE i = None
    BY <1>2, <2>1, <2>2
  <2>3. CASE i # None
    <3>1. IsOut(h, i) /\ i \in Of(h)
      <4>1. IsOut(h, i)
        BY <2>1, TailIs DEF IsOut
      <4>. QED BY <2>3, <4>1 DEF AllDeliver, Delivers
    <3>2. TakesAt(h)
      BY <1>4 DEF Receive, InTurn
    <3>3. given \in Seq(Nat \X Nat \X Nat) /\ Place(h, i) \in Nat \X Nat \X Nat
      BY <1>1, TaskTyped DEF GivenInOrder, Place, Task
    <3>4. /\ Len(given) \in Nat /\ DOMAIN given = 1..Len(given)
          /\ given' \in Seq(Nat \X Nat \X Nat)
          /\ DOMAIN given' = 1..(Len(given) + 1) /\ given'[Len(given) + 1] = Place(h, i)
          /\ \A k \in DOMAIN given : given'[k] = given[k]
      <4>1. PICK T : T = Nat \X Nat \X Nat
        OBVIOUS
      <4>2. PICK x : x = Place(h, i)
        OBVIOUS
      <4>3. given \in Seq(T) /\ x \in T /\ given' = Append(given, x)
        BY <2>1, <2>3, <3>3, <4>1, <4>2
      <4>. QED BY <4>1, <4>2, <4>3, AppendIs
    <3>5. \A t \in DOMAIN tasks : Of(t)' = Of(t) /\ \A j : Place(t, j)' = Place(t, j)
      BY <1>1, <2>1, GroupStays
    <3>6. DOMAIN tasks' = DOMAIN tasks
      BY <2>1 DEF Keeps
    <3>7. \A k \in DOMAIN given' : \E t \in DOMAIN tasks' : \E j \in Of(t)' : given'[k] = Place(t, j)'
      <4>. SUFFICES ASSUME NEW k \in DOMAIN given'
                    PROVE  \E t \in DOMAIN tasks : \E j \in Of(t) : given'[k] = Place(t, j)
        BY <3>5, <3>6
      <4>1. CASE k \in DOMAIN given
        BY <3>4, <4>1 DEF GivenInOrder
      <4>2. CASE k = Len(given) + 1
        BY <3>1, <3>4, <4>2
      <4>. QED BY <3>4, <4>1, <4>2
    <3>8. \A k \in DOMAIN given : Before(given[k], Place(h, i))
      <4>. SUFFICES ASSUME NEW k \in DOMAIN given PROVE Before(given[k], Place(h, i))
        OBVIOUS
      <4>1. PICK u \in DOMAIN tasks : \E j \in Of(u) : given[k] = Place(u, j) /\ IsGiven(u, j)
        BY GivenAre
      <4>2. PICK j \in Of(u) : given[k] = Place(u, j) /\ IsGiven(u, j)
        BY <4>1
      <4>3. j \in Nat /\ u \in Nat /\ h \in Nat
        BY <1>1, TaskShape
      <4>4. ~(u > h)
        BY <3>2, <4>2, <4>3 DEF TakesAt, Untouched
      <4>5. CASE u = h
        <5>1. j < i
          BY <2>3, <3>1, <4>2, <4>3, <4>5 DEF AllDeliver, Delivers
        <5>. QED BY <4>2, <4>5, <5>1 DEF Before, Place
      <4>6. CASE u < h
        <5>1. Ahead(tasks[u].file, tasks[u].group, h)
          BY <4>6 DEF TasksOrdered
        <5>. QED BY <4>2, <5>1 DEF Before, Place, Ahead
      <4>. QED BY <4>3, <4>4, <4>5, <4>6
    <3>9. \A j, k \in DOMAIN given' : j < k => Before(given'[j], given'[k])
      <4>. SUFFICES ASSUME NEW j \in DOMAIN given', NEW k \in DOMAIN given', j < k
                    PROVE  Before(given'[j], given'[k])
        OBVIOUS
      <4>0. j \in 1..(Len(given) + 1) /\ k \in 1..(Len(given) + 1) /\ Len(given) \in Nat
        BY <3>4
      <4>1. j \in DOMAIN given /\ given'[j] = given[j]
        <5>1. j \in 1..Len(given)
          BY <4>0
        <5>. QED BY <3>4, <5>1
      <4>2. CASE k \in DOMAIN given
        BY <3>4, <4>1, <4>2 DEF GivenInOrder
      <4>3. CASE k = Len(given) + 1
        BY <3>4, <3>8, <4>1, <4>3
      <4>. QED BY <3>4, <4>2, <4>3
    <3>10. \A t \in DOMAIN tasks : /\ Full(t) => Full(t)'
                                   /\ t # h => (Untouched(t)' <=> Untouched(t))
      <4>. SUFFICES ASSUME NEW t \in DOMAIN tasks
                    PROVE  (Full(t) => Full(t)') /\ (t # h => (Untouched(t)' <=> Untouched(t)))
        OBVIOUS
      <4>1. Of(t) \subseteq Nat /\ Of(t)' = Of(t) /\ Group(t)' = Group(t)
        BY <1>1, <2>1, TaskShape, GroupStays
      <4>. QED BY <2>1, <4>1 DEF Full, Untouched
    <3>11. \A t, u \in DOMAIN tasks' : u < t /\ ~Untouched(t)' => Full(u)'
      BY <3>2, <3>6, <3>10 DEF GivenInOrder, TakesAt
    <3>. QED BY <3>4, <3>7, <3>9, <3>11 DEF GivenInOrder, Before
  <2>. QED BY <2>2, <2>3
<1>5. CASE Taken \/ CloseGate
  BY <1>1, <1>2, <1>5, TakenKeeps, GateKeeps DEF Taken, CloseGate, next
<1>6. ASSUME NEW t \in DOMAIN tasks, Work(t) PROVE GivenInOrder'
  BY <1>1, <1>2, <1>6, WorkMoves, MovesKeeps DEF next
<1>7. CASE Cancel \/ NextStarts \/ HeadRefuses \/ OpenFile \/ LeaveFile \/ HeadAnswers
             \/ ReceiveClosed \/ WaitEnds \/ CloseStops \/ CloseEnds \/ UNCHANGED vars
  <2>1. UNCHANGED <<tasks, given>>
    BY <1>7 DEF Cancel, NextStarts, HeadRefuses, OpenFile, LeaveFile, HeadAnswers, NextReturns,
                ReceiveClosed, WaitEnds, CloseStops, CloseEnds, vars, next
  <2>. QED BY <1>1, <1>2, <2>1, KeepsSame
<1>. QED BY <1>3, <1>4, <1>5, <1>6, <1>7 DEF Next, Reads, Closes

(* A row group given whole has all its batches given.                      *)
LEMMA FullGives ==
  ASSUME NEW t \in DOMAIN tasks, Full(t), NEW i \in RowBatches(tasks[t].file, tasks[t].group)
  PROVE  <<tasks[t].file, tasks[t].group, i>> \in ToSet(given)
BY DEF Full, Of, IsGiven, Place, ToSet

(* Once every row group issued is read, all before where the issuing has   *)
(* come to is given, and none of it failed.                                *)
LEMMA AllRead ==
  ASSUME FInv, TasksOrdered, IssuedSoFar, InTurn, GivenInOrder, ~stopped, inflight = <<>>
  PROVE  \A f \in 1..(fileIdx - 1) : \A g \in DOMAIN files[f].groups :
           /\ files[f].opens /\ f \in DOMAIN files
           /\ Considered(f, g) /\ ~(issueErr /\ f = cur /\ g = rgIndex) =>
                /\ files[f].groups[g].stats # "bad"
                /\ files[f].groups[g].stats = "keep" =>
                     /\ files[f].groups[g].end = "ok"
                     /\ \A i \in RowBatches(f, g) : <<f, g, i>> \in ToSet(given)
<1>1. Len(files) \in Nat /\ DOMAIN files = 1..Len(files) /\ fileIdx \in 2..(Len(files) + 1)
        /\ tasks \in Seq(Task)
  BY FilesTyped DEF FInv, Typed
<1>2. \A t \in DOMAIN tasks : Full(t)
  <2>1. Oldest = Len(tasks) + 1
    <3>1. Len(tasks) \in Nat /\ Len(inflight) = 0
      BY <1>1
    <3>. QED BY <3>1 DEF Oldest
  <2>. QED BY <1>1, <2>1 DEF InTurn, TakesAt
<1>. SUFFICES ASSUME NEW f \in 1..(fileIdx - 1), NEW g \in DOMAIN files[f].groups
              PROVE  /\ files[f].opens /\ f \in DOMAIN files
                     /\ Considered(f, g) /\ ~(issueErr /\ f = cur /\ g = rgIndex) =>
                          /\ files[f].groups[g].stats # "bad"
                          /\ files[f].groups[g].stats = "keep" =>
                               /\ files[f].groups[g].end = "ok"
                               /\ \A i \in RowBatches(f, g) : <<f, g, i>> \in ToSet(given)
  OBVIOUS
<1>3. files[f].opens /\ f \in DOMAIN files
  BY <1>1 DEF IssuedSoFar
<1>4. ASSUME Considered(f, g), ~(issueErr /\ f = cur /\ g = rgIndex)
      PROVE  /\ files[f].groups[g].stats # "bad"
             /\ files[f].groups[g].stats = "keep" =>
                  /\ files[f].groups[g].end = "ok"
                  /\ \A i \in RowBatches(f, g) : <<f, g, i>> \in ToSet(given)
  <2>1. Passed(f, g)
    BY <1>4 DEF IssuedSoFar
  <2>2. ASSUME files[f].groups[g].stats = "keep"
        PROVE  /\ files[f].groups[g].end = "ok"
               /\ \A i \in RowBatches(f, g) : <<f, g, i>> \in ToSet(given)
    <3>1. PICK t \in DOMAIN tasks : tasks[t].file = f /\ tasks[t].group = g
      BY <2>1, <2>2 DEF Passed, Issued
    <3>2. Full(t) /\ Group(t) = files[f].groups[g]
      BY <1>2, <3>1 DEF Group
    <3>3. \A i \in RowBatches(f, g) : <<f, g, i>> \in ToSet(given)
      BY <3>1, <3>2, FullGives
    <3>. QED BY <3>2, <3>3 DEF Full
  <2>. QED BY <2>1, <2>2 DEF Passed
<1>. QED BY <1>3, <1>4

(* Where a file does not open, or a row group's statistics do not read,    *)
(* the batches before it are given first.                                  *)
LEMMA FailsInIssue ==
  ASSUME FInv, TasksOrdered, IssuedSoFar, InTurn, GivenInOrder, ~stopped, inflight = <<>>, issueErr
  PROVE  \E x \in Failures : ToSet(given) = BatchesBefore(x)
<1>1. /\ Typed /\ Len(files) \in Nat /\ DOMAIN files = 1..Len(files)
      /\ fileIdx \in 2..(Len(files) + 1) /\ cur \in 0..(fileIdx - 1) /\ rgIndex \in Nat
  BY FilesTyped DEF FInv, Typed
<1>2. FailsHere /\ (cur # None => cur = fileIdx - 1)
  BY DEF IssuedSoFar
<1>. DEFINE x == IF cur # None THEN <<cur, rgIndex, 0>> ELSE <<fileIdx, 0, 0>>
<1>3. x \in Failures
  <2>1. CASE cur # None
    <3>1. cur \in DOMAIN files
      BY <1>1, <2>1 DEF None
    <3>2. files[cur].opens
      BY <1>1, <2>1 DEF IssuedSoFar, None
    <3>. QED BY <1>2, <2>1, <3>1, <3>2, FailureIs DEF FailsHere
  <2>2. CASE cur = None
    BY <1>2, <2>2, FailureIs DEF FailsHere
  <2>. QED BY <2>1, <2>2
<1>4. ASSUME NEW p \in ToSet(given) PROVE p \in BatchesBefore(x)
  <2>1. PICK t \in DOMAIN tasks : \E i \in Of(t) : p = Place(t, i)
    BY <1>4, GivenAre DEF ToSet
  <2>2. PICK i \in Of(t) : p = Place(t, i)
    BY <2>1
  <2>3. p \in Batches
    BY <2>2, GivenAre
  <2>4. Considered(tasks[t].file, tasks[t].group) /\ Group(t).stats = "keep"
          /\ tasks[t].file \in Nat /\ tasks[t].group \in Nat
    BY <1>1, TaskShape DEF IssuedSoFar, FInv
  <2>5. CASE cur # None
    <3>1. tasks[t].file = cur => tasks[t].group # rgIndex
      BY <1>2, <2>4, <2>5 DEF FailsHere, Group
    <3>2. tasks[t].file < cur \/ (tasks[t].file = cur /\ tasks[t].group < rgIndex)
      BY <1>1, <1>2, <2>4, <2>5, <3>1 DEF Considered
    <3>. QED BY <2>2, <2>3, <2>5, <3>2 DEF BatchesBefore, Before, Place
  <2>6. CASE cur = None
    BY <2>2, <2>3, <2>4, <2>6 DEF BatchesBefore, Before, Place, Considered
  <2>. QED BY <2>5, <2>6
<1>5. ASSUME NEW b \in BatchesBefore(x) PROVE b \in ToSet(given)
  <2>1. PICK f, g, i : /\ f \in DOMAIN files /\ g \in KeptGroups(f) /\ i \in RowBatches(f, g)
                       /\ b = <<f, g, i>> /\ Before(b, x)
    BY <1>5, BatchIs DEF BatchesBefore
  <2>2. g \in DOMAIN files[f].groups /\ files[f].groups[g].stats = "keep"
    BY <2>1 DEF KeptGroups
  <2>3. f \in Nat /\ g \in Nat \ {0} /\ i \in Nat \ {0}
    BY <1>1, <2>1, <2>2, GroupShape
  <2>4. f \in 1..(fileIdx - 1) /\ Considered(f, g) /\ ~(f = cur /\ g = rgIndex)
    <3>1. CASE cur # None
      <4>1. f < cur \/ (f = cur /\ g < rgIndex)
        BY <2>1, <2>3, <3>1 DEF Before
      <4>. QED BY <1>1, <1>2, <2>1, <2>3, <3>1, <4>1 DEF Considered
    <3>2. CASE cur = None
      <4>1. f < fileIdx
        BY <2>1, <2>3, <3>2 DEF Before
      <4>. QED BY <1>1, <2>1, <2>3, <3>2, <4>1 DEF Considered, None
    <3>. QED BY <3>1, <3>2
  <2>. QED BY <2>1, <2>2, <2>4, AllRead
<1>. QED BY <1>3, <1>4, <1>5 DEF BatchesBefore

(* A scan that has issued and read everything did not fail.                *)
LEMMA EndsWhole ==
  ASSUME FInv, TasksOrdered, IssuedSoFar, InTurn, GivenInOrder, ~stopped, inflight = <<>>,
         ~issueErr, issuedAll
  PROVE  Failures = {} /\ Batches \subseteq ToSet(given)
<1>1. cur = None /\ fileIdx = Len(files) + 1 /\ Len(files) \in Nat /\ DOMAIN files = 1..Len(files)
  BY FilesTyped DEF IssuedSoFar, FInv, Typed
<1>2. \A f \in DOMAIN files : f \in 1..(fileIdx - 1) /\ files[f].opens
  BY <1>1 DEF IssuedSoFar
<1>3. \A f \in DOMAIN files : \A g \in DOMAIN files[f].groups : Considered(f, g)
  BY <1>1 DEF Considered, None
<1>4. \A f \in DOMAIN files : \A g \in DOMAIN files[f].groups :
        /\ files[f].groups[g].stats # "bad"
        /\ files[f].groups[g].stats = "keep" =>
             /\ files[f].groups[g].end = "ok"
             /\ \A i \in RowBatches(f, g) : <<f, g, i>> \in ToSet(given)
  BY <1>2, <1>3, AllRead
<1>5. \A x : x \notin Failures
  BY <1>2, <1>4, FailureIs
<1>6. \A b \in Batches : b \in ToSet(given)
  <2>. SUFFICES ASSUME NEW b \in Batches PROVE b \in ToSet(given)
    OBVIOUS
  <2>1. PICK f, g, i : /\ f \in DOMAIN files /\ g \in KeptGroups(f) /\ i \in RowBatches(f, g)
                       /\ b = <<f, g, i>>
    BY BatchIs
  <2>. QED BY <1>4, <2>1 DEF KeptGroups
<1>. QED BY <1>5, <1>6

(* A row group that is kept, ahead of one issued, was issued before it.    *)
LEMMA AheadIssued ==
  ASSUME FInv, TasksOrdered, NEW t \in DOMAIN tasks, NEW f \in DOMAIN files, NEW g \in KeptGroups(f),
         Ahead(f, g, t)
  PROVE  \E u \in DOMAIN tasks : u < t /\ tasks[u].file = f /\ tasks[u].group = g
<1>1. g \in DOMAIN files[f].groups /\ files[f].groups[g].stats = "keep"
  BY DEF KeptGroups
<1>2. Passed(f, g)
  BY <1>1 DEF TasksOrdered
<1>3. PICK u \in DOMAIN tasks : tasks[u].file = f /\ tasks[u].group = g
  BY <1>1, <1>2 DEF Passed, Issued
<1>4. /\ t \in Nat /\ u \in Nat /\ tasks[t].file \in Nat /\ tasks[t].group \in Nat
      /\ tasks[u].file \in Nat /\ tasks[u].group \in Nat
  BY TaskShape DEF FInv
<1>5. u # t
  BY <1>3, <1>4 DEF Ahead
<1>6. ~(t < u)
  BY <1>3, <1>4 DEF TasksOrdered, Ahead
<1>. QED BY <1>3, <1>4, <1>5, <1>6

(* Where a row group fails, the batches before its failure are given first. *)
LEMMA FailsInGroup ==
  ASSUME FInv, TasksOrdered, WorkersTold, AllDeliver, InTurn, GivenInOrder, Receive,
         Head(tasks[head].out) = None
  PROVE  \E x \in Failures : ToSet(given) = BatchesBefore(x)
<1>. PICK t \in DOMAIN tasks : t = head
  BY ReceiveGives
<1>1. /\ tasks[t].out \in Seq(Nat) /\ tasks[t].out # <<>> /\ Head(tasks[t].out) = None
      /\ Delivers(t) /\ Told(t) /\ TakesAt(t)
  BY ReceiveGives DEF AllDeliver, WorkersTold, InTurn, Receive
<1>2. /\ tasks[t].file \in DOMAIN files /\ tasks[t].group \in DOMAIN files[tasks[t].file].groups
      /\ tasks[t].file \in Nat /\ tasks[t].group \in Nat /\ t \in Nat
      /\ Count(t) \in Nat /\ Of(t) \subseteq 1..Count(t)
      /\ Group(t).stats = "keep" /\ files[tasks[t].file].opens
  BY TaskShape DEF FInv
<1>. DEFINE x == <<tasks[t].file, tasks[t].group, Count(t) + 1>>
<1>3. IsOut(t, None) /\ \A i \in Nat \ {None} : ~IsOut(t, i)
  <2>1. tasks[t].out[1] = None /\ 1 \in DOMAIN tasks[t].out /\ DOMAIN tasks[t].out = 1..Len(tasks[t].out)
          /\ Len(tasks[t].out) \in Nat
    BY <1>1, TailIs
  <2>2. IsOut(t, None)
    BY <2>1 DEF IsOut
  <2>3. \A k \in DOMAIN tasks[t].out : k = 1
    BY <1>1, <2>1 DEF Delivers
  <2>. QED BY <2>1, <2>2, <2>3 DEF IsOut
<1>4. tasks[t].at = Count(t) /\ Group(t).end # "ok" /\ tasks[t].pc # "send"
  BY <1>1, <1>3 DEF Delivers, Told, IsOut
<1>5. x \in Failures
  <2>1. \E g \in DOMAIN files[tasks[t].file].groups :
          /\ files[tasks[t].file].groups[g].stats = "keep" /\ files[tasks[t].file].groups[g].end # "ok"
          /\ x = <<tasks[t].file, g, Len(files[tasks[t].file].groups[g].batches) + 1>>
    BY <1>2, <1>4 DEF Group, Count
  <2>. HIDE DEF x
  <2>. QED BY <1>2, <2>1, FailureIs
<1>6. ASSUME NEW p \in ToSet(given) PROVE p \in BatchesBefore(x)
  <2>1. PICK u \in DOMAIN tasks : \E i \in Of(u) : p = Place(u, i) /\ IsGiven(u, i)
    BY <1>6, GivenAre DEF ToSet
  <2>2. PICK i \in Of(u) : p = Place(u, i) /\ IsGiven(u, i)
    BY <2>1
  <2>3. i \in Nat /\ u \in Nat /\ p \in Batches
    BY <2>2, TaskShape, GivenAre DEF FInv
  <2>4. ~(u > t)
    BY <1>1, <2>2, <2>3 DEF TakesAt, Untouched
  <2>5. CASE u < t
    BY <2>2, <2>3, <2>5 DEF TasksOrdered, Ahead, BatchesBefore, Before, Place
  <2>6. CASE u = t
    BY <1>2, <2>2, <2>3, <2>6 DEF BatchesBefore, Before, Place
  <2>. QED BY <1>2, <2>3, <2>4, <2>5, <2>6
<1>7. ASSUME NEW b \in BatchesBefore(x) PROVE b \in ToSet(given)
  <2>1. PICK f, g, i : /\ f \in DOMAIN files /\ g \in KeptGroups(f) /\ i \in RowBatches(f, g)
                       /\ b = <<f, g, i>> /\ Before(b, x)
    BY <1>7, BatchIs DEF BatchesBefore
  <2>2. CASE Ahead(f, g, t)
    <3>1. PICK u \in DOMAIN tasks : u < t /\ tasks[u].file = f /\ tasks[u].group = g
      BY <2>1, <2>2, AheadIssued
    <3>. QED BY <1>1, <2>1, <3>1, FullGives DEF TakesAt
  <2>3. CASE f = tasks[t].file /\ g = tasks[t].group
    <3>1. i \in Of(t) /\ i <= tasks[t].at
      BY <1>2, <1>4, <2>1, <2>3 DEF Of
    <3>2. IsGiven(t, i)
      BY <1>1, <1>2, <1>3, <1>4, <3>1 DEF Delivers, Dropped, None
    <3>. QED BY <2>1, <2>3, <3>2 DEF IsGiven, Place, ToSet
  <2>. QED BY <2>1, <2>2, <2>3 DEF Before, Ahead
<1>. QED BY <1>5, <1>6, <1>7 DEF BatchesBefore

(* What was answered stands after every step.                              *)
LEMMA AnswerStep ==
  ASSUME FInv, TasksOrdered, IssuedSoFar, WorkersTold, AllDeliver, InTurn, GivenInOrder, Answered,
         [Next]_vars
  PROVE  Answered'
<1>1. UNCHANGED files /\ Typed /\ Threads \in Nat \ {0}
  BY OthersKeep, ReaderAssumption DEF FInv
<1>2. UNCHANGED Failures /\ UNCHANGED Batches /\ \A x : BatchesBefore(x)' = BatchesBefore(x)
  BY <1>1 DEF Failures, FailureIn, Batches, KeptGroups, RowBatches, BatchesBefore, Before
<1>3. ASSUME UNCHANGED <<given, err>>, answer' = answer \/ answer' \notin {"eof", "err"},
             err => pc' \in {"out", "head"}
      PROVE  Answered'
  BY <1>2, <1>3 DEF Answered
<1>4. CASE Cancel \/ NextStarts \/ OpenFile \/ IssueGroup \/ LeaveFile \/ Taken \/ ReceiveClosed
             \/ WaitEnds \/ CloseStops \/ CloseGate \/ CloseEnds \/ UNCHANGED vars
  <2>1. UNCHANGED <<given, err>> /\ (answer' = answer \/ answer' \notin {"eof", "err"})
    BY <1>4 DEF Cancel, NextStarts, OpenFile, IssueGroup, LeaveFile, Taken, ReceiveClosed,
                WaitEnds, CloseStops, CloseGate, CloseEnds, vars, next, NextReturns
  <2>2. err => pc' \in {"out", "head"}
    BY <1>4 DEF Cancel, NextStarts, OpenFile, IssueGroup, LeaveFile, Taken, ReceiveClosed,
                WaitEnds, CloseStops, CloseGate, CloseEnds, vars, next, NextReturns, Answered
  <2>. QED BY <1>3, <2>1, <2>2
<1>5. CASE HeadRefuses
  <2>1. UNCHANGED <<given, err>> /\ pc' = "out" /\ answer' = (IF err THEN "err" ELSE "closed")
    BY <1>5 DEF HeadRefuses, NextReturns
  <2>. QED BY <1>2, <2>1 DEF Answered
<1>6. CASE HeadAnswers
  <2>1. UNCHANGED given /\ ~err /\ ~stopped /\ pc = "head" /\ (~Issues \/ OpenEnds)
    BY <1>6 DEF HeadAnswers
  <2>2. CASE inflight # <<>>
    BY <1>3, <1>6, <2>1, <2>2 DEF HeadAnswers
  <2>3. CASE inflight = <<>> /\ issueErr
    <3>1. err' /\ answer' = "err" /\ pc' = "out"
      BY <1>6, <2>3 DEF HeadAnswers, NextReturns
    <3>. QED BY <1>2, <2>1, <2>3, <3>1, FailsInIssue DEF Answered
  <2>4. CASE inflight = <<>> /\ ~issueErr /\ ~OpenEnds
    <3>1. err' = err /\ answer' = "eof" /\ pc' = "out"
      BY <1>6, <2>4 DEF HeadAnswers, NextReturns
    <3>2. issuedAll
      <4>1. Len(inflight) = 0
        BY <2>4
      <4>. QED BY <1>1, <2>1, <2>4, <4>1 DEF Issues
    <3>. QED BY <1>2, <2>1, <2>4, <3>1, <3>2, EndsWhole DEF Answered
  <2>5. CASE inflight = <<>> /\ ~issueErr /\ OpenEnds
    <3>1. err' = err /\ answer' = "ctx" /\ pc' = "out"
      BY <1>6, <2>5 DEF HeadAnswers, NextReturns
    <3>. QED BY <1>3, <2>1, <3>1
  <2>. QED BY <2>2, <2>3, <2>4, <2>5
<1>7. CASE Receive
  <2>1. ~err
    BY <1>7 DEF Receive, Answered
  <2>2. CASE Head(tasks[head].out) = None
    <3>1. given' = given /\ err' /\ pc' = "out" /\ answer' = "err"
      BY <1>7, <2>2, ReceiveGives
    <3>. QED BY <1>2, <1>7, <2>2, <3>1, FailsInGroup DEF Answered
  <2>3. CASE Head(tasks[head].out) # None
    <3>1. UNCHANGED <<err, answer>> /\ ToSet(given) \subseteq ToSet(given')
      <4>1. PICK x, T : /\ given \in Seq(T) /\ x \in T /\ given' = Append(given, x)
                        /\ UNCHANGED <<err, answer>>
        <5>1. given' = Append(given, Place(head, Head(tasks[head].out))) /\ UNCHANGED <<err, answer>>
          BY <1>7, <2>3, ReceiveGives
        <5>2. PICK y : y = Place(head, Head(tasks[head].out))
          OBVIOUS
        <5>3. PICK T : T = Nat \X Nat \X Nat
          OBVIOUS
        <5>4. given \in Seq(T \union {y}) /\ y \in T \union {y}
          BY <5>3 DEF GivenInOrder
        <5>. QED BY <5>1, <5>2, <5>4
      <4>2. \A k \in DOMAIN given : k \in DOMAIN given' /\ given'[k] = given[k]
        BY <4>1, AppendIs
      <4>. QED BY <4>1, <4>2 DEF ToSet
    <3>. QED BY <1>2, <2>1, <3>1 DEF Answered
  <2>. QED BY <2>2, <2>3
<1>8. ASSUME NEW t \in DOMAIN tasks, Work(t) PROVE Answered'
  BY <1>1, <1>3, <1>8, WorkMoves DEF next, Answered
<1>. QED BY <1>4, <1>5, <1>6, <1>7, <1>8 DEF Next, Reads, Closes

-----------------------------------------------------------------------------
(* The theorem.                                                            *)

(* A reader starts with nothing issued, given or answered.                 *)
LEMMA SerialInit == Init => SInv
<1>. SUFFICES ASSUME Init PROVE SInv
  OBVIOUS
<1>1. Len(files) \in Nat \ {0} /\ DOMAIN files = 1..Len(files)
  BY FilesTyped DEF Init
<1>2. 1 \in DOMAIN files /\ files[1].opens
  BY <1>1, ReaderAssumption DEF Init
<1>3. DOMAIN tasks = {} /\ DOMAIN given = {} /\ DOMAIN inflight = {} /\ given \in Seq(Nat \X Nat \X Nat)
  BY DEF Init
<1>4. IssuedSoFar
  <2>1. cur = 1 /\ fileIdx = 2 /\ rgIndex = 0 /\ ~issueErr /\ ~issuedAll
    BY DEF Init
  <2>2. Len(files[1].groups) \in Nat /\ DOMAIN files[1].groups = 1..Len(files[1].groups)
    BY <1>2, GroupsSeq, TypedInit
  <2>. QED BY <1>2, <1>3, <2>1, <2>2 DEF IssuedSoFar, Considered, None
<1>5. TasksOrdered /\ AllDeliver /\ GivenInOrder
  BY <1>3 DEF TasksOrdered, AllDeliver, GivenInOrder, Init
<1>6. InTurn /\ Answered
  BY <1>3 DEF InTurn, TakesAt, Answered, Init
<1>. QED BY <1>4, <1>5, <1>6 DEF SInv

(* What holds along every run of what is issued, delivered and given.      *)
THEOREM SerialInvariance == Safe => []SInv
<1>1. Init => SInv
  BY SerialInit
<1>2. AInv /\ SInv /\ [Next]_vars => SInv'
  <2>. SUFFICES ASSUME AInv, SInv, [Next]_vars PROVE SInv'
    OBVIOUS
  <2>1. FInv /\ WorkersTold /\ TasksOrdered /\ IssuedSoFar /\ AllDeliver /\ InTurn /\ GivenInOrder /\ Answered
    BY DEF AInv, SInv
  <2>. QED BY <2>1, OrderStep, DeliverStep, TurnStep, GivenStep, AnswerStep DEF SInv
<1>. QED BY <1>1, <1>2, AheadInvariance, PTL DEF Safe

(* Next gives the batches the serial reader gives, in its order, without a *)
(* gap and up to what fails first, whatever the workers, the gate, the     *)
(* channels' room and Close make of it: the batches before one given are   *)
(* of row groups given whole, or before it in its own.                     *)
THEOREM SerialOrder == Spec => []AsSerial
<1>1. AInv /\ SInv => AsSerial
  <2>. SUFFICES ASSUME AInv, SInv PROVE AsSerial
    OBVIOUS
  <2>1. FInv /\ TasksOrdered /\ AllDeliver /\ GivenInOrder /\ Answered
    BY DEF AInv, SInv
  <2>2. ASSUME NEW p \in ToSet(given)
        PROVE  /\ p \in Batches /\ BatchesBefore(p) \subseteq ToSet(given)
               /\ \A x \in Failures : ~Before(x, p)
    <3>1. PICK t \in DOMAIN tasks : \E i \in Of(t) : p = Place(t, i) /\ IsGiven(t, i)
      BY <2>1, <2>2, GivenAre DEF ToSet
    <3>2. PICK i \in Of(t) : p = Place(t, i) /\ IsGiven(t, i)
      BY <3>1
    <3>3. /\ p \in Batches /\ Of(t) \subseteq 1..Count(t) /\ Count(t) \in Nat /\ i \in Nat
          /\ tasks[t].file \in DOMAIN files /\ tasks[t].group \in DOMAIN files[tasks[t].file].groups
          /\ tasks[t].file \in Nat /\ tasks[t].group \in Nat /\ Group(t).stats = "keep"
      BY <2>1, <3>2, TaskShape, GivenAre DEF FInv
    <3>4. \A u \in DOMAIN tasks : u < t => Full(u)
      BY <2>1, <3>2, <3>3 DEF GivenInOrder, Untouched
    <3>5. ASSUME NEW b \in BatchesBefore(p) PROVE b \in ToSet(given)
      <4>1. PICK f, g, j : /\ f \in DOMAIN files /\ g \in KeptGroups(f) /\ j \in RowBatches(f, g)
                           /\ b = <<f, g, j>> /\ Before(b, p)
        BY <3>5, BatchIs DEF BatchesBefore
      <4>2. CASE Ahead(f, g, t)
        <5>1. PICK u \in DOMAIN tasks : u < t /\ tasks[u].file = f /\ tasks[u].group = g
          BY <2>1, <4>1, <4>2, AheadIssued
        <5>. QED BY <3>4, <4>1, <5>1, FullGives
      <4>3. CASE f = tasks[t].file /\ g = tasks[t].group /\ j < i
        <5>1. j \in Of(t) /\ j \in Nat \ {None} /\ tasks[t].at \in Nat
          BY <2>1, <3>3, <4>1, <4>3, TaskShape DEF Of, None, FInv
        <5>2. i <= tasks[t].at /\ ~IsOut(t, j) /\ j < tasks[t].at
          BY <2>1, <3>2, <3>3, <4>3, <5>1 DEF AllDeliver, Delivers
        <5>3. IsGiven(t, j)
          BY <2>1, <5>1, <5>2 DEF AllDeliver, Delivers, Dropped
        <5>. QED BY <4>1, <4>3, <5>3 DEF IsGiven, Place, ToSet
      <4>. QED BY <3>2, <4>1, <4>2, <4>3 DEF Before, Place, Ahead
    <3>6. ASSUME NEW x \in Failures, Before(x, p) PROVE FALSE
      <4>1. PICK f \in DOMAIN files :
              \/ ~files[f].opens /\ x = <<f, 0, 0>>
              \/ files[f].opens /\ \E g \in DOMAIN files[f].groups :
                   \/ files[f].groups[g].stats = "bad" /\ x = <<f, g, 0>>
                   \/ /\ files[f].groups[g].stats = "keep" /\ files[f].groups[g].end # "ok"
                      /\ x = <<f, g, Len(files[f].groups[g].batches) + 1>>
        BY FailureIs
      <4>2. f \in Nat
        BY <2>1, GroupsSeq DEF FInv
      <4>3. f <= tasks[t].file /\ files[f].opens
        <5>1. f <= tasks[t].file
          BY <3>2, <3>3, <3>6, <4>1, <4>2 DEF Before, Place
        <5>. QED BY <2>1, <5>1 DEF TasksOrdered
      <4>4. PICK g \in DOMAIN files[f].groups :
              \/ files[f].groups[g].stats = "bad" /\ x = <<f, g, 0>>
              \/ /\ files[f].groups[g].stats = "keep" /\ files[f].groups[g].end # "ok"
                 /\ x = <<f, g, Len(files[f].groups[g].batches) + 1>>
        BY <4>1, <4>3
      <4>5. CASE Ahead(f, g, t)
        <5>1. Passed(f, g)
          BY <2>1, <4>5 DEF TasksOrdered
        <5>2. files[f].groups[g].stats = "keep" /\ files[f].groups[g].end # "ok"
          BY <4>4, <5>1 DEF Passed
        <5>3. g \in KeptGroups(f)
          BY <4>3, <5>2 DEF KeptGroups
        <5>4. PICK u \in DOMAIN tasks : u < t /\ tasks[u].file = f /\ tasks[u].group = g
          BY <2>1, <4>5, <5>3, AheadIssued
        <5>5. Full(u)
          BY <3>4, <5>4
        <5>. QED BY <5>2, <5>4, <5>5 DEF Full, Group
      <4>6. CASE f = tasks[t].file /\ g = tasks[t].group
        <5>1. x = <<f, g, Count(t) + 1>>
          BY <3>3, <4>4, <4>6 DEF Group, Count
        <5>2. Count(t) + 1 < i
          BY <3>2, <3>3, <3>6, <4>6, <5>1 DEF Before, Place
        <5>. QED BY <3>2, <3>3, <5>2
      <4>. QED BY <3>2, <3>6, <4>4, <4>5, <4>6 DEF Before, Place, Ahead
    <3>. QED BY <3>3, <3>5, <3>6
  <2>3. ToSet(given) \subseteq Batches
    BY <2>2
  <2>. QED BY <2>1, <2>2, <2>3 DEF AsSerial, GivenInOrder, Answered
<1>. QED BY <1>1, AheadInvariance, SerialInvariance, PTL DEF Spec

=============================================================================
