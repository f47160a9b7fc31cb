--------------------------- MODULE SharedResult ---------------------------
(***************************************************************************)
(* sharedResult and cacheOp: a subplan run once, and replayed by every     *)
(* site of the query that needs it (internal/physical/cache.go).           *)
(*                                                                         *)
(* Each site is an operator that a goroutine of its own pulls from, under  *)
(* a context of its own, until its answer is final, and then, or before,   *)
(* closes.  The subplan answers "rows", "empty" batches, and at its end    *)
(* "eof", "fail" (an error or a panic), or "exit" (runtime.Goexit).  The   *)
(* disk may fail at any write, at the file's close and at any read, and    *)
(* the subplan at its close.                                               *)
(***************************************************************************)
EXTENDS Integers, Sequences, FiniteSets, SequencesExt

CONSTANTS
  Sites,      \* the sites of the shared subplan
  Children,   \* the subplans considered, as sequences of answers
  Rooms       \* how many batches the budget may hold; 0 is no limit

Ends == {"eof", "fail", "exit"}

ASSUME SitesAssumption == IsFiniteSet(Sites) /\ Sites # {}

(* A subplan answers batches, and ends once.                               *)
ASSUME ChildrenAssumption ==
  /\ \A c \in Children :
       c # <<>> /\ c \in Seq({"rows", "empty"} \union Ends)
         /\ \A k \in DOMAIN c : c[k] \in Ends <=> k = Len(c)
  /\ Rooms \subseteq Nat

VARIABLES
  child, room,   \* this query's subplan and budget
  once, err,     \* sync.Once: "idle", "running", "done"; what the run answered
  pulled,        \* how many answers of the child the run has taken
  batches,       \* what is held in memory: charged to the budget
  path, file,    \* whether there is a spill file, and what is in it
  writer,        \* whether the run has it open
  closed,        \* the sites that have counted themselves closed
  childCloses,   \* how often the child was closed
  pc, ended,     \* each site, and whether its context has ended
  pos,           \* what it has replayed: a place in batches, or in the file
  got,           \* the batches it was given, by their place in the subplan
  answer         \* how it ended for it, "none" while it has not

query == <<child, room>>
run   == <<once, err, pulled, batches, path, file, writer>>
site  == <<pos, got, answer>>
vars  == <<query, run, closed, childCloses, pc, ended, site>>

Init ==
  /\ child \in Children /\ room \in Rooms
  /\ once = "idle" /\ err = "none" /\ pulled = 0
  /\ batches = <<>> /\ path = FALSE /\ file = <<>> /\ writer = FALSE
  /\ closed = {} /\ childCloses = 0
  /\ pc = [s \in Sites |-> "out"]
  /\ ended = [s \in Sites |-> FALSE]
  /\ pos = [s \in Sites |-> 0]
  /\ got = [s \in Sites |-> <<>>]
  /\ answer = [s \in Sites |-> "none"]

Goes(s, from, to) == pc[s] = from /\ pc' = [pc EXCEPT ![s] = to]

(* The context of a site is its consumer's, and may end while it is used.  *)
ContextEnds(s) ==
  /\ ~ended[s] /\ s \notin closed
  /\ ended' = [ended EXCEPT ![s] = TRUE]
  /\ UNCHANGED <<query, run, closed, childCloses, pc, site>>

-----------------------------------------------------------------------------
(* The run, by the first site whose Next gets to it; the others wait.      *)

Call(s) ==
  /\ Goes(s, "out", "enter")
  /\ answer[s] = "none"
  /\ UNCHANGED <<query, run, closed, childCloses, ended, site>>

Run(s) ==
  /\ Goes(s, "enter", "drain")
  /\ once = "idle"
  /\ once' = "running"
  /\ UNCHANGED <<query, err, pulled, batches, path, file, writer, closed, childCloses,
                 ended, site>>

(* drain ends: sync.Once is done whatever happened, the error is everyone's, *)
(* and a writer still open is closed by the defer.                         *)
DrainEnds(s, e, to) ==
  /\ pc' = [pc EXCEPT ![s] = to]
  /\ once' = "done" /\ err' = e /\ writer' = FALSE

(* Mutant of DrainCancelled: the run is left for another site to finish,   *)
(* and no one is told that it may.                                         *)
DrainCancelledLeft(s) ==
  /\ pc[s] = "drain" /\ ended[s]
  /\ pc' = [pc EXCEPT ![s] = "enter"]
  /\ err' = "ctx" /\ writer' = FALSE
  /\ UNCHANGED <<query, once, pulled, batches, path, file, closed, childCloses, ended, site>>

(* The runner's own context ends the run between two batches.              *)
DrainCancelled(s) ==
  /\ pc[s] = "drain" /\ ended[s]
  /\ DrainEnds(s, "ctx", "enter")
  /\ UNCHANGED <<query, pulled, batches, path, file, closed, childCloses, ended, site>>

DrainEmpty(s) ==
  /\ pc[s] = "drain" /\ child[pulled + 1] = "empty"
  /\ pulled' = pulled + 1
  /\ UNCHANGED <<query, once, err, batches, path, file, writer, closed, childCloses, pc,
                 ended, site>>

Over(some) == room > 0 /\ Len(some) > room

(* Mutant of DrainRows: spilling moves what was held, but not the batch    *)
(* whose arrival took it past the budget.                                  *)
DrainRowsShort(s) ==
  /\ pc[s] = "drain" /\ child[pulled + 1] = "rows"
  /\ pulled' = pulled + 1
  /\ IF writer THEN file' = Append(file, pulled + 1) /\ UNCHANGED <<batches, path, writer>>
     ELSE IF ~Over(Append(batches, pulled + 1))
     THEN batches' = Append(batches, pulled + 1) /\ UNCHANGED <<path, file, writer>>
     ELSE path' = TRUE /\ writer' = TRUE /\ file' = batches /\ batches' = <<>>
  /\ UNCHANGED <<once, err, pc, query, closed, childCloses, ended, site>>

(* A batch goes to the file once there is one, and else is held; past the  *)
(* budget what is held moves to a file.  Either write may fail, the second *)
(* at its directory too, and then the run does.                            *)
DrainRows(s) ==
  /\ pc[s] = "drain" /\ child[pulled + 1] = "rows"
  /\ pulled' = pulled + 1
  /\ LET more == Append(batches, pulled + 1) IN
       \/ /\ writer
          /\ file' = Append(file, pulled + 1)
          /\ UNCHANGED <<once, err, batches, path, writer, pc>>
       \/ /\ writer
          /\ DrainEnds(s, "disk", "enter") /\ UNCHANGED <<batches, path, file>>
       \/ /\ ~writer /\ ~Over(more)
          /\ batches' = more /\ UNCHANGED <<once, err, path, file, writer, pc>>
       \/ /\ ~writer /\ Over(more)
          /\ path' = TRUE /\ writer' = TRUE /\ file' = more /\ batches' = <<>>
          /\ UNCHANGED <<once, err, pc>>
       \/ /\ ~writer /\ Over(more)
          /\ path' \in BOOLEAN /\ batches' = more
          /\ DrainEnds(s, "disk", "enter") /\ UNCHANGED file
  /\ UNCHANGED <<query, closed, childCloses, ended, site>>

(* A Goexit takes the runner's goroutine with it, and leaves no error.     *)
DrainFails(s) ==
  /\ pc[s] = "drain" /\ child[pulled + 1] \in {"fail", "exit"}
  /\ pulled' = pulled + 1
  /\ IF child[pulled + 1] = "fail" THEN DrainEnds(s, "fail", "enter")
     ELSE DrainEnds(s, "none", "gone")
  /\ UNCHANGED <<query, batches, path, file, closed, childCloses, ended, site>>

(* Mutant of DrainEof: the file's close is left to the defer, which drops  *)
(* its error.                                                              *)
DrainEofUntold(s) ==
  /\ pc[s] = "drain" /\ child[pulled + 1] = "eof"
  /\ pulled' = pulled + 1
  /\ file' \in Prefixes(file)
  /\ childCloses' = childCloses + 1
  /\ \E e \in {"none", "close"} : DrainEnds(s, e, "enter")
  /\ UNCHANGED <<query, batches, path, closed, ended, site>>

(* The subplan has run: the file is closed, and the subplan, whose own     *)
(* state goes at once.  A file whose close fails may lack any of its end;  *)
(* the subplan is then the last site's to close.                           *)
DrainEof(s) ==
  /\ pc[s] = "drain" /\ child[pulled + 1] = "eof"
  /\ pulled' = pulled + 1
  /\ \/ /\ writer
        /\ file' \in Prefixes(file)
        /\ DrainEnds(s, "disk", "enter") /\ UNCHANGED childCloses
     \/ /\ childCloses' = childCloses + 1
        /\ \E e \in {"none", "close"} : DrainEnds(s, e, "enter")
        /\ UNCHANGED file
  /\ UNCHANGED <<query, batches, path, closed, ended, site>>

-----------------------------------------------------------------------------
(* The replays, each with a place, and past the budget a reader, of its own. *)

Shared == IF path THEN file ELSE batches

AnswerError(s) ==
  /\ Goes(s, "enter", "out")
  /\ once = "done" /\ err # "none"
  /\ answer' = [answer EXCEPT ![s] = err]
  /\ UNCHANGED <<query, run, closed, childCloses, ended, pos, got>>

AnswerBatch(s) ==
  /\ Goes(s, "enter", "out")
  /\ once = "done" /\ err = "none" /\ pos[s] < Len(Shared)
  /\ pos' = [pos EXCEPT ![s] = @ + 1]
  /\ got' = [got EXCEPT ![s] = Append(@, Shared[pos[s] + 1])]
  /\ UNCHANGED <<query, run, closed, childCloses, ended, answer>>

(* A reader that cannot be opened, or read on, is its site's failure only. *)
AnswerUnread(s) ==
  /\ Goes(s, "enter", "out")
  /\ once = "done" /\ err = "none" /\ path
  /\ answer' = [answer EXCEPT ![s] = "unread"]
  /\ UNCHANGED <<query, run, closed, childCloses, ended, pos, got>>

AnswerEof(s) ==
  /\ Goes(s, "enter", "out")
  /\ once = "done" /\ err = "none" /\ pos[s] = Len(Shared)
  /\ answer' = [answer EXCEPT ![s] = "eof"]
  /\ UNCHANGED <<query, run, closed, childCloses, ended, pos, got>>

-----------------------------------------------------------------------------
(* Close, by a site that has called Next to the end, in part, or never.    *)

(* Mutant of Close: the first site to close releases.                      *)
CloseFirst(s) ==
  /\ pc[s] \in {"out", "gone"}
  /\ closed' = closed \union {s}
  /\ pc' = [pc EXCEPT ![s] = IF closed = {} THEN "release" ELSE "closed"]
  /\ UNCHANGED <<query, run, childCloses, ended, site>>

Close(s) ==
  /\ pc[s] \in {"out", "gone"}
  /\ closed' = closed \union {s}
  /\ pc' = [pc EXCEPT ![s] = IF closed' = Sites THEN "release" ELSE "closed"]
  /\ UNCHANGED <<query, run, childCloses, ended, site>>

(* The last to close closes a child that did not run to its end, and lets  *)
(* go of the batches and the spill directory.  That either fails is told   *)
(* by Close, and is nothing to the other sites; a directory that cannot be *)
(* removed is left out.                                                    *)
Release(s) ==
  /\ Goes(s, "release", "closed")
  /\ childCloses' = childCloses + (IF childCloses > 0 THEN 0 ELSE 1)
  /\ batches' = <<>> /\ path' = FALSE /\ file' = <<>>
  /\ UNCHANGED <<query, once, err, pulled, writer, closed, ended, site>>

Step(s) ==
  \/ Run(s) \/ DrainCancelled(s) \/ DrainEmpty(s) \/ DrainRows(s) \/ DrainFails(s)
  \/ DrainEof(s) \/ AnswerError(s) \/ AnswerBatch(s) \/ AnswerUnread(s)
  \/ AnswerEof(s) \/ Release(s)

Next == \E s \in Sites : Step(s) \/ Call(s) \/ ContextEnds(s) \/ Close(s)

(* A site's goroutine runs on inside a call; when it calls is its own.     *)
Spec == Init /\ [][Next]_vars /\ \A s \in Sites : WF_vars(Step(s))
-----------------------------------------------------------------------------

(* The subplan's batches of rows, by their places, among its first n       *)
(* answers; and a sequence of places in the subplan's order.               *)
Rows(n) == {k \in 1..n : child[k] = "rows"}
InOrder(q) == \A i, j \in DOMAIN q : i < j => q[i] < q[j]

(* What a site is given is the subplan's batches, each once, in its order  *)
(* and without a gap.                                                      *)
ReplaysInOrder(s) ==
  /\ InOrder(got[s])
  /\ \A k \in ToSet(got[s]) : Rows(k) \subseteq ToSet(got[s])
  /\ ToSet(got[s]) \subseteq Rows(Len(child))

(* Every site is given the subplan's batches in order, whether they are    *)
(* held or spilled, and is told of an end only after all of them: never of *)
(* a subplan that failed, nor where the disk or the subplan's close failed *)
(* the run, and never while another site is told the run failed.  Nothing  *)
(* is claimed of the end of a subplan that stops the goroutine of its run: *)
(* no error is kept of it (cache.go:84), and part of the rows is told as   *)
(* the whole.                                                              *)
EverySiteReplays ==
  \A s \in Sites :
    /\ ReplaysInOrder(s)
    /\ answer[s] = "eof" /\ Last(child) # "exit"
         => /\ Last(child) = "eof"
            /\ ToSet(got[s]) = Rows(Len(child))
            /\ \A t \in Sites : answer[t] \in {"none", "eof", "unread"}

(* The subplan is closed no more than once, and not while it runs; what a  *)
(* site that is still open may read is there; and once every site has      *)
(* closed nothing is held, no file is left, and the subplan is closed.     *)
ReleasedByTheLast ==
  /\ childCloses <= 1
  /\ once = "running" => childCloses = 0
  /\ \A s \in Sites : s \notin closed /\ once = "done" /\ err = "none"
                        => /\ IsPrefix(got[s], Shared) /\ InOrder(Shared)
                           /\ ToSet(Shared) = Rows(Len(child))
  /\ (\A s \in Sites : pc[s] = "closed")
       => childCloses = 1 /\ Shared = <<>> /\ ~path /\ ~writer

(* A site waiting on another's run is answered, whatever ends that run.    *)
NextReturns == \A s \in Sites : pc[s] \in {"enter", "drain"} ~> pc[s] \in {"out", "gone"}

=============================================================================
