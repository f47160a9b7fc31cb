---------------------------- MODULE EngineThreads ----------------------------
(***************************************************************************)
(* The threads the queries of an engine share: Engine.share, hold and      *)
(* release (engine.go), called as a query is planned and as it ends        *)
(* (workers in lazy.go), and around an eager frame operation.              *)
(*                                                                         *)
(* The engine keeps one atomic count, of the queries on more than one      *)
(* thread.  share takes it up, divides, and takes it down again where the  *)
(* share is a single thread: two accesses, and others' between them.       *)
(***************************************************************************)
EXTENDS Integers, FiniteSets, TLC

CONSTANTS
  Sharers,    \* the queries and frame operations that may run at once
  Threads,    \* Engine.threads
  MaxWant     \* bound: the most threads one asks for

ASSUME ThreadsAssumption ==
  /\ IsFiniteSet(Sharers)
  /\ Threads \in Nat \ {0} /\ MaxWant \in Nat \ {0}

VARIABLES
  phase,      \* "idle", "sharing" between share's two accesses, or "running"
  want,       \* what it asked for
  given,      \* whether the caller gave it that (hold), or it takes a share
  divisor,    \* what parallel.Add(1) returned
  got,        \* the threads it runs on
  parallel    \* the engine's count

threadVars == <<phase, want, given, divisor, got, parallel>>

ThreadsInit ==
  /\ phase = [q \in Sharers |-> "idle"]
  /\ want = [q \in Sharers |-> 0]
  /\ given = [q \in Sharers |-> FALSE]
  /\ divisor = [q \in Sharers |-> 0]
  /\ got = [q \in Sharers |-> 0]
  /\ parallel = 0

AtLeastOne(k) == IF k > 1 THEN k ELSE 1

(* A share of the threads by k queries, of at most w.                      *)
ShareOf(k, w) == IF AtLeastOne(Threads \div k) < w THEN AtLeastOne(Threads \div k) ELSE w

Start(q, w, g, k, m, next) ==
  /\ phase[q] = "idle"
  /\ phase' = [phase EXCEPT ![q] = next]
  /\ want' = [want EXCEPT ![q] = w]
  /\ given' = [given EXCEPT ![q] = g]
  /\ divisor' = [divisor EXCEPT ![q] = k]
  /\ got' = [got EXCEPT ![q] = m]

(* hold: the threads the caller gave, counted where more than one.         *)
HoldThreads(q, w) ==
  /\ Start(q, w, TRUE, 0, w, "running")
  /\ parallel' = parallel + IF w > 1 THEN 1 ELSE 0

(* share of one thread.                                                    *)
ShareOne(q) ==
  /\ Start(q, 1, FALSE, 0, 1, "running")
  /\ UNCHANGED parallel

(* Mutant of ShareAdd: this query is not among those it divides by.        *)
ShareAddOthers(q, w) ==
  /\ w > 1
  /\ Start(q, w, FALSE, AtLeastOne(parallel), 0, "sharing")
  /\ parallel' = parallel + 1

(* share's first access: the count goes up and is what it divides by.      *)
ShareAdd(q, w) ==
  /\ w > 1
  /\ Start(q, w, FALSE, parallel + 1, 0, "sharing")
  /\ parallel' = parallel + 1

(* Mutant of ShareEnd: a query given one thread stays counted.             *)
ShareEndCounted(q) ==
  /\ phase[q] = "sharing"
  /\ phase' = [phase EXCEPT ![q] = "running"]
  /\ got' = [got EXCEPT ![q] = ShareOf(divisor[q], want[q])]
  /\ UNCHANGED <<want, given, divisor, parallel>>

(* And its second: the count down again for a query given one thread.      *)
ShareEnd(q) ==
  /\ phase[q] = "sharing"
  /\ phase' = [phase EXCEPT ![q] = "running"]
  /\ got' = [got EXCEPT ![q] = ShareOf(divisor[q], want[q])]
  /\ parallel' = parallel - IF got'[q] <= 1 THEN 1 ELSE 0
  /\ UNCHANGED <<want, given, divisor>>

(* release, once, as the query ends.                                       *)
Release(q) ==
  /\ phase[q] = "running"
  /\ phase' = [phase EXCEPT ![q] = "idle"]
  /\ want' = [want EXCEPT ![q] = 0]
  /\ given' = [given EXCEPT ![q] = FALSE]
  /\ divisor' = [divisor EXCEPT ![q] = 0]
  /\ got' = [got EXCEPT ![q] = 0]
  /\ parallel' = parallel - IF got[q] > 1 THEN 1 ELSE 0

ThreadsNext ==
  \E q \in Sharers :
    \/ \E w \in 1..MaxWant : HoldThreads(q, w) \/ ShareAdd(q, w)
    \/ ShareOne(q) \/ ShareEnd(q) \/ Release(q)

ThreadsSpec == ThreadsInit /\ [][ThreadsNext]_threadVars

(* The queries are alike.                                                  *)
Alike == Permutations(Sharers)

-----------------------------------------------------------------------------
(* What holds of it.                                                       *)

(* Every variable has its type; the count is never below none.             *)
ThreadsTypeOK ==
  /\ phase \in [Sharers -> {"idle", "sharing", "running"}]
  /\ want \in [Sharers -> 0..MaxWant]
  /\ given \in [Sharers -> BOOLEAN]
  /\ divisor \in [Sharers -> Nat]
  /\ got \in [Sharers -> 0..MaxWant]
  /\ parallel \in Nat

(* The count is of the queries on more than one thread, and of those in    *)
(* share; a query that ends, or is given one thread, leaves it.            *)
OnSeveral == {q \in Sharers : phase[q] = "sharing" \/ got[q] > 1}
ParallelExact == parallel = Cardinality(OnSeveral)

(* However share's accesses interleave and whoever ends in between, no     *)
(* more than Threads / m queries run on shares of m threads or more at     *)
(* once: the shares do not add up to a worker a thread for each query.     *)
SharedOn(m) == {q \in Sharers : phase[q] = "running" /\ ~given[q] /\ got[q] >= m}
SharesFit == \A m \in 2..Threads : Cardinality(SharedOn(m)) * m <= Threads
=============================================================================
