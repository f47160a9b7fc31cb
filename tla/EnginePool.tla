----------------------------- MODULE EnginePool -----------------------------
(***************************************************************************)
(* The memory the queries of an engine share: Pool and each query's share  *)
(* (internal/execopt/pool.go).                                             *)
(*                                                                         *)
(* A query's own figures move under its budget's mutex, the pool's by      *)
(* atomics with no lock in common, so a step here is what one query does   *)
(* between two accesses to the pool.  While pc[q] is not "idle" one of the *)
(* query's goroutines has its mutex, and the others wait; Join, which      *)
(* begins without it, ends before the query's goroutines start.            *)
(***************************************************************************)
EXTENDS Integers, FiniteSets, FiniteSetsExt

CONSTANTS
  Queries,    \* the budgets opened on the pool
  Limit,      \* its limit
  Grain,      \* how far a total moves before it is told
  MaxTotal,   \* bound: the most one query's operators hold
  MaxPages    \* bound: the most its scans' pages come to

ASSUME PoolAssumption ==
  /\ IsFiniteSet(Queries)
  /\ Limit \in Nat \ {0} /\ Grain \in Nat \ {0}
  /\ MaxTotal \in Nat /\ MaxPages \in Nat

VARIABLES
  state,      \* 0 not joined, 1 running, 2 left
  total,      \* Budget.total: what the query's operators hold
  told,       \* what it last told the pool
  pages,      \* what its scans hold outside its ledger
  held,       \* the pool's sum
  running,    \* its count of queries
  peak,       \* the highest held
  pc,         \* where the query's goroutine under its mutex is
  sum,        \* add: what held.Add returned
  seen,       \* add: the peak it loaded
  others,     \* room: what it found the other queries hold
  high,       \* history: the highest held has been
  wasOver     \* history: whether the query was over as room read held

share == <<state, total, told, pages>>
pool  == <<held, running, peak>>
local == <<pc, sum, seen, others>>
ghost == <<high, wasOver>>
vars  == <<share, pool, local, ghost>>

Larger(m, n) == IF m > n THEN m ELSE n

(* Mutant of RoomOf: the share is one of the other queries'.               *)
RoomOfOthers(rest, n) == Larger(Limit - rest, Limit \div Larger(n - 1, 1))

(* room: what the other queries leave of the limit, and never less than an *)
(* even share.                                                             *)
RoomOf(rest, n) == Larger(Limit - rest, Limit \div Larger(n, 1))

(* The room the query would have if held and running were read at once.    *)
Rest(q) == held - told[q] - pages[q]
Room(q) == IF state[q] = 1 THEN RoomOf(Rest(q), running) ELSE Limit

Init ==
  /\ state = [q \in Queries |-> 0]
  /\ total = [q \in Queries |-> 0]
  /\ told = [q \in Queries |-> 0]
  /\ pages = [q \in Queries |-> 0]
  /\ held = 0 /\ running = 0 /\ peak = 0
  /\ pc = [q \in Queries |-> "idle"]
  /\ sum = [q \in Queries |-> 0]
  /\ seen = [q \in Queries |-> 0]
  /\ others = [q \in Queries |-> 0]
  /\ high = 0
  /\ wasOver = [q \in Queries |-> FALSE]

-----------------------------------------------------------------------------
(* Pool.add: held moves at once, and its peak by compare-and-swap.         *)

Add(q, d) ==
  /\ held' = held + d
  /\ sum' = [sum EXCEPT ![q] = held + d]
  /\ high' = Larger(high, held + d)
  /\ pc' = [pc EXCEPT ![q] = "load"]

(* The query's mutex is free: between two calls, the last of them perhaps  *)
(* an Over that said yes.                                                  *)
Free(q) == pc[q] \in {"idle", "over"}

AddNothing == UNCHANGED <<held, sum, high, pc>>

(* add returns: leave goes on to uncount the query, the others are done.   *)
AddReturns(q) ==
  /\ pc' = [pc EXCEPT ![q] = IF state[q] = 2 THEN "uncount" ELSE "idle"]
  /\ sum' = [sum EXCEPT ![q] = 0]
  /\ seen' = [seen EXCEPT ![q] = 0]

PeakLoad(q) ==
  /\ pc[q] = "load"
  /\ \/ sum[q] <= peak /\ AddReturns(q)
     \/ /\ sum[q] > peak
        /\ seen' = [seen EXCEPT ![q] = peak]
        /\ pc' = [pc EXCEPT ![q] = "swap"]
        /\ UNCHANGED sum
  /\ UNCHANGED <<share, pool, others, ghost>>

(* Mutant of PeakSwap: a plain store.                                      *)
PeakSwapBlind(q) ==
  /\ pc[q] = "swap"
  /\ peak' = sum[q]
  /\ AddReturns(q)
  /\ UNCHANGED <<share, held, running, others, ghost>>

PeakSwap(q) ==
  /\ pc[q] = "swap"
  /\ \/ peak = seen[q] /\ peak' = sum[q] /\ AddReturns(q)
     \/ peak # seen[q] /\ pc' = [pc EXCEPT ![q] = "load"] /\ UNCHANGED <<peak, sum, seen>>
  /\ UNCHANGED <<share, held, running, others, ghost>>

-----------------------------------------------------------------------------
(* Join and Leave.                                                         *)

JoinState(q) ==
  /\ pc[q] = "idle" /\ state[q] = 0
  /\ state' = [state EXCEPT ![q] = 1]
  /\ pc' = [pc EXCEPT ![q] = "count"]
  /\ UNCHANGED <<total, told, pages, pool, sum, seen, others, ghost>>

JoinCount(q) ==
  /\ pc[q] = "count"
  /\ running' = running + 1
  /\ pc' = [pc EXCEPT ![q] = "join"]
  /\ UNCHANGED <<share, held, peak, sum, seen, others, ghost>>

(* The pages held so far; no operator has opened an account yet, so tell   *)
(* has nothing to tell.                                                    *)
JoinTell(q) ==
  /\ pc[q] = "join"
  /\ Add(q, pages[q])
  /\ UNCHANGED <<share, running, peak, seen, others, wasOver>>

(* Leave, or the collector's cleanup of a budget no one left: whichever    *)
(* comes first.                                                            *)
Leave(q) ==
  /\ Free(q) /\ state[q] = 1
  /\ state' = [state EXCEPT ![q] = 2]
  /\ told' = [told EXCEPT ![q] = 0]
  /\ Add(q, -told[q] - pages[q])
  /\ UNCHANGED <<total, pages, running, peak, seen, others, wasOver>>

LeaveCount(q) ==
  /\ pc[q] = "uncount"
  /\ running' = running - 1
  /\ pc' = [pc EXCEPT ![q] = "idle"]
  /\ UNCHANGED <<share, held, peak, sum, seen, others, ghost>>

-----------------------------------------------------------------------------
(* What a query holds.                                                     *)

(* tell: a running query's total, once it is a grain from what was told.   *)
Tell(q, t) ==
  IF state[q] = 1 /\ (t - told[q] >= Grain \/ t - told[q] <= -Grain)
  THEN told' = [told EXCEPT ![q] = t] /\ Add(q, t - told[q])
  ELSE UNCHANGED told /\ AddNothing

(* An account's retain or release, in the ledger's move or addExtra; one   *)
(* that comes after the query left does not reach the pool.                *)
Hold(q, d) ==
  /\ Free(q) /\ state[q] # 0
  /\ d # 0 /\ total[q] + d \in 0..MaxTotal
  /\ total' = [total EXCEPT ![q] = @ + d]
  /\ Tell(q, total[q] + d)
  /\ UNCHANGED <<state, pages, running, peak, seen, others, wasOver>>

(* Mutant of Pressure: the pool hears of pages whoever they are.           *)
PressureAlways(q, d) ==
  /\ Free(q)
  /\ d # 0 /\ pages[q] + d \in 0..MaxPages
  /\ pages' = [pages EXCEPT ![q] = @ + d]
  /\ Add(q, d)
  /\ UNCHANGED <<state, total, told, running, peak, seen, others, wasOver>>

Pressure(q, d) ==
  /\ Free(q)
  /\ d # 0 /\ pages[q] + d \in 0..MaxPages
  /\ pages' = [pages EXCEPT ![q] = @ + d]
  /\ IF state[q] = 1 THEN Add(q, d) ELSE AddNothing
  /\ UNCHANGED <<state, total, told, running, peak, seen, others, wasOver>>

-----------------------------------------------------------------------------
(* Over: room reads held, then running.                                    *)

OverHeld(q) ==
  /\ Free(q) /\ state[q] = 1
  /\ others' = [others EXCEPT ![q] = Rest(q)]
  /\ wasOver' = [wasOver EXCEPT ![q] = total[q] > Room(q)]
  /\ pc' = [pc EXCEPT ![q] = "room"]
  /\ UNCHANGED <<share, pool, sum, seen, high>>

(* Mutant of OverRunning: the query does not count itself.                 *)
OverRunningOthers(q) ==
  /\ pc[q] = "room"
  /\ pc' = [pc EXCEPT ![q] = IF total[q] > RoomOf(others[q], running - 1) THEN "over" ELSE "idle"]
  /\ others' = [others EXCEPT ![q] = 0]
  /\ wasOver' = [wasOver EXCEPT ![q] = FALSE]
  /\ UNCHANGED <<share, pool, sum, seen, high>>

OverRunning(q) ==
  /\ pc[q] = "room"
  /\ pc' = [pc EXCEPT ![q] = IF total[q] > RoomOf(others[q], running) THEN "over" ELSE "idle"]
  /\ others' = [others EXCEPT ![q] = 0]
  /\ wasOver' = [wasOver EXCEPT ![q] = FALSE]
  /\ UNCHANGED <<share, pool, sum, seen, high>>

Next ==
  \E q \in Queries :
    \/ JoinState(q) \/ JoinCount(q) \/ JoinTell(q)
    \/ Leave(q) \/ LeaveCount(q)
    \/ PeakLoad(q) \/ PeakSwap(q)
    \/ \E d \in -MaxTotal..MaxTotal : Hold(q, d)
    \/ \E d \in -MaxPages..MaxPages : Pressure(q, d)
    \/ OverHeld(q) \/ OverRunning(q)

Spec == Init /\ [][Next]_vars

-----------------------------------------------------------------------------
(* What holds of it.                                                       *)

Adding(q) == pc[q] \in {"load", "swap"}
Quiet == \A q \in Queries : Free(q)

(* The queries whose figures the pool has, and those it counts.            *)
Joined == {q \in Queries : state[q] = 1 /\ pc[q] \notin {"count", "join"}}
Counted == {q \in Queries : state[q] = 1 /\ pc[q] # "count"}
             \union {q \in Queries : state[q] = 2 /\ ~Free(q)}

(* Every variable has its type; the pool's figures are never below none.   *)
TypeOK ==
  /\ state \in [Queries -> 0..2]
  /\ total \in [Queries -> Nat] /\ told \in [Queries -> Nat] /\ pages \in [Queries -> Nat]
  /\ held \in Nat /\ running \in Nat /\ peak \in Nat /\ high \in Nat
  /\ pc \in [Queries -> {"idle", "count", "join", "load", "swap", "uncount", "room", "over"}]
  /\ sum \in [Queries -> Nat] /\ seen \in [Queries -> Nat]
  /\ others \in [Queries -> Int]
  /\ wasOver \in [Queries -> BOOLEAN]

(* The pool's sum and count are its running queries' and nothing else's:   *)
(* what a query held before it joined is in, and what one still lets go of *)
(* after it left is not taken off a second time.                           *)
PoolExact ==
  /\ held = SumFunctionOnSet([q \in Queries |-> told[q] + pages[q]], Joined)
  /\ running = Cardinality(Counted)

(* A running query's total is within a grain of what the pool has of it,   *)
(* growing or shrinking.                                                   *)
ToldToAGrain ==
  \A q \in Queries :
    state[q] = 1 => total[q] - told[q] < Grain /\ told[q] - total[q] < Grain

(* The pool's peak is never more than its sum has been, and once no query  *)
(* is in add it is that, whatever order the compare-and-swaps came in.     *)
PeakExact ==
  /\ peak <= high
  /\ (\A q \in Queries : ~Adding(q)) => peak = high

(* When the operators of the queries together hold more than the limit, by *)
(* more than what a grain each leaves untold, one of the queries is over   *)
(* its room: the pool is never past its limit with no one to spill.        *)
SomeoneOver ==
  Quiet =>
    LET R == {q \in Queries : state[q] = 1} IN
      SumFunctionOnSet(total, R) > Limit + Cardinality(R) * (Grain - 1)
        => \E q \in R : total[q] > Room(q)

(* Over reads the pool twice, and others join, leave and hold in between;  *)
(* a query that is over as it reads the first and as it reads the second   *)
(* is told so.                                                             *)
OverIsSeen ==
  [][\A q \in Queries :
       pc[q] = "room" /\ wasOver[q] /\ total[q] > Room(q)
         => pc'[q] \in {"room", "over"}]_vars

=============================================================================
