---------------------------- MODULE EngineProofs ----------------------------
(***************************************************************************)
(* Proofs about the three things the queries of an engine share, for any   *)
(* number of queries.                                                      *)
(*                                                                         *)
(* EnginePool, for any limit and grain: what the pool has of a query is    *)
(* within a grain of its total, the compare-and-swaps of any number of     *)
(* queries leave the pool's peak where its sum was highest, its sum and    *)
(* its count are its running queries', and it is never past its limit with *)
(* no query to spill.                                                      *)
(*                                                                         *)
(* EngineThreads, for any number of threads: the engine's count is exact,  *)
(* and its shares fit its threads.  A query that divides by k found k - 1  *)
(* others counted, so no more than k counted queries ever have a divisor   *)
(* of k or less.                                                           *)
(*                                                                         *)
(* SourceOnce, for any number of callers and calls: a query is never       *)
(* failed by the end of another's context, one run writes the source at a  *)
(* time and none after an answer, and the answers agree.                   *)
(***************************************************************************)
EXTENDS EnginePool, EngineThreads, SourceOnce, FoldFacts, TLAPS

-----------------------------------------------------------------------------
(* The pool.                                                               *)

Points == {"idle", "count", "join", "load", "swap", "uncount", "room", "over"}

(* What the figures range over, whatever they come to.                     *)
Typed ==
  /\ state \in [Queries -> 0..2]
  /\ total \in [Queries -> Nat] /\ told \in [Queries -> Int] /\ pages \in [Queries -> Nat]
  /\ held \in Int /\ peak \in Int /\ high \in Int
  /\ pc \in [Queries -> Points]
  /\ sum \in [Queries -> Int] /\ seen \in [Queries -> Int]

(* A query that has not joined holds nothing and has told nothing.         *)
NothingBefore == \A q \in Queries : state[q] = 0 => total[q] = 0 /\ told[q] = 0

(* The highest sum is the peak, or one of the queries in add brings it; a  *)
(* query about to swap has more than the peak it saw.                      *)
PeakComes ==
  /\ peak <= high
  /\ \A q \in Queries : Adding(q) => sum[q] <= high
  /\ peak = high \/ \E q \in Queries : Adding(q) /\ sum[q] = high
  /\ \A q \in Queries : pc[q] = "swap" => seen[q] < sum[q]

PInv == Typed /\ NothingBefore /\ ToldToAGrain /\ PeakComes

(* The initial state.                                                      *)
LEMMA PInit == ASSUME Init PROVE PInv
BY PoolAssumption
   DEF Init, PInv, Typed, Points, NothingBefore, ToldToAGrain, PeakComes, Adding

(* Moving the pool's sum, by a query that was not doing so, keeps PeakComes. *)
LEMMA AddKeepsPeak ==
  ASSUME Typed, PeakComes, NEW q \in Queries, NEW d \in Int,
         ~Adding(q), Add(q, d), UNCHANGED <<peak, seen>>
  PROVE  /\ held' \in Int /\ high' \in Int
         /\ pc' \in [Queries -> Points] /\ sum' \in [Queries -> Int]
         /\ PeakComes'
<1>. DEFINE h == held + d
<1>1. /\ h \in Int /\ held' = h /\ sum'[q] = h /\ pc'[q] = "load"
      /\ \A r \in Queries : r # q => sum'[r] = sum[r] /\ pc'[r] = pc[r]
      /\ high' = IF high > h THEN high ELSE h
      /\ peak' = peak /\ seen' = seen
      /\ pc' \in [Queries -> Points] /\ sum' \in [Queries -> Int]
  BY DEF Add, Typed, Points, Larger
<1>. HIDE DEF h
<1>2. high' \in Int /\ high <= high' /\ h <= high' /\ peak \in Int
  BY <1>1 DEF Typed
<1>3. \A r \in Queries : Adding(r)' => sum'[r] <= high'
  BY <1>1, <1>2 DEF Adding, PeakComes, Typed
<1>4. peak' = high' \/ \E r \in Queries : Adding(r)' /\ sum'[r] = high'
  <2>1. CASE h >= high
    BY <2>1, <1>1, <1>2 DEF Adding, Typed
  <2>2. CASE h < high
    BY <2>2, <1>1, <1>2 DEF Adding, PeakComes, Typed
  <2>. QED BY <2>1, <2>2, <1>1 DEF Typed
<1>5. \A r \in Queries : pc'[r] = "swap" => seen'[r] < sum'[r]
  BY <1>1 DEF PeakComes
<1>. QED BY <1>1, <1>2, <1>3, <1>4, <1>5 DEF PeakComes, Typed

(* A query between two other steps leaves the peak's account alone.        *)
LEMMA StillKeepsPeak ==
  ASSUME Typed, PeakComes, NEW q \in Queries, NEW p \in Points \ {"load", "swap"},
         ~Adding(q), pc' = [pc EXCEPT ![q] = p], UNCHANGED <<peak, sum, seen, high>>
  PROVE  PeakComes' /\ pc' \in [Queries -> Points]
<1>1. /\ pc'[q] = p /\ \A r \in Queries : r # q => pc'[r] = pc[r]
      /\ pc' \in [Queries -> Points]
  BY DEF Typed
<1>2. \A r \in Queries : (Adding(r)' <=> Adding(r)) /\ (pc'[r] = "swap" <=> pc[r] = "swap")
  BY <1>1 DEF Adding
<1>. QED BY <1>1, <1>2 DEF PeakComes

(* add returning: what the query brought is at most the peak by now.       *)
LEMMA ReturnKeepsPeak ==
  ASSUME Typed, PeakComes, NEW q \in Queries, Adding(q),
         AddReturns(q), UNCHANGED high,
         peak' \in Int, peak <= peak', sum[q] <= peak', peak' <= high
  PROVE  PeakComes' /\ pc' \in [Queries -> Points]
         /\ sum' \in [Queries -> Int] /\ seen' \in [Queries -> Int]
<1>1. /\ ~Adding(q)' /\ pc'[q] # "swap"
      /\ \A r \in Queries : r # q => sum'[r] = sum[r] /\ pc'[r] = pc[r] /\ seen'[r] = seen[r]
      /\ pc' \in [Queries -> Points]
      /\ sum' \in [Queries -> Int] /\ seen' \in [Queries -> Int]
  BY DEF AddReturns, Typed, Points, Adding
<1>2. \A r \in Queries : Adding(r)' => sum'[r] <= high'
  BY <1>1 DEF Adding, PeakComes
<1>3. peak' = high' \/ \E r \in Queries : Adding(r)' /\ sum'[r] = high'
  <2>1. CASE peak = high
    BY <2>1 DEF Typed
  <2>2. ASSUME NEW r \in Queries, Adding(r), sum[r] = high
        PROVE  peak' = high' \/ \E s \in Queries : Adding(s)' /\ sum'[s] = high'
    <3>1. CASE r = q
      BY <2>2, <3>1 DEF Typed
    <3>2. CASE r # q
      BY <2>2, <3>2, <1>1 DEF Adding
    <3>. QED BY <3>1, <3>2
  <2>. QED BY <2>1, <2>2 DEF PeakComes
<1>4. \A r \in Queries : pc'[r] = "swap" => seen'[r] < sum'[r]
  BY <1>1 DEF PeakComes
<1>. QED BY <1>1, <1>2, <1>3, <1>4 DEF PeakComes

(* Telling keeps a running query's total within a grain of what was told.  *)
LEMMA TellKeeps ==
  ASSUME PInv, NEW q \in Queries, NEW t \in Nat, Free(q), state[q] # 0,
         Tell(q, t), total' = [total EXCEPT ![q] = t], UNCHANGED <<state, peak, seen>>
  PROVE  /\ told' \in [Queries -> Int] /\ total' \in [Queries -> Nat]
         /\ held' \in Int /\ high' \in Int
         /\ pc' \in [Queries -> Points] /\ sum' \in [Queries -> Int]
         /\ ToldToAGrain' /\ NothingBefore' /\ PeakComes'
<1>. USE DEF PInv
<1>1. total' \in [Queries -> Nat] /\ total'[q] = t /\ \A r \in Queries : r # q => total'[r] = total[r]
  BY DEF Typed
<1>2. ~Adding(q)
  BY DEF Free, Adding
<1>3. CASE state[q] = 1 /\ (t - told[q] >= Grain \/ t - told[q] <= -Grain)
  <2>1. told' = [told EXCEPT ![q] = t] /\ Add(q, t - told[q]) /\ t - told[q] \in Int
    BY <1>3 DEF Tell, Typed
  <2>2. told' \in [Queries -> Int] /\ told'[q] = t /\ \A r \in Queries : r # q => told'[r] = told[r]
    BY <2>1 DEF Typed
  <2>3. ToldToAGrain' /\ NothingBefore'
    BY <1>1, <2>2, PoolAssumption DEF ToldToAGrain, NothingBefore, Typed
  <2>. QED BY <1>1, <1>2, <2>1, <2>2, <2>3, AddKeepsPeak
<1>4. CASE ~(state[q] = 1 /\ (t - told[q] >= Grain \/ t - told[q] <= -Grain))
  <2>1. UNCHANGED <<told, held, sum, high, pc>>
    BY <1>4 DEF Tell, AddNothing
  <2>2. ToldToAGrain' /\ NothingBefore'
    BY <1>1, <1>4, <2>1, PoolAssumption DEF ToldToAGrain, NothingBefore, Typed
  <2>3. PeakComes'
    BY <2>1 DEF PeakComes, Adding
  <2>. QED BY <1>1, <2>1, <2>2, <2>3 DEF Typed
<1>. QED BY <1>3, <1>4

(* Every step keeps PInv.                                                  *)
LEMMA PStep == ASSUME PInv, [Next]_vars PROVE PInv'
<1>. USE DEF PInv
<1>1. ASSUME NEW q \in Queries, JoinState(q) PROVE PInv'
  <2>1. PeakComes' /\ pc' \in [Queries -> Points]
    BY <1>1, StillKeepsPeak DEF JoinState, ghost, pool, Adding, Points
  <2>2. ToldToAGrain' /\ NothingBefore'
    BY <1>1, PoolAssumption DEF JoinState, ToldToAGrain, NothingBefore, Typed
  <2>. QED BY <1>1, <2>1, <2>2 DEF JoinState, Typed, ghost, pool
<1>2. ASSUME NEW q \in Queries, JoinCount(q) \/ LeaveCount(q) PROVE PInv'
  <2>1. UNCHANGED <<share, held, peak, sum, seen, high>>
    BY <1>2 DEF JoinCount, LeaveCount, ghost
  <2>2. PeakComes' /\ pc' \in [Queries -> Points]
    BY <1>2, <2>1, StillKeepsPeak DEF JoinCount, LeaveCount, Adding, Points
  <2>. QED BY <2>1, <2>2 DEF Typed, ToldToAGrain, NothingBefore, share
<1>3. ASSUME NEW q \in Queries, JoinTell(q) PROVE PInv'
  <2>1. Add(q, pages[q]) /\ pages[q] \in Int /\ ~Adding(q) /\ UNCHANGED <<share, peak, seen>>
    BY <1>3 DEF JoinTell, Typed, Adding
  <2>2. /\ held' \in Int /\ high' \in Int /\ PeakComes'
        /\ pc' \in [Queries -> Points] /\ sum' \in [Queries -> Int]
    BY <2>1, AddKeepsPeak
  <2>. QED BY <2>1, <2>2 DEF Typed, ToldToAGrain, NothingBefore, share
<1>4. ASSUME NEW q \in Queries, Leave(q) PROVE PInv'
  <2>1. /\ Add(q, -told[q] - pages[q]) /\ -told[q] - pages[q] \in Int /\ ~Adding(q)
        /\ UNCHANGED <<total, pages, peak, seen>>
        /\ state' = [state EXCEPT ![q] = 2] /\ told' = [told EXCEPT ![q] = 0]
    BY <1>4 DEF Leave, Free, Typed, Adding
  <2>2. /\ held' \in Int /\ high' \in Int /\ PeakComes'
        /\ pc' \in [Queries -> Points] /\ sum' \in [Queries -> Int]
    BY <2>1, AddKeepsPeak
  <2>3. ToldToAGrain' /\ NothingBefore'
    BY <2>1 DEF ToldToAGrain, NothingBefore, Typed
  <2>4. state' \in [Queries -> 0..2] /\ told' \in [Queries -> Int] /\ 2 \in 0..2
    BY <2>1 DEF Typed
  <2>. QED BY <2>1, <2>2, <2>3, <2>4 DEF Typed
<1>5. ASSUME NEW q \in Queries, PeakLoad(q) PROVE PInv'
  <2>1. UNCHANGED <<share, held, peak, high>> /\ Adding(q) /\ peak \in Int
    BY <1>5 DEF PeakLoad, Adding, pool, ghost, Typed
  <2>2. CASE sum[q] <= peak /\ AddReturns(q)
    <3>1. /\ PeakComes' /\ pc' \in [Queries -> Points]
          /\ sum' \in [Queries -> Int] /\ seen' \in [Queries -> Int]
      BY <2>1, <2>2, ReturnKeepsPeak DEF PeakComes
    <3>. QED BY <2>1, <3>1 DEF Typed, ToldToAGrain, NothingBefore, share
  <2>3. CASE /\ sum[q] > peak /\ seen' = [seen EXCEPT ![q] = peak]
             /\ pc' = [pc EXCEPT ![q] = "swap"] /\ UNCHANGED sum
    <3>1. /\ seen' \in [Queries -> Int] /\ pc' \in [Queries -> Points]
          /\ \A r \in Queries : Adding(r)' <=> Adding(r)
          /\ \A r \in Queries : pc'[r] = "swap" => seen'[r] < sum'[r]
      BY <2>1, <2>3 DEF Typed, Points, Adding, PeakComes
    <3>2. PeakComes'
      BY <2>1, <2>3, <3>1 DEF PeakComes
    <3>. QED BY <2>1, <2>3, <3>1, <3>2 DEF Typed, ToldToAGrain, NothingBefore, share
  <2>. QED BY <1>5, <2>2, <2>3 DEF PeakLoad
<1>6. ASSUME NEW q \in Queries, PeakSwap(q) PROVE PInv'
  <2>1. UNCHANGED <<share, held, high>> /\ Adding(q) /\ pc[q] = "swap"
    BY <1>6 DEF PeakSwap, Adding, ghost
  <2>2. CASE peak = seen[q] /\ peak' = sum[q] /\ AddReturns(q)
    <3>1. peak' \in Int /\ peak <= peak' /\ sum[q] <= peak' /\ peak' <= high
      BY <2>1, <2>2 DEF Typed, PeakComes
    <3>2. /\ PeakComes' /\ pc' \in [Queries -> Points]
          /\ sum' \in [Queries -> Int] /\ seen' \in [Queries -> Int]
      BY <2>1, <2>2, <3>1, ReturnKeepsPeak
    <3>. QED BY <2>1, <3>1, <3>2 DEF Typed, ToldToAGrain, NothingBefore, share
  <2>3. CASE pc' = [pc EXCEPT ![q] = "load"] /\ UNCHANGED <<peak, sum, seen>>
    <3>1. /\ pc' \in [Queries -> Points]
          /\ \A r \in Queries : (Adding(r)' <=> Adding(r)) /\ (pc'[r] = "swap" => pc[r] = "swap")
      BY <2>1, <2>3 DEF Typed, Points, Adding
    <3>2. PeakComes'
      BY <2>1, <2>3, <3>1 DEF PeakComes
    <3>. QED BY <2>1, <2>3, <3>1, <3>2 DEF Typed, ToldToAGrain, NothingBefore, share
  <2>. QED BY <1>6, <2>2, <2>3 DEF PeakSwap
<1>7. ASSUME NEW q \in Queries, NEW d \in -MaxTotal..MaxTotal, Hold(q, d) PROVE PInv'
  <2>1. /\ Free(q) /\ state[q] # 0 /\ total[q] + d \in Nat
        /\ total' = [total EXCEPT ![q] = total[q] + d] /\ Tell(q, total[q] + d)
        /\ UNCHANGED <<state, pages, peak, seen>>
    BY <1>7, PoolAssumption DEF Hold, Typed
  <2>. QED BY <2>1, TellKeeps DEF Typed
<1>8. ASSUME NEW q \in Queries, NEW d \in -MaxPages..MaxPages, Pressure(q, d) PROVE PInv'
  <2>1. /\ Free(q) /\ d \in Int /\ pages' \in [Queries -> Nat] /\ ~Adding(q)
        /\ UNCHANGED <<state, total, told, peak, seen>>
    BY <1>8, PoolAssumption DEF Pressure, Typed, Free, Adding
  <2>2. CASE state[q] = 1
    <3>1. /\ held' \in Int /\ high' \in Int /\ PeakComes'
          /\ pc' \in [Queries -> Points] /\ sum' \in [Queries -> Int]
      BY <1>8, <2>1, <2>2, AddKeepsPeak DEF Pressure
    <3>. QED BY <2>1, <3>1 DEF Typed, ToldToAGrain, NothingBefore
  <2>3. CASE state[q] # 1
    <3>1. UNCHANGED <<held, sum, high, pc>>
      BY <1>8, <2>3 DEF Pressure, AddNothing
    <3>. QED BY <2>1, <3>1 DEF Typed, ToldToAGrain, NothingBefore, PeakComes, Adding
  <2>. QED BY <2>2, <2>3
<1>9. ASSUME NEW q \in Queries, OverHeld(q) \/ OverRunning(q) PROVE PInv'
  <2>1. /\ UNCHANGED <<share, held, peak, sum, seen, high>> /\ ~Adding(q)
        /\ \E p \in Points \ {"load", "swap"} : pc' = [pc EXCEPT ![q] = p]
    BY <1>9 DEF OverHeld, OverRunning, Free, Adding, pool, Points
  <2>2. PeakComes' /\ pc' \in [Queries -> Points]
    BY <2>1, StillKeepsPeak
  <2>. QED BY <2>1, <2>2 DEF Typed, ToldToAGrain, NothingBefore, share
<1>10. CASE UNCHANGED vars
  BY <1>10 DEF vars, share, pool, local, ghost, Typed, ToldToAGrain, NothingBefore, PeakComes, Adding
<1>. QED
  BY <1>1, <1>2, <1>3, <1>4, <1>5, <1>6, <1>7, <1>8, <1>9, <1>10 DEF Next

(* PInv always holds.                                                      *)
THEOREM PoolInvariance == Spec => []PInv
<1>1. Init => PInv
  BY PInit
<1>2. PInv /\ [Next]_vars => PInv'
  BY PStep
<1>. QED BY <1>1, <1>2, PTL DEF Spec

(* The pool has each running query's total to a grain, however many run    *)
(* and whatever order they hold and let go in.                             *)
THEOREM ToldIsClose == Spec => []ToldToAGrain
<1>1. PInv => ToldToAGrain
  BY DEF PInv
<1>. QED BY <1>1, PoolInvariance, PTL

(* The pool's peak is its sum's, once no query is in add: no interleaving  *)
(* of the compare-and-swaps loses the highest.                             *)
THEOREM PeakIsNotLost == Spec => []PeakExact
<1>1. PInv => PeakExact
  BY DEF PInv, PeakComes, PeakExact
<1>. QED BY <1>1, PoolInvariance, PTL

-----------------------------------------------------------------------------
(* The pool's sum and its count.                                           *)

(* Where a query is fits how far it has joined or left, one that is not in *)
(* the pool yet has told nothing, and one that was over as room read the   *)
(* pool holds more than what the others it found leave it.                 *)
PhasesFit ==
  \A q \in Queries :
    /\ pc[q] \in {"count", "join", "room"} => state[q] = 1
    /\ pc[q] \in {"count", "join"} => told[q] = 0
    /\ pc[q] = "uncount" => state[q] = 2
    /\ Adding(q) => state[q] # 0
    /\ pc[q] = "room" /\ wasOver[q] => total[q] > Limit - others[q]

(* What each query has in the pool.                                        *)
Figures == [q \in Queries |-> IF q \in Joined THEN told[q] + pages[q] ELSE 0]

SumIsTheirs == held = SumFunctionOnSet(Figures, Queries)
CountIsTheirs == running = Cardinality(Counted)
OthersTyped == others \in [Queries -> Int] /\ wasOver \in [Queries -> BOOLEAN]

CInv == PInv /\ OthersTyped /\ PhasesFit /\ SumIsTheirs /\ CountIsTheirs

(* A query's figure is a number.                                           *)
LEMMA FigureType == ASSUME Typed PROVE \A q \in Queries : Figures[q] \in Int
BY DEF Figures, Typed

(* The sum that moves by what one query's figure moves is still the sum.   *)
LEMMA OneFigure ==
  ASSUME Typed, Typed', SumIsTheirs, NEW q \in Queries,
         \A r \in Queries : r # q => Figures'[r] = Figures[r],
         held' = held + Figures'[q] - Figures[q]
  PROVE  SumIsTheirs'
<1>1. \A r \in Queries : Figures[r] \in Int
  BY FigureType
<1>2. \A r \in Queries : Figures'[r] \in Int
  BY DEF Figures, Typed
<1>3. \A r \in Queries : Figures[r] \in Int /\ Figures'[r] \in Int
  BY <1>1, <1>2
<1>4. SumFunctionOnSet(Figures', Queries)
        = SumFunctionOnSet(Figures, Queries) - Figures[q] + Figures'[q]
  <2>1. IsFiniteSet(Queries)
    BY PoolAssumption
  <2>. QED BY <1>3, <2>1, SumChangesByOne
<1>5. SumFunctionOnSet(Figures, Queries) \in Int
  BY <1>1, PoolAssumption, SumIsInteger
<1>. QED BY <1>3, <1>4, <1>5 DEF SumIsTheirs

(* The count that moves by one, as one query comes or goes, is the count.  *)
LEMMA OneCounted ==
  ASSUME CountIsTheirs, NEW q \in Queries,
         \/ q \notin Counted /\ Counted' = Counted \union {q} /\ running' = running + 1
         \/ q \in Counted /\ Counted' = Counted \ {q} /\ running' = running - 1
         \/ Counted' = Counted /\ running' = running
  PROVE  CountIsTheirs'
<1>1. IsFiniteSet(Counted)
  BY PoolAssumption, FS_Subset DEF Counted
<1>2. /\ q \notin Counted => Cardinality(Counted \union {q}) = Cardinality(Counted) + 1
      /\ q \in Counted => Cardinality(Counted \ {q}) = Cardinality(Counted) - 1
  BY <1>1, FS_AddElement, FS_RemoveElement
<1>. QED BY <1>2 DEF CountIsTheirs

(* Nothing of the pool's at first.                                         *)
LEMMA CountedInit == ASSUME Init PROVE CInv
<1>1. PInv
  BY PInit
<1>2. OthersTyped /\ PhasesFit
  BY DEF Init, OthersTyped, PhasesFit, Adding
<1>3. Joined = {} /\ Counted = {}
  BY DEF Init, Joined, Counted
<1>4. SumIsTheirs
  <2>1. \A q \in Queries : Figures[q] = 0
    BY <1>3 DEF Figures
  <2>2. SumFunctionOnSet(Figures, Queries) = SumFunctionOnSet(Figures, {})
    BY <2>1, SumOverPart, PoolAssumption
  <2>. QED BY <2>2, SumOfNone DEF SumIsTheirs, Init
<1>5. CountIsTheirs
  BY <1>3, FS_EmptySet DEF CountIsTheirs, Init
<1>. QED BY <1>1, <1>2, <1>4, <1>5 DEF CInv

(* What a step of one query leaves of the others.                          *)
Alone(q) == \A r \in Queries : r # q =>
              /\ state'[r] = state[r] /\ total'[r] = total[r]
              /\ told'[r] = told[r] /\ pages'[r] = pages[r]
              /\ pc'[r] = pc[r] /\ others'[r] = others[r] /\ wasOver'[r] = wasOver[r]

(* The other queries' figures, phases and places in the count stay.        *)
LEMMA OthersStay ==
  ASSUME NEW q \in Queries, Alone(q)
  PROVE  \A r \in Queries : r # q =>
           /\ Figures'[r] = Figures[r]
           /\ r \in Joined' <=> r \in Joined
           /\ r \in Counted' <=> r \in Counted
BY DEF Alone, Figures, Joined, Counted, Free

(* A step of one query keeps CInv when it keeps its own part.              *)
LEMMA OneQueryKeeps ==
  ASSUME CInv, PInv', NEW q \in Queries, Alone(q), OthersTyped',
         /\ pc'[q] \in {"count", "join", "room"} => state'[q] = 1
         /\ pc'[q] \in {"count", "join"} => told'[q] = 0
         /\ pc'[q] = "uncount" => state'[q] = 2
         /\ pc'[q] \in {"load", "swap"} => state'[q] # 0
         /\ pc'[q] = "room" /\ wasOver'[q] => total'[q] > Limit - others'[q],
         held' = held + Figures'[q] - Figures[q],
         \/ q \notin Counted /\ q \in Counted' /\ running' = running + 1
         \/ q \in Counted /\ q \notin Counted' /\ running' = running - 1
         \/ (q \in Counted <=> q \in Counted') /\ running' = running
  PROVE  CInv'
<1>1. \A r \in Queries : r # q =>
        Figures'[r] = Figures[r] /\ (r \in Counted' <=> r \in Counted)
  BY OthersStay
<1>2. Counted \subseteq Queries /\ Counted' \subseteq Queries
  BY DEF Counted
<1>3. PhasesFit'
  BY DEF CInv, PhasesFit, Alone, Adding
<1>4. SumIsTheirs'
  BY <1>1, OneFigure DEF CInv, PInv
<1>5. CountIsTheirs'
  <2>1. \/ q \notin Counted /\ Counted' = Counted \union {q} /\ running' = running + 1
        \/ q \in Counted /\ Counted' = Counted \ {q} /\ running' = running - 1
        \/ Counted' = Counted /\ running' = running
    BY <1>1, <1>2
  <2>. QED BY <2>1, OneCounted DEF CInv
<1>. QED BY <1>3, <1>4, <1>5 DEF CInv

(* What a query's own part of CInv says of it, expanded for the steps.     *)
LEMMA OwnPart ==
  ASSUME CInv, NEW q \in Queries
  PROVE  /\ state[q] \in 0..2 /\ told[q] \in Int /\ pages[q] \in Nat /\ total[q] \in Nat
         /\ held \in Int /\ pc[q] \in Points /\ running \in Int
         /\ pc[q] \in {"count", "join", "room"} => state[q] = 1
         /\ pc[q] \in {"count", "join"} => told[q] = 0
         /\ pc[q] = "uncount" => state[q] = 2
         /\ pc[q] \in {"load", "swap"} => state[q] # 0
         /\ Figures[q] = IF state[q] = 1 /\ pc[q] \notin {"count", "join"}
                         THEN told[q] + pages[q] ELSE 0
         /\ q \in Counted <=> \/ state[q] = 1 /\ pc[q] # "count"
                              \/ state[q] = 2 /\ pc[q] \notin {"idle", "over"}
         /\ others[q] \in Int /\ wasOver[q] \in BOOLEAN
<1>1. running \in Int
  <2>1. IsFiniteSet(Counted)
    BY PoolAssumption, FS_Subset DEF Counted
  <2>. QED BY <2>1, FS_CardinalityType DEF CInv, CountIsTheirs
<1>. QED
  BY <1>1 DEF CInv, PInv, Typed, PhasesFit, OthersTyped, Figures, Joined, Counted, Free, Adding

(* Every step keeps CInv.                                                  *)
LEMMA CountedStep == ASSUME CInv, Next PROVE CInv'
<1>0. PInv'
  BY PStep DEF CInv
<1>t. Typed /\ Typed' /\ OthersTyped
  BY <1>0 DEF CInv, PInv
<1>f. \A q \in Queries :
        Figures'[q] = IF state'[q] = 1 /\ pc'[q] \notin {"count", "join"}
                      THEN told'[q] + pages'[q] ELSE 0
  BY DEF Figures, Joined
<1>c. \A q \in Queries :
        q \in Counted' <=> \/ state'[q] = 1 /\ pc'[q] # "count"
                           \/ state'[q] = 2 /\ pc'[q] \notin {"idle", "over"}
  BY DEF Counted, Free
<1>1. ASSUME NEW q \in Queries, JoinState(q) PROVE CInv'
  <2>1. /\ state[q] = 0 /\ pc[q] = "idle" /\ state'[q] = 1 /\ pc'[q] = "count"
        /\ told[q] = 0 /\ told'[q] = 0 /\ held' = held /\ running' = running
        /\ Alone(q) /\ OthersTyped'
    BY <1>1, <1>t DEF JoinState, CInv, PInv, NothingBefore, Typed, OthersTyped, Alone, pool, ghost
  <2>. QED BY <1>0, <1>f, <1>c, <2>1, OwnPart, OneQueryKeeps
<1>2. ASSUME NEW q \in Queries, JoinCount(q) PROVE CInv'
  <2>1. /\ pc[q] = "count" /\ pc'[q] = "join" /\ state' = state /\ told' = told /\ pages' = pages
        /\ held' = held /\ running' = running + 1
        /\ Alone(q) /\ OthersTyped'
    BY <1>2, <1>t DEF JoinCount, Typed, OthersTyped, Alone, share, ghost
  <2>. QED BY <1>0, <1>f, <1>c, <2>1, OwnPart, OneQueryKeeps
<1>3. ASSUME NEW q \in Queries, JoinTell(q) PROVE CInv'
  <2>1. /\ pc[q] = "join" /\ pc'[q] = "load" /\ state' = state /\ told' = told /\ pages' = pages
        /\ held' = held + pages[q] /\ running' = running
        /\ Alone(q) /\ OthersTyped'
    BY <1>3, <1>t DEF JoinTell, Add, Typed, OthersTyped, Alone, share
  <2>. QED BY <1>0, <1>f, <1>c, <2>1, OwnPart, OneQueryKeeps
<1>4. ASSUME NEW q \in Queries, Leave(q) PROVE CInv'
  <2>1. /\ pc[q] \in {"idle", "over"} /\ state[q] = 1
        /\ pc'[q] = "load" /\ state'[q] = 2 /\ told'[q] = 0 /\ pages' = pages
        /\ held' = held + (-told[q] - pages[q]) /\ running' = running
        /\ Alone(q) /\ OthersTyped'
    BY <1>4, <1>t DEF Leave, Free, Add, Typed, OthersTyped, Alone
  <2>. QED BY <1>0, <1>f, <1>c, <2>1, OwnPart, OneQueryKeeps
<1>5. ASSUME NEW q \in Queries, LeaveCount(q) PROVE CInv'
  <2>1. /\ pc[q] = "uncount" /\ pc'[q] = "idle" /\ state' = state /\ told' = told /\ pages' = pages
        /\ held' = held /\ running' = running - 1
        /\ Alone(q) /\ OthersTyped'
    BY <1>5, <1>t DEF LeaveCount, Typed, OthersTyped, Alone, share, ghost
  <2>. QED BY <1>0, <1>f, <1>c, <2>1, OwnPart, OneQueryKeeps
<1>6. ASSUME NEW q \in Queries, PeakLoad(q) \/ PeakSwap(q) PROVE CInv'
  <2>1. /\ pc[q] \in {"load", "swap"} /\ UNCHANGED <<share, held, running, others, wasOver>>
        /\ \/ pc'[q] \in {"load", "swap"}
           \/ pc'[q] = IF state[q] = 2 THEN "uncount" ELSE "idle"
        /\ Alone(q) /\ OthersTyped'
    BY <1>6, <1>t
       DEF PeakLoad, PeakSwap, AddReturns, Typed, OthersTyped, Alone, share, pool, ghost
  <2>2. state' = state /\ told' = told /\ pages' = pages /\ held' = held /\ running' = running
    BY <2>1 DEF share
  <2>. QED BY <1>0, <1>f, <1>c, <2>1, <2>2, OwnPart, OneQueryKeeps
<1>7. ASSUME NEW q \in Queries, NEW d \in -MaxTotal..MaxTotal, Hold(q, d) PROVE CInv'
  <2>. DEFINE t == total[q] + d
  <2>0. t \in Int
    BY <1>t, PoolAssumption DEF Typed
  <2>1. /\ pc[q] \in {"idle", "over"} /\ state[q] # 0 /\ Tell(q, t)
        /\ state' = state /\ pages' = pages /\ running' = running
        /\ \A r \in Queries : r # q => total'[r] = total[r]
        /\ OthersTyped' /\ UNCHANGED <<others, wasOver>>
    BY <1>7, <1>t DEF Hold, Free, OthersTyped, Typed
  <2>. HIDE DEF t
  <2>2. CASE state[q] = 1 /\ (t - told[q] >= Grain \/ t - told[q] <= -Grain)
    <3>1. told' = [told EXCEPT ![q] = t] /\ Add(q, t - told[q])
      BY <2>1, <2>2 DEF Tell
    <3>2. /\ told'[q] = t /\ held' = held + (t - told[q]) /\ pc'[q] = "load"
          /\ Alone(q)
      BY <1>t, <2>1, <3>1 DEF Add, Typed, Alone
    <3>. QED BY <1>0, <1>f, <1>c, <2>0, <2>1, <2>2, <3>2, OwnPart, OneQueryKeeps
  <2>3. CASE ~(state[q] = 1 /\ (t - told[q] >= Grain \/ t - told[q] <= -Grain))
    <3>1. UNCHANGED <<told, held, pc>> /\ Alone(q)
      BY <2>1, <2>3 DEF Tell, AddNothing, Alone
    <3>. QED BY <1>0, <1>f, <1>c, <2>1, <3>1, OwnPart, OneQueryKeeps
  <2>. QED BY <2>2, <2>3
<1>8. ASSUME NEW q \in Queries, NEW d \in -MaxPages..MaxPages, Pressure(q, d) PROVE CInv'
  <2>1. /\ pc[q] \in {"idle", "over"} /\ pages'[q] = pages[q] + d /\ d \in Int
        /\ state' = state /\ told' = told /\ total' = total /\ running' = running
        /\ \A r \in Queries : r # q => pages'[r] = pages[r]
        /\ OthersTyped' /\ UNCHANGED <<others, wasOver>>
    BY <1>8, <1>t, PoolAssumption DEF Pressure, Free, OthersTyped, Typed
  <2>2. CASE state[q] = 1
    <3>1. pc'[q] = "load" /\ held' = held + d /\ Alone(q)
      BY <1>8, <1>t, <2>1, <2>2 DEF Pressure, Add, Typed, Alone
    <3>. QED BY <1>0, <1>f, <1>c, <2>1, <2>2, <3>1, OwnPart, OneQueryKeeps
  <2>3. CASE state[q] # 1
    <3>1. UNCHANGED <<held, pc>> /\ Alone(q)
      BY <1>8, <2>1, <2>3 DEF Pressure, AddNothing, Alone
    <3>. QED BY <1>0, <1>f, <1>c, <2>1, <2>3, <3>1, OwnPart, OneQueryKeeps
  <2>. QED BY <2>2, <2>3
<1>9. ASSUME NEW q \in Queries, OverHeld(q) PROVE CInv'
  <2>1. /\ pc[q] \in {"idle", "over"} /\ state[q] = 1 /\ pc'[q] = "room"
        /\ UNCHANGED <<state, told, pages, total, held, running>>
        /\ others'[q] = Rest(q) /\ wasOver'[q] = (total[q] > Room(q))
        /\ Alone(q)
    BY <1>9, <1>t DEF OverHeld, Free, Typed, OthersTyped, Alone, share, pool
  <2>2. Rest(q) \in Int
    BY <1>t DEF Rest, Typed
  <2>3. OthersTyped'
    BY <1>9, <1>t, <2>2 DEF OverHeld, OthersTyped
  <2>4. wasOver'[q] => total[q] > Limit - Rest(q)
    <3>1. running \in Int /\ Limit \in Nat /\ total[q] \in Nat
      BY OwnPart, PoolAssumption
    <3>. DEFINE evenly == Limit \div Larger(running, 1)
    <3>2. evenly \in Int
      BY <3>1 DEF Larger
    <3>. HIDE DEF evenly
    <3>3. Room(q) = Larger(Limit - Rest(q), evenly)
      BY <2>1 DEF Room, RoomOf, evenly
    <3>4. wasOver'[q] => total[q] > Room(q)
      BY <2>1
    <3>5. Room(q) \in Int /\ Room(q) >= Limit - Rest(q)
      BY <2>2, <3>1, <3>2, <3>3 DEF Larger
    <3>. QED BY <2>2, <3>1, <3>4, <3>5
  <2>. QED BY <1>0, <1>f, <1>c, <2>1, <2>3, <2>4, OwnPart, OneQueryKeeps
<1>10. ASSUME NEW q \in Queries, OverRunning(q) PROVE CInv'
  <2>1. /\ pc[q] = "room" /\ pc'[q] \in {"idle", "over"}
        /\ UNCHANGED <<state, told, pages, total, held, running>>
        /\ Alone(q) /\ OthersTyped'
    BY <1>10, <1>t DEF OverRunning, Typed, OthersTyped, Alone, share, pool
  <2>. QED BY <1>0, <1>f, <1>c, <2>1, OwnPart, OneQueryKeeps
<1>. QED
  BY <1>1, <1>2, <1>3, <1>4, <1>5, <1>6, <1>7, <1>8, <1>9, <1>10 DEF Next

(* CInv always holds.                                                      *)
LEMMA CountedInvariance == Spec => []CInv
<1>1. Init => CInv
  BY CountedInit
<1>2. CInv /\ [Next]_vars => CInv'
  <2>. SUFFICES ASSUME CInv, UNCHANGED vars PROVE CInv'
    BY CountedStep
  <2>1. PInv'
    BY PStep DEF CInv
  <2>. QED
    BY <2>1 DEF vars, share, pool, local, ghost, CInv, OthersTyped, PhasesFit, Adding,
                SumIsTheirs, CountIsTheirs, Figures, Joined, Counted, Free
<1>. QED BY <1>1, <1>2, PTL DEF Spec

(* The pool's sum and count are its running queries' and nothing else's,   *)
(* however many join, leave and are cleaned up after in whatever order.    *)
THEOREM PoolIsExact == Spec => []PoolExact
<1>1. CInv => PoolExact
  <2>. SUFFICES ASSUME CInv PROVE PoolExact
    OBVIOUS
  <2>. DEFINE figure == [q \in Queries |-> told[q] + pages[q]]
  <2>1. \A q \in Queries : /\ figure[q] \in Int
                           /\ Figures[q] = IF q \in Joined THEN figure[q] ELSE 0
    BY DEF CInv, PInv, Typed, Figures
  <2>2. IsFiniteSet(Queries) /\ Joined \in SUBSET Queries
    BY PoolAssumption DEF Joined
  <2>3. SumFunctionOnSet(Figures, Queries) = SumFunctionOnSet(figure, Joined)
    <3>. HIDE DEF figure
    <3>. QED BY <2>1, <2>2, SumOverPart
  <2>. QED BY <2>3 DEF CInv, SumIsTheirs, CountIsTheirs, PoolExact
<1>. QED BY <1>1, CountedInvariance, PTL

(* A query that is over at both of room's reads of the pool is told so,    *)
(* whatever the others do in between.                                      *)
THEOREM OverIsNotMissed == Spec => OverIsSeen
<1>1. CInv /\ [Next]_vars
        => [\A q \in Queries :
              pc[q] = "room" /\ wasOver[q] /\ total[q] > Room(q)
                => pc'[q] \in {"room", "over"}]_vars
  <2>. SUFFICES ASSUME CInv, Next, NEW q \in Queries,
                       pc[q] = "room", wasOver[q], total[q] > Room(q)
                PROVE  pc'[q] \in {"room", "over"}
    OBVIOUS
  <2>1. CASE OverRunning(q)
    <3>1. running \in Int /\ Limit \in Nat /\ total[q] \in Nat /\ others[q] \in Int /\ state[q] = 1
      BY OwnPart, PoolAssumption
    <3>2. total[q] > Limit - others[q]
      BY DEF CInv, PhasesFit
    <3>. DEFINE evenly == Limit \div Larger(running, 1)
    <3>3. evenly \in Int
      BY <3>1 DEF Larger
    <3>. HIDE DEF evenly
    <3>4. Room(q) = Larger(Limit - Rest(q), evenly) /\ Rest(q) \in Int
      BY <3>1 DEF Room, RoomOf, evenly, Rest, CInv, PInv, Typed
    <3>5. total[q] > evenly
      BY <3>1, <3>3, <3>4 DEF Larger
    <3>6. total[q] > RoomOf(others[q], running)
      <4>1. RoomOf(others[q], running) = Larger(Limit - others[q], evenly)
        BY DEF RoomOf, evenly
      <4>. QED BY <3>1, <3>2, <3>3, <3>5, <4>1 DEF Larger
    <3>. QED BY <2>1, <3>6 DEF OverRunning, CInv, PInv, Typed
  <2>2. CASE ~OverRunning(q)
    <3>1. pc'[q] = pc[q]
      BY <2>2 DEF Next, JoinState, JoinCount, JoinTell, Leave, LeaveCount, PeakLoad, PeakSwap,
                  Hold, Pressure, OverHeld, OverRunning, Free, Tell, Add, AddNothing, AddReturns,
                  CInv, PInv, Typed
    <3>. QED BY <3>1
  <2>. QED BY <2>1, <2>2
<1>. QED BY <1>1, CountedInvariance, PTL DEF Spec, OverIsSeen

-----------------------------------------------------------------------------
(* Someone is over.                                                        *)

(* When no query of R is over its room, whatever R they are, the pool is   *)
(* not past its limit by more than what a grain each leaves untold: were   *)
(* all within an even share they would be within the limit together, and   *)
(* one that is past it is within what the others leave, by what it was     *)
(* told of them.                                                           *)
LEMMA RoomsFit ==
  ASSUME NEW R, IsFiniteSet(R), R # {},
         NEW T, NEW F, NEW L \in Nat, NEW G \in Nat \ {0},
         \A q \in R : T[q] \in Nat /\ F[q] \in Int /\ T[q] <= F[q] + (G - 1),
         \A q \in R : \/ T[q] <= L \div Cardinality(R)
                      \/ T[q] <= L - (SumFunctionOnSet(F, R) - F[q])
  PROVE  SumFunctionOnSet(T, R) <= L + Cardinality(R) * (G - 1)
<1>. DEFINE n == Cardinality(R)
            S(f) == SumFunctionOnSet(f, R)
<1>1. n \in Nat /\ n > 0
  BY FS_CardinalityType, FS_EmptySet
<1>2. n * (L \div n) <= L /\ L \div n \in Nat /\ n * (L \div n) \in Nat
  <2>. HIDE DEF n
  <2>. QED BY <1>1
<1>3. n * (G - 1) \in Nat
  <2>. HIDE DEF n
  <2>. QED BY <1>1
<1>4. S(T) \in Int /\ S(F) \in Int
  <2>1. \A q \in R : T[q] \in Int
    OBVIOUS
  <2>2. \A q \in R : F[q] \in Int
    OBVIOUS
  <2>3. R \in SUBSET R
    OBVIOUS
  <2>. QED BY <2>1, <2>2, <2>3, SumIsInteger
<1>5. CASE \A q \in R : T[q] <= L \div n
  <2>. DEFINE zero == [q \in R |-> 0]
              k == L \div n
  <2>1. \A q \in R : T[q] \in Int /\ zero[q] \in Int /\ T[q] <= zero[q] + k
    BY <1>2, <1>5
  <2>2. k \in Int
    BY <1>2
  <2>3. S(zero) = 0
    <3>1. {} \in SUBSET R /\ \A q \in R : zero[q] \in Int /\ zero[q] = IF q \in {} THEN zero[q] ELSE 0
      OBVIOUS
    <3>. HIDE DEF zero
    <3>2. SumFunctionOnSet(zero, R) = SumFunctionOnSet(zero, {})
      BY <3>1, SumOverPart
    <3>. QED BY <3>2, SumOfNone
  <2>4. S(T) <= S(zero) + n * k
    <3>. HIDE DEF zero, k
    <3>. QED BY <2>1, <2>2, SumWithin
  <2>5. n * k <= L /\ n * k \in Nat
    BY <1>2
  <2>. HIDE DEF k, n, S, zero
  <2>. QED BY <1>3, <1>4, <2>3, <2>4, <2>5 DEF n, S
<1>6. ASSUME NEW q \in R, ~(T[q] <= L \div n)
      PROVE  S(T) <= L + n * (G - 1)
  <2>. DEFINE Q == R \ {q}
              k == G - 1
  <2>1. T[q] <= L - (S(F) - F[q])
    BY <1>6
  <2>2. S(T) = T[q] + SumFunctionOnSet(T, Q) /\ S(F) = F[q] + SumFunctionOnSet(F, Q)
    <3>1. \A r \in R : T[r] \in Int
      OBVIOUS
    <3>2. \A r \in R : F[r] \in Int
      OBVIOUS
    <3>3. R \in SUBSET R
      OBVIOUS
    <3>. QED BY <3>1, <3>2, <3>3, SumByElement
  <2>3. IsFiniteSet(Q) /\ Cardinality(Q) = n - 1
    BY FS_RemoveElement
  <2>4. SumFunctionOnSet(T, Q) <= SumFunctionOnSet(F, Q) + Cardinality(Q) * k
    <3>1. \A r \in Q : T[r] \in Int /\ F[r] \in Int /\ T[r] <= F[r] + k
      OBVIOUS
    <3>2. k \in Int
      OBVIOUS
    <3>. HIDE DEF Q, k
    <3>. QED BY <2>3, <3>1, <3>2, SumWithin
  <2>5. (n - 1) * k <= n * k /\ (n - 1) * k \in Int /\ n * k \in Int /\ k \in Nat
    <3>. HIDE DEF n
    <3>. QED BY <1>1
  <2>6. SumFunctionOnSet(T, Q) \in Int /\ SumFunctionOnSet(F, Q) \in Int
    <3>1. \A r \in R : T[r] \in Int
      OBVIOUS
    <3>2. \A r \in R : F[r] \in Int
      OBVIOUS
    <3>. QED BY <3>1, <3>2, SumIsInteger
  <2>7. T[q] \in Int /\ F[q] \in Int
    OBVIOUS
  <2>8. T[q] + SumFunctionOnSet(T, Q) <= L + n * k
    <3>. HIDE DEF n, k, Q, S
    <3>1. SumFunctionOnSet(T, Q) <= SumFunctionOnSet(F, Q) + n * k
      BY <2>3, <2>4, <2>5, <2>6
    <3>2. T[q] <= L - SumFunctionOnSet(F, Q)
      BY <2>1, <2>2, <2>6, <2>7
    <3>. QED BY <2>5, <2>6, <2>7, <3>1, <3>2
  <2>. QED BY <2>2, <2>8
<1>. QED BY <1>5, <1>6

(* The pool is never past its limit with no query to spill: once the       *)
(* operators hold more than it, by more than the grains untold, one of the *)
(* queries is over its room.                                               *)
THEOREM SomeoneIsOver == Spec => []SomeoneOver
<1>1. CInv /\ PoolExact => SomeoneOver
  <2>. SUFFICES ASSUME CInv, PoolExact, Quiet,
                       NEW R, R = {q \in Queries : state[q] = 1},
                       \A q \in R : ~(total[q] > Room(q)),
                       SumFunctionOnSet(total, R) > Limit + Cardinality(R) * (Grain - 1)
                PROVE  FALSE
    BY DEF SomeoneOver
  <2>. DEFINE figure == [q \in Queries |-> told[q] + pages[q]]
  <2>1. Joined = R /\ Counted = R
    BY DEF Quiet, Free, Joined, Counted
  <2>2. held = SumFunctionOnSet(figure, R) /\ running = Cardinality(R) /\ IsFiniteSet(R)
    BY <2>1, PoolAssumption, FS_Subset DEF PoolExact
  <2>3. \A q \in R : q \in Queries /\ state[q] = 1
    OBVIOUS
  <2>4. ASSUME NEW q \in R
        PROVE  /\ total[q] \in Nat /\ figure[q] \in Int
               /\ total[q] <= figure[q] + (Grain - 1)
    BY <2>3, PoolAssumption DEF CInv, PInv, Typed, ToldToAGrain
  <2>5. R # {}
    <3>1. ASSUME R = {} PROVE FALSE
      <4>1. SumFunctionOnSet(total, R) = 0 /\ Cardinality(R) = 0
        BY <3>1, SumOfNone, FS_EmptySet
      <4>2. 0 * (Grain - 1) = 0 /\ Limit \in Nat
        BY PoolAssumption
      <4>. QED BY <4>1, <4>2
    <3>. QED BY <3>1
  <2>6. running \in Nat /\ running > 0
    BY <2>2, <2>5, FS_CardinalityType, FS_EmptySet
  <2>7. ASSUME NEW q \in R
        PROVE  \/ total[q] <= Limit \div Cardinality(R)
               \/ total[q] <= Limit - (SumFunctionOnSet(figure, R) - figure[q])
    <3>. DEFINE evenly == Limit \div running
                rest == Limit - (held - told[q] - pages[q])
    <3>1. Larger(running, 1) = running
      BY <2>6 DEF Larger
    <3>2. Room(q) = Larger(rest, evenly)
      BY <2>3, <3>1 DEF Room, RoomOf, Rest
    <3>3. evenly \in Int /\ Limit \in Nat
      BY <2>6, PoolAssumption
    <3>4. held \in Int /\ told[q] \in Int /\ pages[q] \in Int /\ total[q] \in Int
      BY <2>3 DEF CInv, PInv, Typed
    <3>5. ~(total[q] > Room(q))
      OBVIOUS
    <3>6. total[q] <= evenly \/ total[q] <= rest
      <4>1. rest \in Int
        BY <3>3, <3>4
      <4>. HIDE DEF evenly, rest
      <4>. QED BY <3>2, <3>3, <3>4, <3>5, <4>1 DEF Larger
    <3>7. figure[q] = told[q] + pages[q]
      BY <2>3
    <3>8. rest = Limit - (held - figure[q])
      BY <3>3, <3>4, <3>7
    <3>. QED BY <2>2, <3>6, <3>8
  <2>8. SumFunctionOnSet(total, R) <= Limit + Cardinality(R) * (Grain - 1)
    <3>1. \A q \in R : total[q] \in Nat /\ figure[q] \in Int /\ total[q] <= figure[q] + (Grain - 1)
      BY <2>4
    <3>2. \A q \in R : \/ total[q] <= Limit \div Cardinality(R)
                       \/ total[q] <= Limit - (SumFunctionOnSet(figure, R) - figure[q])
      BY <2>7
    <3>3. Limit \in Nat /\ Grain \in Nat \ {0}
      BY PoolAssumption
    <3>. HIDE DEF figure
    <3>. QED BY <2>2, <2>5, <3>1, <3>2, <3>3, RoomsFit
  <2>9. SumFunctionOnSet(total, R) \in Int /\ Cardinality(R) * (Grain - 1) \in Int /\ Limit \in Int
    <3>1. \A q \in R : total[q] \in Int
      BY <2>4
    <3>2. R \in SUBSET R
      OBVIOUS
    <3>3. SumFunctionOnSet(total, R) \in Int
      BY <2>2, <3>1, <3>2, SumIsInteger
    <3>4. Cardinality(R) * (Grain - 1) \in Int
      BY <2>2, <2>6, PoolAssumption
    <3>. QED BY <3>3, <3>4, PoolAssumption
  <2>. QED BY <2>8, <2>9
<1>. QED BY <1>1, CountedInvariance, PoolIsExact, PTL

-----------------------------------------------------------------------------
(* The threads.                                                            *)

(* What a query's variables say of each other, at each point.              *)
Phases ==
  \A q \in Sharers :
    /\ phase[q] = "idle" => got[q] = 0
    /\ phase[q] = "sharing" => got[q] = 0 /\ ~given[q] /\ divisor[q] >= 1
    /\ phase[q] = "running" /\ ~given[q] /\ got[q] > 1 =>
         divisor[q] >= 1 /\ got[q] <= Threads \div divisor[q]

(* The counted queries that divided the threads by k or less.              *)
DividedBy(k) == {q \in OnSeveral : ~given[q] /\ divisor[q] <= k}
FewDivide == \A k \in Nat : Cardinality(DividedBy(k)) <= k

ThreadsTyped ==
  /\ phase \in [Sharers -> {"idle", "sharing", "running"}]
  /\ want \in [Sharers -> 0..MaxWant]
  /\ given \in [Sharers -> BOOLEAN]
  /\ divisor \in [Sharers -> Nat]
  /\ got \in [Sharers -> 0..MaxWant]

TInv == ThreadsTyped /\ Phases /\ ParallelExact /\ FewDivide

(* Division, as shares use it.                                             *)
LEMMA Division ==
  ASSUME NEW T \in Nat, NEW a \in Nat \ {0}
  PROVE  /\ T \div a \in Nat
         /\ (T \div a) * a <= T
         /\ \A b \in Nat : b * a <= T => b <= T \div a
OBVIOUS

(* Products, which the provers do not order by themselves.                 *)
LEMMA Products ==
  ASSUME NEW a \in Nat, NEW b \in Nat, NEW c \in Nat, a <= b
  PROVE  a * c <= b * c /\ c * a <= c * b /\ a * c = c * a
OBVIOUS

(* The counted queries are finitely many.                                  *)
LEMMA OnSeveralFinite == IsFiniteSet(OnSeveral) /\ Cardinality(OnSeveral) \in Nat
<1>1. IsFiniteSet(OnSeveral)
  BY ThreadsAssumption, FS_Subset DEF OnSeveral
<1>. QED BY <1>1, FS_CardinalityType

(* One query more or one less is counted, or none.                         *)
LEMMA OneOnSeveral ==
  ASSUME NEW S, IsFiniteSet(S), NEW q
  PROVE  /\ q \notin S => Cardinality(S \union {q}) = Cardinality(S) + 1
         /\ q \in S => Cardinality(S \ {q}) = Cardinality(S) - 1
  BY FS_AddElement, FS_RemoveElement

(* Fewer counted queries, with the divisors they had, are still few.       *)
LEMMA FewerDivide ==
  ASSUME FewDivide, OnSeveral' \subseteq OnSeveral,
         \A q \in OnSeveral' : given'[q] = given[q] /\ divisor'[q] = divisor[q]
  PROVE  FewDivide'
<1>. SUFFICES ASSUME NEW k \in Nat PROVE Cardinality(DividedBy(k)') <= k
  BY DEF FewDivide
<1>1. DividedBy(k)' \subseteq DividedBy(k) /\ IsFiniteSet(DividedBy(k))
  BY OnSeveralFinite, FS_Subset DEF DividedBy
<1>2. /\ Cardinality(DividedBy(k)') <= Cardinality(DividedBy(k))
      /\ Cardinality(DividedBy(k)') \in Nat /\ Cardinality(DividedBy(k)) \in Nat
  BY <1>1, FS_Subset, FS_CardinalityType
<1>. QED BY <1>2 DEF FewDivide

(* The initial state.                                                      *)
LEMMA TInit == ASSUME ThreadsInit PROVE TInv
<1>1. OnSeveral = {} /\ \A k : DividedBy(k) = {}
  BY DEF ThreadsInit, OnSeveral, DividedBy
<1>2. Cardinality({}) = 0
  BY FS_EmptySet
<1>. QED
  BY <1>1, <1>2, ThreadsAssumption DEF ThreadsInit, TInv, ThreadsTyped, Phases, ParallelExact, FewDivide

(* share's first access: the query divides by one more than those counted. *)
LEMMA AddInv ==
  ASSUME TInv, NEW q \in Sharers, NEW w \in 1..MaxWant, ShareAdd(q, w)
  PROVE  TInv'
<1>. USE DEF TInv
<1>1. /\ phase[q] = "idle" /\ phase'[q] = "sharing" /\ divisor'[q] = parallel + 1
      /\ got'[q] = 0 /\ given'[q] = FALSE /\ parallel' = parallel + 1
      /\ \A r \in Sharers : r # q =>
           phase'[r] = phase[r] /\ got'[r] = got[r] /\ given'[r] = given[r] /\ divisor'[r] = divisor[r]
  BY DEF ShareAdd, Start, ThreadsTyped
<1>2. q \notin OnSeveral /\ OnSeveral' = OnSeveral \union {q}
  BY <1>1 DEF OnSeveral, Phases, ThreadsTyped
<1>3. Cardinality(OnSeveral') = Cardinality(OnSeveral) + 1 /\ parallel = Cardinality(OnSeveral)
      /\ parallel \in Nat
  BY <1>2, OnSeveralFinite, OneOnSeveral DEF ParallelExact
<1>4. ThreadsTyped'
  BY <1>3, ThreadsAssumption DEF ShareAdd, Start, ThreadsTyped
<1>5. Phases'
  BY <1>1, <1>3 DEF Phases
<1>6. ParallelExact'
  BY <1>1, <1>3 DEF ParallelExact
<1>7. FewDivide'
  <2>. SUFFICES ASSUME NEW k \in Nat PROVE Cardinality(DividedBy(k)') <= k
    BY DEF FewDivide
  <2>1. /\ IsFiniteSet(DividedBy(k)) /\ Cardinality(DividedBy(k)) <= Cardinality(OnSeveral)
        /\ Cardinality(DividedBy(k)) \in Nat
    BY OnSeveralFinite, FS_Subset, FS_CardinalityType DEF DividedBy
  <2>2. CASE parallel + 1 <= k
    <3>1. DividedBy(k)' = DividedBy(k) \union {q} /\ q \notin DividedBy(k)
      BY <1>1, <1>2, <2>2 DEF DividedBy, OnSeveral
    <3>2. Cardinality(DividedBy(k)') = Cardinality(DividedBy(k)) + 1
      BY <3>1, <2>1, OneOnSeveral
    <3>. QED BY <3>2, <2>1, <2>2, <1>3
  <2>3. CASE ~(parallel + 1 <= k)
    <3>1. DividedBy(k)' = DividedBy(k)
      BY <1>1, <1>2, <2>3 DEF DividedBy, OnSeveral
    <3>. QED BY <3>1 DEF FewDivide
  <2>. QED BY <2>2, <2>3
<1>. QED BY <1>4, <1>5, <1>6, <1>7

(* A query that takes no share: hold, or share of one thread.              *)
LEMMA HoldInv ==
  ASSUME TInv, NEW q \in Sharers, NEW w \in 1..MaxWant, NEW g \in BOOLEAN,
         Start(q, w, g, 0, w, "running"), g \/ w = 1,
         parallel' = parallel + IF w > 1 THEN 1 ELSE 0
  PROVE  TInv'
<1>. USE DEF TInv
<1>1. /\ phase[q] = "idle" /\ phase'[q] = "running" /\ got'[q] = w /\ given'[q] = g /\ got[q] = 0
      /\ \A r \in Sharers : r # q =>
           phase'[r] = phase[r] /\ got'[r] = got[r] /\ given'[r] = given[r] /\ divisor'[r] = divisor[r]
  BY DEF Start, ThreadsTyped, Phases
<1>2. q \notin OnSeveral /\ OnSeveral' = IF w > 1 THEN OnSeveral \union {q} ELSE OnSeveral
  BY <1>1 DEF OnSeveral, ThreadsTyped
<1>3. ThreadsTyped' /\ Phases'
  BY <1>1, ThreadsAssumption DEF Start, ThreadsTyped, Phases
<1>4. ParallelExact'
  BY <1>2, OnSeveralFinite, OneOnSeveral DEF ParallelExact
<1>5. \A k : DividedBy(k)' = DividedBy(k)
  BY <1>1, <1>2 DEF DividedBy, OnSeveral
<1>6. FewDivide'
  BY <1>5 DEF FewDivide
<1>. QED BY <1>3, <1>4, <1>6

(* share's second access.                                                  *)
LEMMA EndInv ==
  ASSUME TInv, NEW q \in Sharers, ShareEnd(q)
  PROVE  TInv'
<1>. USE DEF TInv
<1>1. /\ phase[q] = "sharing" /\ phase'[q] = "running" /\ ~given[q] /\ divisor[q] >= 1
      /\ got'[q] = ShareOf(divisor[q], want[q]) /\ got[q] = 0
      /\ parallel' = parallel - IF got'[q] <= 1 THEN 1 ELSE 0
      /\ UNCHANGED <<want, given, divisor>>
      /\ \A r \in Sharers : r # q => phase'[r] = phase[r] /\ got'[r] = got[r]
  BY DEF ShareEnd, ThreadsTyped, Phases
<1>2. Threads \div divisor[q] \in Nat
  BY <1>1, ThreadsAssumption, Division DEF ThreadsTyped
<1>3. got'[q] \in 0..MaxWant /\ (got'[q] > 1 => got'[q] <= Threads \div divisor[q])
  BY <1>1, <1>2, ThreadsAssumption DEF ShareOf, AtLeastOne, ThreadsTyped
<1>4. q \in OnSeveral /\ OnSeveral' = IF got'[q] > 1 THEN OnSeveral ELSE OnSeveral \ {q}
  BY <1>1, <1>3 DEF OnSeveral, ThreadsTyped
<1>5. ThreadsTyped' /\ Phases'
  BY <1>1, <1>3 DEF ShareEnd, ThreadsTyped, Phases
<1>6. ParallelExact'
  BY <1>1, <1>3, <1>4, OnSeveralFinite, OneOnSeveral DEF ParallelExact
<1>7. FewDivide'
  BY <1>1, <1>4, FewerDivide
<1>. QED BY <1>5, <1>6, <1>7

(* A query ends.                                                           *)
LEMMA ReleaseInv ==
  ASSUME TInv, NEW q \in Sharers, Release(q)
  PROVE  TInv'
<1>. USE DEF TInv
<1>1. /\ phase[q] = "running" /\ phase'[q] = "idle" /\ got'[q] = 0 /\ got[q] \in Nat
      /\ parallel' = parallel - IF got[q] > 1 THEN 1 ELSE 0
      /\ \A r \in Sharers : r # q =>
           phase'[r] = phase[r] /\ got'[r] = got[r] /\ given'[r] = given[r] /\ divisor'[r] = divisor[r]
  BY DEF Release, ThreadsTyped
<1>2. OnSeveral' = OnSeveral \ {q} /\ (q \in OnSeveral <=> got[q] > 1)
  BY <1>1 DEF OnSeveral, ThreadsTyped
<1>3. ThreadsTyped' /\ Phases'
  BY <1>1, ThreadsAssumption DEF Release, ThreadsTyped, Phases
<1>4. ParallelExact'
  <2>1. CASE q \in OnSeveral
    BY <2>1, <1>1, <1>2, OnSeveralFinite, OneOnSeveral DEF ParallelExact
  <2>2. CASE q \notin OnSeveral
    <3>1. OnSeveral' = OnSeveral
      BY <2>2, <1>2
    <3>. QED BY <3>1, <2>2, <1>1, <1>2, OnSeveralFinite DEF ParallelExact
  <2>. QED BY <2>1, <2>2
<1>5. FewDivide'
  BY <1>1, <1>2, FewerDivide DEF OnSeveral
<1>. QED BY <1>3, <1>4, <1>5

(* Every step keeps TInv.                                                  *)
LEMMA TStep == ASSUME TInv, [ThreadsNext]_threadVars PROVE TInv'
<1>1. ASSUME NEW q \in Sharers, NEW w \in 1..MaxWant, HoldThreads(q, w) PROVE TInv'
  BY <1>1, HoldInv DEF HoldThreads
<1>2. ASSUME NEW q \in Sharers, NEW w \in 1..MaxWant, ShareAdd(q, w) PROVE TInv'
  BY <1>2, AddInv
<1>3. ASSUME NEW q \in Sharers, ShareOne(q) PROVE TInv'
  <2>1. 1 \in 1..MaxWant
    BY ThreadsAssumption
  <2>2. parallel' = parallel + IF 1 > 1 THEN 1 ELSE 0
    BY <1>3, OnSeveralFinite DEF ShareOne, TInv, ParallelExact
  <2>. QED BY <1>3, <2>1, <2>2, HoldInv DEF ShareOne
<1>4. ASSUME NEW q \in Sharers, ShareEnd(q) PROVE TInv'
  BY <1>4, EndInv
<1>5. ASSUME NEW q \in Sharers, Release(q) PROVE TInv'
  BY <1>5, ReleaseInv
<1>6. CASE UNCHANGED threadVars
  BY <1>6 DEF threadVars, TInv, ThreadsTyped, Phases, ParallelExact, FewDivide, DividedBy, OnSeveral
<1>. QED BY <1>1, <1>2, <1>3, <1>4, <1>5, <1>6 DEF ThreadsNext

(* TInv always holds.                                                      *)
THEOREM ThreadsInvariance == ThreadsSpec => []TInv
<1>1. ThreadsInit => TInv
  BY TInit
<1>2. TInv /\ [ThreadsNext]_threadVars => TInv'
  BY TStep
<1>. QED BY <1>1, <1>2, PTL DEF ThreadsSpec

(* The variables keep their types, and the count is never below none.      *)
THEOREM ThreadsTypeCorrect == ThreadsSpec => []ThreadsTypeOK
<1>1. TInv => ThreadsTypeOK
  BY OnSeveralFinite DEF TInv, ThreadsTyped, ParallelExact, ThreadsTypeOK
<1>. QED BY <1>1, ThreadsInvariance, PTL

(* The engine's count is of its queries on more than one thread, whoever   *)
(* starts and ends while another is in share.                              *)
THEOREM CountIsExact == ThreadsSpec => []ParallelExact
<1>1. TInv => ParallelExact
  BY DEF TInv
<1>. QED BY <1>1, ThreadsInvariance, PTL

(* No more than Threads / m queries are on shares of m threads or more.    *)
THEOREM SharesFitTheThreads == ThreadsSpec => []SharesFit
<1>1. TInv => SharesFit
  <2>. SUFFICES ASSUME TInv, NEW m \in 2..Threads
                PROVE  Cardinality(SharedOn(m)) * m <= Threads
    BY DEF SharesFit
  <2>. DEFINE k == Threads \div m
  <2>1. m \in Nat \ {0} /\ k \in Nat /\ k * m <= Threads
    BY ThreadsAssumption, Division
  <2>2. SharedOn(m) \subseteq DividedBy(k)
    <3>. SUFFICES ASSUME NEW q \in Sharers, phase[q] = "running", ~given[q], got[q] >= m
                  PROVE  q \in OnSeveral /\ divisor[q] <= k
      BY DEF SharedOn, DividedBy
    <3>1. got[q] > 1 /\ divisor[q] \in Nat \ {0} /\ m <= Threads \div divisor[q]
          /\ Threads \div divisor[q] \in Nat
      BY <2>1, ThreadsAssumption, Division DEF TInv, ThreadsTyped, Phases
    <3>2. m * divisor[q] <= (Threads \div divisor[q]) * divisor[q]
      BY <2>1, <3>1, Products
    <3>3. divisor[q] * m <= Threads
      <4>1. (Threads \div divisor[q]) * divisor[q] <= Threads
        BY <3>1, ThreadsAssumption, Division
      <4>2. m * divisor[q] = divisor[q] * m
        BY <2>1, <3>1
      <4>3. /\ m * divisor[q] \in Int /\ (Threads \div divisor[q]) * divisor[q] \in Int
            /\ Threads \in Int
        BY <2>1, <3>1, ThreadsAssumption
      <4>. HIDE DEF k
      <4>. QED BY <3>2, <4>1, <4>2, <4>3
    <3>4. divisor[q] <= k
      BY <2>1, <3>1, <3>3, ThreadsAssumption, Division
    <3>. QED BY <3>1, <3>4 DEF OnSeveral
  <2>3. Cardinality(SharedOn(m)) <= k /\ Cardinality(SharedOn(m)) \in Nat
    <3>1. IsFiniteSet(DividedBy(k))
      BY OnSeveralFinite, FS_Subset DEF DividedBy
    <3>2. /\ Cardinality(SharedOn(m)) <= Cardinality(DividedBy(k))
          /\ Cardinality(SharedOn(m)) \in Nat /\ Cardinality(DividedBy(k)) \in Nat
      BY <2>2, <3>1, FS_Subset, FS_CardinalityType
    <3>. QED BY <2>1, <3>2 DEF TInv, FewDivide
  <2>. QED BY <2>1, <2>3, Products, ThreadsAssumption
<1>. QED BY <1>1, ThreadsInvariance, PTL

-----------------------------------------------------------------------------
(* A source's first read.                                                  *)

InRun == {"run", "ran", "end"}

(* The run in progress is its caller's, and there is none once an answer   *)
(* is kept.                                                                *)
RunIsRunning ==
  /\ \A c \in Callers : at[c] \in InRun <=> runner = c
  /\ done => runner = NoCaller

(* What is kept, and that a kept answer of ok is of a whole source.        *)
KeptIsWhole ==
  /\ done => err # "none"
  /\ done /\ err = "ok" => source = "whole"

(* What a run's caller knows of its answer, on its way out of run.         *)
RunsAnswer ==
  \A c \in Callers :
    /\ answer[c] = "ctx" => ended[c]
    /\ at[c] \in {"enter", "wait", "run", "ran"} => ~keep[c]
    /\ at[c] = "ran" => answer[c] \in {"ok", "err", "ctx"}
    /\ at[c] \in {"ran", "end"} /\ answer[c] = "ok" => source = "whole"
    /\ at[c] = "end" /\ keep[c] => answer[c] \in {"ok", "err"}
    /\ at[c] \in {"end", "close"} /\ answer[c] \in {"ok", "err"} => keep[c] \/ (answer[c] = "err" /\ ended[c])
    /\ at[c] = "close" /\ keep[c] => done /\ err = answer[c]

(* What a caller was told, against what is kept.                           *)
ToldIsKept ==
  \A c \in Callers :
    /\ at[c] # "out" => returned[c] = "none"
    /\ returned[c] = "ctx" => ended[c]
    /\ returned[c] = "ok" => done /\ err = "ok"
    /\ returned[c] = "err" => ended[c] \/ (done /\ err = "err")

OInv == OnceTypeOK /\ RunIsRunning /\ KeptIsWhole /\ RunsAnswer /\ ToldIsKept

(* The initial state.                                                      *)
LEMMA OInit == ASSUME OnceInit PROVE OInv
<1>1. OnceTypeOK
  <2>1. calls \in [Callers -> 0..MaxCalls]
    BY OnceAssumption DEF OnceInit
  <2>2. answer \in [Callers -> Answers] /\ returned \in [Callers -> Answers]
    BY DEF OnceInit, Answers
  <2>. QED BY <2>1, <2>2 DEF OnceInit, OnceTypeOK
<1>2. RunIsRunning /\ KeptIsWhole
  BY OnceAssumption DEF OnceInit, RunIsRunning, KeptIsWhole, InRun
<1>3. RunsAnswer /\ ToldIsKept
  BY DEF OnceInit, RunsAnswer, ToldIsKept
<1>. QED BY <1>1, <1>2, <1>3 DEF OInv

(* Every step keeps OInv.                                                  *)
LEMMA OStep == ASSUME OInv, [OnceNext]_onceVars PROVE OInv'
<1>. USE OnceAssumption DEF OInv, Goes, once
<1>1. ASSUME NEW c \in Callers, Call(c) PROVE OInv'
  <2>1. OnceTypeOK'
    BY <1>1 DEF Call, OnceTypeOK, Answers
  <2>2. RunIsRunning' /\ KeptIsWhole' /\ RunsAnswer' /\ ToldIsKept'
    BY <1>1 DEF Call, OnceTypeOK, RunIsRunning, KeptIsWhole, RunsAnswer, ToldIsKept, InRun
  <2>. QED BY <2>1, <2>2
<1>2. ASSUME NEW c \in Callers, ContextEnds(c) PROVE OInv'
  BY <1>2 DEF ContextEnds, OnceTypeOK, RunIsRunning, KeptIsWhole, RunsAnswer, ToldIsKept, InRun
<1>3. ASSUME NEW c \in Callers, Kept(c) PROVE OInv'
  <2>1. OnceTypeOK'
    BY <1>3 DEF Kept, OnceTypeOK, Answers
  <2>2. RunIsRunning' /\ KeptIsWhole' /\ RunsAnswer' /\ ToldIsKept'
    BY <1>3 DEF Kept, OnceTypeOK, RunIsRunning, KeptIsWhole, RunsAnswer, ToldIsKept, InRun
  <2>. QED BY <2>1, <2>2
<1>4. ASSUME NEW c \in Callers, Wait(c) \/ Wake(c) PROVE OInv'
  <2>1. OnceTypeOK'
    BY <1>4 DEF Wait, Wake, OnceTypeOK
  <2>2. RunIsRunning' /\ KeptIsWhole' /\ RunsAnswer' /\ ToldIsKept'
    BY <1>4 DEF Wait, Wake, OnceTypeOK, RunIsRunning, KeptIsWhole, RunsAnswer, ToldIsKept, InRun
  <2>. QED BY <2>1, <2>2
<1>5. ASSUME NEW c \in Callers, Begin(c) PROVE OInv'
  <2>1. OnceTypeOK'
    BY <1>5 DEF Begin, OnceTypeOK
  <2>2. ~done /\ \A d \in Callers : at[d] \notin InRun
    BY <1>5 DEF Begin, RunIsRunning
  <2>3. RunIsRunning' /\ KeptIsWhole' /\ ToldIsKept'
    BY <1>5, <2>2 DEF Begin, OnceTypeOK, RunIsRunning, KeptIsWhole, ToldIsKept, InRun
  <2>4. /\ at[c] = "enter" /\ at' = [at EXCEPT ![c] = "run"]
        /\ UNCHANGED <<done, err, ended, answer, keep>>
    BY <1>5 DEF Begin
  <2>5. ~keep[c]
    BY <2>4 DEF RunsAnswer
  <2>6. RunsAnswer'
    BY <2>2, <2>4, <2>5 DEF OnceTypeOK, RunsAnswer, InRun
  <2>. QED BY <2>1, <2>3, <2>6
<1>6. ASSUME NEW c \in Callers, GiveUp(c) PROVE OInv'
  <2>1. OnceTypeOK'
    BY <1>6 DEF GiveUp, OnceTypeOK, Answers
  <2>2. RunIsRunning' /\ KeptIsWhole' /\ RunsAnswer' /\ ToldIsKept'
    BY <1>6 DEF GiveUp, OnceTypeOK, RunIsRunning, KeptIsWhole, RunsAnswer, ToldIsKept, InRun
  <2>. QED BY <2>1, <2>2
<1>7. ASSUME NEW c \in Callers, NEW a \in {"ok", "err", "ctx", "panic"}, Runs(c, a) PROVE OInv'
  <2>1. OnceTypeOK'
    BY <1>7 DEF Runs, OnceTypeOK, Answers
  <2>2. RunIsRunning' /\ KeptIsWhole' /\ ToldIsKept'
    BY <1>7 DEF Runs, OnceTypeOK, RunIsRunning, KeptIsWhole, ToldIsKept, InRun
  <2>3. RunsAnswer'
    BY <1>7 DEF Runs, OnceTypeOK, RunIsRunning, RunsAnswer, InRun
  <2>. QED BY <2>1, <2>2, <2>3
<1>8. ASSUME NEW c \in Callers, Keeps(c) PROVE OInv'
  <2>1. OnceTypeOK'
    BY <1>8 DEF Keeps, OnceTypeOK
  <2>2. RunIsRunning' /\ KeptIsWhole' /\ ToldIsKept'
    BY <1>8 DEF Keeps, OnceTypeOK, RunIsRunning, KeptIsWhole, ToldIsKept, InRun
  <2>3. RunsAnswer'
    BY <1>8 DEF Keeps, OnceTypeOK, RunsAnswer
  <2>. QED BY <2>1, <2>2, <2>3
<1>9. ASSUME NEW c \in Callers, Ends(c) PROVE OInv'
  <2>1. ~done /\ \A d \in Callers : d # c => at[d] \notin InRun
    BY <1>9 DEF Ends, RunIsRunning, InRun
  <2>2. OnceTypeOK'
    BY <1>9 DEF Ends, OnceTypeOK, RunsAnswer
  <2>3. RunIsRunning'
    BY <1>9, <2>1 DEF Ends, OnceTypeOK, RunIsRunning, InRun
  <2>4. KeptIsWhole' /\ ToldIsKept'
    BY <1>9, <2>1 DEF Ends, OnceTypeOK, KeptIsWhole, RunsAnswer, ToldIsKept
  <2>5. RunsAnswer'
    BY <1>9, <2>1 DEF Ends, OnceTypeOK, RunsAnswer, InRun
  <2>. QED BY <2>2, <2>3, <2>4, <2>5
<1>10. ASSUME NEW c \in Callers, Closes(c) PROVE OInv'
  <2>1. OnceTypeOK'
    BY <1>10 DEF Closes, OnceTypeOK
  <2>2. RunIsRunning' /\ KeptIsWhole' /\ RunsAnswer'
    BY <1>10 DEF Closes, OnceTypeOK, RunIsRunning, KeptIsWhole, RunsAnswer, InRun
  <2>3. ToldIsKept'
    BY <1>10 DEF Closes, OnceTypeOK, RunsAnswer, ToldIsKept
  <2>. QED BY <2>1, <2>2, <2>3
<1>11. CASE UNCHANGED onceVars
  BY <1>11 DEF onceVars, OnceTypeOK, RunIsRunning, KeptIsWhole, RunsAnswer, ToldIsKept
<1>. QED
  BY <1>1, <1>2, <1>3, <1>4, <1>5, <1>6, <1>7, <1>8, <1>9, <1>10, <1>11 DEF OnceNext, Returns

(* OInv always holds.                                                      *)
THEOREM OnceInvariance == OnceSafe => []OInv
<1>1. OnceInit => OInv
  BY OInit
<1>2. OInv /\ [OnceNext]_onceVars => OInv'
  BY OStep
<1>. QED BY <1>1, <1>2, PTL DEF OnceSafe

(* The variables keep their types, and what is kept is never a panic or    *)
(* the end of a context.                                                   *)
THEOREM KeptIsAnAnswer == OnceSafe => []OnceTypeOK
<1>1. OInv => OnceTypeOK
  BY DEF OInv
<1>. QED BY <1>1, OnceInvariance, PTL

(* No query is failed by the end of another's context.                     *)
THEOREM NoStrangersContext == OnceSafe => []OwnContext
<1>1. OInv => OwnContext
  BY DEF OInv, ToldIsKept, OwnContext
<1>. QED BY <1>1, OnceInvariance, PTL

(* One run writes the source at a time, and none once a query was told it  *)
(* is whole.                                                               *)
THEOREM RunsOneAtATime == OnceSafe => []OneRun
<1>1. OInv => OneRun
  BY DEF OInv, RunIsRunning, KeptIsWhole, ToldIsKept, InRun, OneRun
<1>. QED BY <1>1, OnceInvariance, PTL

(* The queries are told one thing of the source.                           *)
THEOREM AnswersAgree == OnceSafe => []OneAnswer
<1>1. OInv => OneAnswer
  BY DEF OInv, ToldIsKept, OneAnswer
<1>. QED BY <1>1, OnceInvariance, PTL
=============================================================================
