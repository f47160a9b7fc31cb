------------------------- MODULE ParallelSinkProofs -------------------------
(***************************************************************************)
(* ParallelSink's safety, for any number of workers, lane buffer, bound on *)
(* the batches and kind of fault.  The drain is a race of the dispatcher   *)
(* and its workers over the lanes (internal/physical/parallelsink.go); the *)
(* invariant WInv says what the race leaves alone.                         *)
(*                                                                         *)
(* LanesInStep: as long as no error has been raised, what a worker's sink  *)
(* holds, the batch it consumes and what its lane holds are, in order and  *)
(* with no gap, the batches dealt to it so far.  Raised and Stopped: why   *)
(* each flag was raised and the dispatcher stopped, so that a drain that   *)
(* comes to its fold with nothing raised has dealt all of its input, or    *)
(* was asked for serial.  Folding: what the fold has made of the sinks.    *)
(*                                                                         *)
(* The order of the answer is FlattenSeq of the deals, a recursive         *)
(* function that FoldFacts unfolds.                                        *)
(***************************************************************************)
EXTENDS ParallelSink, FoldFacts, SequenceTheorems, TLAPS

(* The k-th batch of a lane.                                               *)
At(w, k) == (k - 1) * N + w + 1

(* A number taken apart by its remainder and its quotient.                 *)
LEMMA Modulo ==
  ASSUME NEW d \in Nat \ {0}, NEW q \in Nat, NEW r \in Nat, r < d
  PROVE  (q * d + r) % d = r /\ (q * d + r) \div d = q
OBVIOUS

(* Batches of a lane lie N apart, and each is its lane's.                  *)
LEMMA Places ==
  ASSUME NEW w \in Workers, NEW k \in Nat \ {0}
  PROVE  /\ At(w, k) \in Nat \ {0} /\ At(w, k + 1) = At(w, k) + N
         /\ Lane(At(w, k)) = w
<1>0. w \in Nat /\ w < N /\ N \in Nat \ {0} /\ k - 1 \in Nat
  BY SinkAssumption DEF Workers
<1>1. (k - 1) * N \in Nat /\ k * N = (k - 1) * N + N
  BY <1>0
<1>2. At(w, k) - 1 = (k - 1) * N + w
  BY <1>0, <1>1 DEF At
<1>3. Lane(At(w, k)) = ((k - 1) * N + w) % N
  BY <1>2 DEF Lane
<1>4. Lane(At(w, k)) = w
  BY <1>0, <1>3, Modulo
<1>5. (k + 1) - 1 = k
  BY <1>0
<1>. QED BY <1>0, <1>1, <1>4, <1>5 DEF At

(* A later place of a lane is at least N batches later.                    *)
LEMMA Ordered ==
  ASSUME NEW w \in Workers, NEW j \in Nat \ {0}, NEW k \in Nat \ {0}, j < k
  PROVE  At(w, j) + N <= At(w, k)
<1>0. w \in Nat /\ N \in Nat /\ j - 1 \in Nat /\ k - 1 \in Nat /\ j <= k - 1 /\ j \in Nat
  BY SinkAssumption DEF Workers
<1>1. j * N <= (k - 1) * N /\ (j - 1) * N + N = j * N /\ j * N \in Nat /\ (k - 1) * N \in Nat /\ (j - 1) * N \in Nat
  BY <1>0
<1>. QED BY <1>0, <1>1 DEF At

(* Every batch has its place in its lane.                                  *)
LEMMA Covered ==
  ASSUME NEW b \in Nat \ {0}
  PROVE  /\ Lane(b) \in Workers /\ (b - 1) \div N + 1 \in Nat \ {0}
         /\ At(Lane(b), (b - 1) \div N + 1) = b
<1>0. N \in Nat \ {0} /\ b - 1 \in Nat
  BY SinkAssumption
<1>1. PICK x, c, r : x = b - 1 /\ c = x \div N /\ r = x % N
  OBVIOUS
<1>2. c \in Nat /\ r \in 0..(N - 1) /\ x = c * N + r
  <2>1. N \in Nat \ {0} /\ x \in Nat /\ c = x \div N /\ r = x % N
    BY <1>0, <1>1
  <2>. QED BY <2>1
<1>3. (c + 1) - 1 = c /\ c * N \in Nat
  BY <1>0, <1>2
<1>4. r \in Workers /\ c + 1 \in Nat \ {0} /\ At(r, c + 1) = b
  BY <1>0, <1>1, <1>2, <1>3 DEF At, Workers
<1>. QED BY <1>1, <1>4 DEF Lane

(* The number of a lane's batches among the first n, from where the lane   *)
(* has come to.                                                            *)
LEMMA HowMany ==
  ASSUME NEW w \in Workers, NEW n \in Nat, NEW c \in Nat,
         At(w, c + 1) > n, c > 0 => At(w, c) <= n
  PROVE  (n + N - 1 - w) \div N = c
<1>0. N \in Nat \ {0} /\ w \in Nat /\ w < N
  BY SinkAssumption DEF Workers
<1>1. c * N \in Nat /\ (c > 0 => (c - 1) * N = c * N - N) /\ (c + 1) - 1 = c
  BY <1>0
<1>2. c * N + w + 1 > n
  BY <1>1 DEF At
<1>3. c > 0 => c * N - N + w + 1 <= n
  BY <1>1 DEF At
<1>4. c = 0 => c * N = 0
  BY <1>0
<1>. DEFINE r == n + N - 1 - w - c * N
<1>5. r \in Nat /\ r < N
  BY <1>0, <1>1, <1>2, <1>3, <1>4
<1>6. n + N - 1 - w = c * N + r
  BY <1>0, <1>1
<1>. HIDE DEF r
<1>. QED BY <1>0, <1>5, <1>6, Modulo

(* And where the lane has come to, from that number.                       *)
LEMMA Counted ==
  ASSUME NEW w \in Workers, NEW n \in Nat
  PROVE  LET c == (n + N - 1 - w) \div N IN
         c \in Nat /\ At(w, c + 1) > n /\ (c > 0 => At(w, c) <= n)
<1>0. N \in Nat \ {0} /\ w \in Nat /\ w < N /\ n + N - 1 - w \in Nat
  BY SinkAssumption DEF Workers
<1>. DEFINE c == (n + N - 1 - w) \div N
            r == (n + N - 1 - w) % N
<1>1. c \in Nat /\ r \in Nat /\ r < N /\ n + N - 1 - w = c * N + r
  BY <1>0
<1>2. c * N \in Nat /\ (c - 1) * N = c * N - N /\ (c + 1) - 1 = c
  BY <1>0, <1>1
<1>. HIDE DEF c, r
<1>3. At(w, c + 1) > n /\ At(w, c) <= n
  BY <1>0, <1>1, <1>2 DEF At
<1>. QED BY <1>1, <1>3 DEF c

(* A sequence that holds the batches 1 to n, each once, is n long.         *)
LEMMA HowManySerial ==
  ASSUME NEW n \in Nat, NEW q \in Seq(Nat), ToSet(q) = 1..n,
         \A j, k \in DOMAIN q : q[j] = q[k] => j = k
  PROVE  Len(q) = n
<1>1. DOMAIN q = 1..Len(q) /\ Len(q) \in Nat /\ q \in [1..Len(q) -> Nat]
  OBVIOUS
<1>2. q \in [1..Len(q) -> 1..n]
  <2>1. \A k \in 1..Len(q) : q[k] \in 1..n
    BY <1>1 DEF ToSet
  <2>. QED BY <1>1, <2>1
<1>3. q \in Injection(1..Len(q), 1..n)
  BY <1>1, <1>2 DEF Injection, IsInjective
<1>4. q \in Surjection(1..Len(q), 1..n)
  <2>1. \A t \in 1..n : \E k \in 1..Len(q) : q[k] = t
    BY <1>1 DEF ToSet
  <2>. QED BY <1>2, <2>1 DEF Surjection
<1>5. ExistsBijection(1..Len(q), 1..n)
  BY <1>3, <1>4 DEF ExistsBijection, Bijection
<1>6. IsFiniteSet(1..Len(q)) /\ Cardinality(1..Len(q)) = Len(q)
  <2>1. \A m \in Nat : IsFiniteSet(1..m) /\ Cardinality(1..m) = m
    BY FS_Interval
  <2>. QED BY <1>1, <2>1
<1>7. Cardinality(1..n) = n
  BY FS_Interval
<1>8. Cardinality(1..n) = Cardinality(1..Len(q))
  BY <1>5, <1>6, FS_Bijection
<1>. QED BY <1>6, <1>7, <1>8

(* No batch twice; exactly the batches of S; the deals of the first m      *)
(* workers joined, which is the order a parallel drain answers in.         *)
Distinct(q) == \A j, k \in DOMAIN q : q[j] = q[k] => j = k
Holds(q, S) == q \in Seq(Nat) /\ Distinct(q) /\ ToSet(q) = S
Turned(m, n) == FlattenSeq([i \in 1..m |-> Dealt(i - 1, n)])

(* Two sequences that share nothing, joined, hold what both hold.          *)
LEMMA JoinedHold ==
  ASSUME NEW p, NEW q, NEW S, NEW T, Holds(p, S), Holds(q, T), S \cap T = {}
  PROVE  Holds(p \o q, S \union T)
<1>. PICK a, b : a = Len(p) /\ b = Len(q)
  OBVIOUS
<1>1. p \in Seq(Nat) /\ q \in Seq(Nat) /\ a \in Nat /\ b \in Nat
      /\ DOMAIN p = 1..a /\ DOMAIN q = 1..b
  BY DEF Holds
<1>2. /\ p \o q \in Seq(Nat) /\ DOMAIN (p \o q) = 1..(a + b)
      /\ \A k \in 1..a : (p \o q)[k] = p[k]
      /\ \A k \in 1..(a + b) : k > a => k - a \in 1..b /\ (p \o q)[k] = q[k - a]
  BY <1>1
<1>. PICK r : r = p \o q
  OBVIOUS
<1>3. \A k \in 1..a : r[k] \in S
  BY <1>1, <1>2 DEF Holds, ToSet
<1>4. \A k \in 1..(a + b) : k > a => r[k] \in T
  BY <1>1, <1>2 DEF Holds, ToSet
<1>5. ASSUME NEW j \in 1..(a + b), NEW k \in 1..(a + b), r[j] = r[k] PROVE j = k
  <2>1. CASE j <= a /\ k <= a
    <3>1. j \in DOMAIN p /\ k \in DOMAIN p /\ p[j] = p[k]
      BY <1>1, <1>2, <1>5, <2>1
    <3>. QED BY <3>1 DEF Holds, Distinct
  <2>2. CASE j > a /\ k > a
    <3>1. j - a \in DOMAIN q /\ k - a \in DOMAIN q /\ q[j - a] = q[k - a]
      BY <1>1, <1>2, <1>5, <2>2
    <3>2. j - a = k - a
      BY <3>1 DEF Holds, Distinct
    <3>. QED BY <1>1, <3>2
  <2>3. CASE (j <= a /\ k > a) \/ (j > a /\ k <= a)
    <3>1. r[j] \in S \cap T
      BY <1>1, <1>3, <1>4, <1>5, <2>3
    <3>. QED BY <3>1
  <2>. QED BY <1>1, <2>1, <2>2, <2>3
<1>6. ToSet(r) \subseteq S \union T
  <2>1. \A k \in 1..(a + b) : k \in 1..a \/ k > a
    BY <1>1
  <2>. QED BY <1>2, <1>3, <1>4, <2>1 DEF ToSet
<1>7. ASSUME NEW x \in S \union T PROVE x \in ToSet(r)
  <2>1. CASE x \in S
    <3>1. PICK k \in 1..a : p[k] = x
      BY <1>1, <2>1 DEF Holds, ToSet
    <3>2. k \in 1..(a + b) /\ r[k] = x
      BY <1>1, <1>2, <3>1
    <3>. QED BY <1>2, <3>2 DEF ToSet
  <2>2. CASE x \in T
    <3>1. PICK k \in 1..b : q[k] = x
      BY <1>1, <2>2 DEF Holds, ToSet
    <3>2. k + a \in 1..(a + b) /\ k + a > a /\ (k + a) - a = k
      BY <1>1
    <3>3. r[k + a] = x
      BY <1>2, <3>1, <3>2
    <3>. QED BY <1>2, <3>2, <3>3 DEF ToSet
  <2>. QED BY <1>7, <2>1, <2>2
<1>. QED BY <1>2, <1>5, <1>6, <1>7 DEF Holds, Distinct

(* A worker's deal is its lane's batches, each once, in input order.       *)
LEMMA DealtIs ==
  ASSUME NEW w \in Workers, NEW n \in Nat
  PROVE  /\ Dealt(w, n) \in Seq(Nat)
         /\ DOMAIN Dealt(w, n) = 1..((n + N - 1 - w) \div N)
         /\ \A k \in DOMAIN Dealt(w, n) : Dealt(w, n)[k] = At(w, k)
         /\ Holds(Dealt(w, n), {b \in 1..n : Lane(b) = w})
<1>. PICK c : c = (n + N - 1 - w) \div N
  OBVIOUS
<1>1. c \in Nat /\ At(w, c + 1) > n /\ (c > 0 => At(w, c) <= n)
  BY Counted
<1>. PICK q : q = Dealt(w, n)
  OBVIOUS
<1>2. q = [k \in 1..c |-> At(w, k)]
  BY DEF Dealt, At
<1>3. ASSUME NEW k \in 1..c PROVE q[k] = At(w, k) /\ At(w, k) \in 1..n /\ Lane(At(w, k)) = w
  <2>1. k \in Nat \ {0} /\ c \in Nat \ {0}
    BY <1>1
  <2>2. At(w, k) \in Nat \ {0} /\ Lane(At(w, k)) = w /\ At(w, c) \in Nat
    BY <2>1, Places
  <2>3. k < c => At(w, k) + N <= At(w, c)
    BY <2>1, Ordered
  <2>4. At(w, k) <= n
    <3>1. CASE k = c
      BY <1>1, <2>1, <3>1
    <3>2. CASE k < c
      BY <1>1, <2>1, <2>2, <2>3, <3>2, SinkAssumption
    <3>. QED BY <1>1, <2>1, <3>1, <3>2
  <2>. QED BY <1>2, <2>2, <2>4
<1>4. q \in Seq(Nat) /\ DOMAIN q = 1..c
  <2>1. \A k \in 1..c : At(w, k) \in Nat
    BY <1>3
  <2>. QED BY <1>1, <1>2, <2>1
<1>5. Distinct(q)
  <2>. SUFFICES ASSUME NEW j \in 1..c, NEW k \in 1..c, q[j] = q[k] PROVE j = k
    BY <1>4 DEF Distinct
  <2>1. \A x, y \in 1..c : ~(x < y /\ q[x] = q[y])
    <3>. SUFFICES ASSUME NEW x \in 1..c, NEW y \in 1..c, x < y PROVE q[x] # q[y]
      OBVIOUS
    <3>1. At(w, x) + N <= At(w, y)
      BY <1>1, Ordered
    <3>. QED BY <1>3, <3>1, SinkAssumption
  <2>2. ~(j < k) /\ ~(k < j)
    BY <2>1
  <2>. QED BY <1>1, <2>2
<1>6. ToSet(q) \subseteq {b \in 1..n : Lane(b) = w}
  BY <1>3, <1>4 DEF ToSet
<1>7. ASSUME NEW b \in 1..n, Lane(b) = w PROVE b \in ToSet(q)
  <2>. PICK k : k = (b - 1) \div N + 1
    OBVIOUS
  <2>1. k \in Nat \ {0} /\ At(w, k) = b
    BY <1>7, Covered
  <2>2. c + 1 \in Nat \ {0} /\ At(w, c + 1) \in Nat
    BY <1>1, Places
  <2>3. c + 1 < k => At(w, c + 1) + N <= At(w, k)
    BY <2>1, <2>2, Ordered
  <2>4. k \in 1..c
    BY <1>1, <2>1, <2>2, <2>3, SinkAssumption
  <2>. QED BY <1>3, <1>4, <2>1, <2>4 DEF ToSet
<1>. QED BY <1>2, <1>3, <1>4, <1>5, <1>6, <1>7 DEF Holds

(* The deals of the first m workers, one after another: how they grow, and *)
(* what they hold.                                                         *)
LEMMA TurnedIs ==
  ASSUME NEW n \in Nat
  PROVE  /\ Turned(1, n) = Dealt(0, n)
         /\ \A m \in 1..(N - 1) : Turned(m + 1, n) = Turned(m, n) \o Dealt(m, n)
         /\ \A m \in 1..N : Holds(Turned(m, n), {b \in 1..n : Lane(b) < m})
<1>. DEFINE D(m) == [i \in 1..m |-> Dealt(i - 1, n)]
<1>1. ASSUME NEW m \in 1..N
      PROVE  D(m) \in Seq(Seq(Nat)) /\ Len(D(m)) = m /\ \A i \in 1..m : D(m)[i] = Dealt(i - 1, n)
  <2>1. \A i \in 1..m : i - 1 \in Workers
    BY SinkAssumption DEF Workers
  <2>2. \A i \in 1..m : Dealt(i - 1, n) \in Seq(Nat)
    BY <2>1, DealtIs
  <2>3. m \in Nat
    OBVIOUS
  <2>. QED BY <2>2, <2>3
<1>2. 0 \in Workers /\ 1 \in 1..N /\ N \in Nat /\ 1 - 1 = 0
  BY SinkAssumption DEF Workers
<1>3. Turned(1, n) = Dealt(0, n)
  <2>1. D(1) \in Seq(Seq(Nat)) /\ Len(D(1)) = 1 /\ D(1)[1] = Dealt(0, n)
    BY <1>1, <1>2
  <2>. HIDE DEF D
  <2>2. FlattenSeq(D(1)) = Dealt(0, n)
    BY <2>1, FlattenOne
  <2>. QED BY <2>2 DEF Turned, D
<1>4. ASSUME NEW m \in 1..(N - 1) PROVE Turned(m + 1, n) = Turned(m, n) \o Dealt(m, n)
  <2>1. m \in 1..N /\ m + 1 \in 1..N /\ (m + 1) - 1 = m /\ m \in Nat /\ m > 0 /\ m + 1 \in 1..(m + 1)
    BY <1>2
  <2>. PICK s, t : s = D(m) /\ t = D(m + 1)
    OBVIOUS
  <2>2. s \in Seq(Seq(Nat)) /\ t \in Seq(Seq(Nat)) /\ Len(s) = m /\ Len(t) = m + 1
        /\ (\A i \in 1..m : s[i] = Dealt(i - 1, n)) /\ (\A i \in 1..(m + 1) : t[i] = Dealt(i - 1, n))
    BY <1>1, <2>1
  <2>. HIDE DEF D
  <2>3. \A i \in 1..m : i \in 1..(m + 1)
    BY <2>1
  <2>4. /\ Len(s) > 0 /\ Len(t) = Len(s) + 1 /\ \A i \in 1..Len(s) : t[i] = s[i]
        /\ t[Len(t)] = Dealt(m, n)
    BY <2>1, <2>2, <2>3
  <2>5. FlattenSeq(t) = FlattenSeq(s) \o t[Len(t)]
    BY <2>2, <2>4, FlattenMore
  <2>. QED BY <2>4, <2>5 DEF Turned, D
<1>. DEFINE Of(m) == {b \in 1..n : Lane(b) < m}
            Q == {m \in Nat : m \in 1..N => Holds(Turned(m, n), Of(m))}
<1>l. \A b \in 1..n : Lane(b) \in Nat
  BY Covered DEF Workers
<1>5. 0 \in Q
  OBVIOUS
<1>6. ASSUME NEW m \in Nat, m \in Q PROVE m + 1 \in Q
  <2>. SUFFICES ASSUME m + 1 \in 1..N PROVE Holds(Turned(m + 1, n), Of(m + 1))
    OBVIOUS
  <2>1. CASE m = 0
    <3>1. Of(m + 1) = {b \in 1..n : Lane(b) = 0}
      BY <1>l, <2>1
    <3>2. Holds(Dealt(0, n), {b \in 1..n : Lane(b) = 0})
      BY <1>2, DealtIs
    <3>. HIDE DEF Of
    <3>. QED BY <1>3, <2>1, <3>1, <3>2
  <2>2. CASE m # 0
    <3>1. m \in 1..(N - 1) /\ m \in Workers /\ m \in 1..N
      BY <1>2, <2>2 DEF Workers
    <3>2. Holds(Turned(m, n), Of(m))
      BY <1>6, <3>1
    <3>3. Holds(Dealt(m, n), {b \in 1..n : Lane(b) = m})
      BY <3>1, DealtIs
    <3>4. /\ Of(m) \cap {b \in 1..n : Lane(b) = m} = {}
          /\ Of(m + 1) = Of(m) \union {b \in 1..n : Lane(b) = m}
      BY <1>l
    <3>5. PICK p, q, S, T : p = Turned(m, n) /\ q = Dealt(m, n) /\ S = Of(m)
                            /\ T = {b \in 1..n : Lane(b) = m}
      OBVIOUS
    <3>. HIDE DEF Of
    <3>6. Holds(p, S) /\ Holds(q, T) /\ S \cap T = {}
      BY <3>2, <3>3, <3>4, <3>5
    <3>7. Holds(p \o q, S \union T)
      BY <3>6, JoinedHold
    <3>8. Turned(m + 1, n) = p \o q /\ Of(m + 1) = S \union T
      BY <1>4, <3>1, <3>4, <3>5
    <3>. QED BY <3>7, <3>8
  <2>. QED BY <2>1, <2>2
<1>7. Nat \subseteq Q
  <2>. HIDE DEF Q
  <2>. QED BY <1>5, <1>6, NaturalInduction
<1>8. \A m \in 1..N : Holds(Turned(m, n), Of(m))
  <2>1. \A m \in 1..N : m \in Nat
    OBVIOUS
  <2>. HIDE DEF Of
  <2>. QED BY <1>7, <2>1
<1>. QED BY <1>3, <1>4, <1>8

(* Where the dispatcher has come to, and a worker with its lane: what its  *)
(* sink holds, what it consumes and what its lane holds are, in order and  *)
(* with no gap, the batches dealt to it so far.                            *)
Dealing == pc \in {"pull", "send", "close", "wait"}
Working == Dealing \/ pc = "gone"
Sent == IF pc = "send" THEN pulled - 1 ELSE pulled
Taken(w) == Len(sinks[w]) + IF worker[w] = "consume" THEN 1 ELSE 0
LaneInStep(w) ==
  /\ \A k \in DOMAIN sinks[w] : sinks[w][k] = At(w, k)
  /\ worker[w] = "consume" => batch[w] = At(w, Len(sinks[w]) + 1)
  /\ \A k \in DOMAIN jobs[w] : jobs[w][k] = At(w, Taken(w) + k)
  /\ LET c == Taken(w) + Len(jobs[w])
     IN At(w, c + 1) > Sent /\ (c > 0 => At(w, c) <= Sent)
  /\ worker[w] = "ended" => closed /\ jobs[w] = <<>>
LanesInStep == Dealing /\ errs = {} /\ dispatchErr = "none" => \A w \in Workers : LaneInStep(w)

(* What each flag was raised for, and why the dispatcher stopped.          *)
Raised ==
  /\ parent => cancelled
  /\ cancelled => parent \/ errs # {} \/ pc = "gone"
  /\ failed \/ bad # {} => errs # {}
Stopped ==
  /\ pc # "gone" => (closed <=> pc \notin {"pull", "send", "close"})
  /\ pc \in {"pull", "send"} => dispatchErr = "none"
  /\ pc = "send" => pulled > 0
  /\ Working => returned = "none"
  /\ pc \in {"close", "wait"} /\ dispatchErr = "none" => serial \/ pulled = batches \/ cancelled

(* What the fold has made of the sinks: those folded are one, in worker    *)
(* order, and a fold that was not asked for serial has every batch.        *)
WholeIn(q) ==
  /\ Holds(q, 1..pulled) /\ (pulled = batches \/ parent)
  /\ ~serial => pulled = batches /\ q = Turned(N, batches)
Folding ==
  /\ ~Working => \A w \in Workers : worker[w] = "ended"
  /\ pc \in {"fold", "rest", "finish", "answer"} =>
       errs = {} /\ bad = {} /\ dispatchErr = "none" /\ returned = "none"
  /\ pc = "fold" => /\ folded \in 1..N /\ (serial \/ pulled = batches)
                    /\ sinks[0] = Turned(folded, pulled)
                    /\ \A w \in folded..(N - 1) : sinks[w] = Dealt(w, pulled)
  /\ pc = "rest" => serial /\ Holds(sinks[0], 1..pulled)
  /\ pc = "finish" => WholeIn(sinks[0])
  /\ pc = "answer" => WholeIn(out)
  /\ returned = "answer" => /\ pc = "done" /\ Holds(out, 1..batches)
                            /\ bad = {} /\ errs = {} /\ dispatchErr = "none"
                            /\ ~serial => out = Turned(N, batches)

Typed ==
  /\ batches \in Nat /\ pulled \in 0..batches
  /\ jobs \in [Workers -> Seq(Nat)] /\ closed \in BOOLEAN
  /\ worker \in [Workers -> {"idle", "consume", "ended"}] /\ batch \in [Workers -> Nat]
  /\ sinks \in [Workers -> Seq(Nat)]
  /\ failed \in BOOLEAN /\ serial \in BOOLEAN /\ parent \in BOOLEAN /\ cancelled \in BOOLEAN
  /\ pc \in {"pull", "send", "close", "wait", "fold", "rest", "finish", "answer", "done", "gone"}
  /\ folded \in Nat

WInv == Typed /\ LanesInStep /\ Raised /\ Stopped /\ Folding

(* What the constants give.                                                *)
LEMMA Given ==
  N \in Nat \ {0} /\ 0 \in Workers /\ \A w \in Workers : w \in Nat /\ w <= N - 1
BY SinkAssumption DEF Workers

(* A drain begins with nothing pulled, dealt or consumed.                  *)
LEMMA WInit == ASSUME Init PROVE WInv
<1>. USE DEF Init
<1>1. Typed
  <2>1. batches \in Nat /\ pulled \in 0..batches
    BY SinkAssumption
  <2>2. /\ jobs \in [Workers -> Seq(Nat)] /\ sinks \in [Workers -> Seq(Nat)]
        /\ batch \in [Workers -> Nat] /\ worker \in [Workers -> {"idle", "consume", "ended"}]
    BY EmptySeq
  <2>. QED BY <2>1, <2>2 DEF Typed
<1>2. LanesInStep
  <2>. SUFFICES ASSUME NEW w \in Workers PROVE LaneInStep(w)
    BY DEF LanesInStep
  <2>1. sinks[w] = <<>> /\ jobs[w] = <<>> /\ worker[w] = "idle" /\ pulled = 0 /\ Sent = 0
    BY DEF Sent
  <2>2. At(w, 1) > 0
    BY Places
  <2>. QED BY <2>1, <2>2 DEF LaneInStep, Taken
<1>3. Raised /\ Stopped /\ Folding
  BY DEF Raised, Stopped, Folding, Dealing, Working
<1>. QED BY <1>1, <1>2, <1>3 DEF WInv

(* A lane nobody touched is in step as before.                             *)
LEMMA LaneKeeps ==
  ASSUME NEW w \in Workers, LaneInStep(w), sinks'[w] = sinks[w], worker'[w] = worker[w],
         batch'[w] = batch[w], jobs'[w] = jobs[w], Sent' = Sent, closed => closed'
  PROVE  LaneInStep(w)'
BY DEF LaneInStep, Taken

(* The lanes stay in step when none is touched.                            *)
LEMMA LanesKeep ==
  ASSUME LanesInStep, UNCHANGED <<sinks, worker, batch, jobs>>, closed => closed',
         Dealing' => Dealing /\ Sent' = Sent, errs' = {} => errs = {},
         dispatchErr' = "none" => dispatchErr = "none"
  PROVE  LanesInStep'
<1>. SUFFICES ASSUME Dealing', errs' = {}, dispatchErr' = "none", NEW w \in Workers
              PROVE  LaneInStep(w)'
  BY DEF LanesInStep
<1>1. LaneInStep(w) /\ Sent' = Sent
  BY DEF LanesInStep
<1>. QED BY <1>1, LaneKeeps

(* The caller's context ends.                                              *)
LEMMA ParentEndsKeeps == ASSUME WInv, ParentEnds PROVE WInv'
<1>. USE DEF WInv, ParentEnds, lanes, crew, flags, fold
<1>1. Typed' /\ Raised' /\ Stopped'
  BY DEF Typed, Raised, Stopped, Dealing, Working
<1>2. LanesInStep'
  BY LanesKeep DEF Dealing, Working, Sent
<1>3. Folding'
  BY DEF Folding, WholeIn, Dealing, Working
<1>. QED BY <1>1, <1>2, <1>3

(* The dispatcher pulls a batch (parallelsink.go:163).                     *)
LEMMA PullBatchKeeps == ASSUME WInv, PullBatch PROVE WInv'
<1>. USE DEF WInv, PullBatch, lanes, crew, flags, fold, contexts
<1>1. Typed' /\ Raised' /\ Stopped'
  BY DEF Typed, Raised, Stopped, Dealing, Working
<1>2. LanesInStep'
  BY LanesKeep DEF Dealing, Working, Sent, Typed
<1>3. Folding'
  BY DEF Folding, WholeIn, Dealing, Working, Stopped
<1>. QED BY <1>1, <1>2, <1>3

(* Its pull ends: at the end of the input, at a refusal, at a cancellation *)
(* or a fault.                                                             *)
LEMMA PullStopsKeeps == ASSUME WInv, PullStops PROVE WInv'
<1>. USE DEF WInv, PullStops, Stop, lanes, crew, flags, fold, contexts
<1>0. /\ pc = "pull" /\ pc' = "close" /\ dispatchErr = "none"
      /\ dispatchErr' = "none" => serial \/ pulled = batches \/ cancelled
      /\ UNCHANGED <<batches, pulled, lanes, crew, flags, contexts, fold>>
  <2>1. \A f \in Faults : f # "none"
    BY SinkAssumption DEF AllFaults
  <2>. QED BY <2>1 DEF Stopped
<1>. HIDE DEF PullStops
<1>1. Typed' /\ Raised' /\ Stopped'
  BY <1>0 DEF Typed, Raised, Stopped, Dealing, Working
<1>2. LanesInStep'
  BY <1>0, LanesKeep DEF Dealing, Working, Sent, Typed
<1>3. Folding'
  BY <1>0 DEF Folding, WholeIn, Dealing, Working, Stopped
<1>. QED BY <1>1, <1>2, <1>3

(* The next place of a batch's lane is the batch's own.                    *)
LEMMA NextIsOwn ==
  ASSUME NEW b \in Nat \ {0}, NEW c \in Nat,
         At(Lane(b), c + 1) > b - 1, c > 0 => At(Lane(b), c) <= b - 1
  PROVE  At(Lane(b), c + 1) = b
<1>. PICK w, k : w = Lane(b) /\ k = (b - 1) \div N + 1
  OBVIOUS
<1>1. w \in Workers /\ k \in Nat \ {0} /\ At(w, k) = b
  BY Covered
<1>2. c + 1 \in Nat \ {0} /\ At(w, c + 1) \in Nat /\ (c > 0 => At(w, c) \in Nat) /\ N \in Nat
  BY <1>1, Places, SinkAssumption
<1>3. ~(c + 1 < k)
  <2>1. c + 1 < k => At(w, c + 1) + N <= At(w, k)
    BY <1>1, <1>2, Ordered
  <2>. QED BY <1>1, <1>2, <2>1, SinkAssumption
<1>4. ~(k < c)
  <2>1. k < c => At(w, k) + N <= At(w, c)
    BY <1>1, <1>2, Ordered
  <2>. QED BY <1>1, <1>2, <2>1, SinkAssumption
<1>5. k # c
  BY <1>1
<1>6. k = c + 1
  BY <1>1, <1>3, <1>4, <1>5
<1>. QED BY <1>1, <1>6

(* It sends the batch to its lane, whose next place is this batch's.       *)
LEMMA SendKeeps == ASSUME WInv, Send PROVE WInv'
<1>. USE DEF WInv, Send, crew, flags, fold, contexts
<1>0. /\ pulled \in Nat \ {0} /\ Lane(pulled) \in Workers /\ pc = "send" /\ pc' = "pull"
      /\ dispatchErr = "none" /\ ~closed
  BY Covered DEF Typed, Stopped
<1>1. Typed' /\ Raised' /\ Stopped'
  BY <1>0 DEF Typed, Raised, Stopped, Dealing, Working
<1>2. LanesInStep'
  <2>. SUFFICES ASSUME errs = {}, NEW w \in Workers PROVE LaneInStep(w)'
    BY DEF LanesInStep
  <2>1. LaneInStep(w) /\ Sent = pulled - 1 /\ Sent' = pulled /\ Dealing
    BY <1>0 DEF LanesInStep, Dealing, Working, Sent
  <2>. PICK c : c = Taken(w) + Len(jobs[w])
    OBVIOUS
  <2>2. Taken(w) \in Nat /\ Len(jobs[w]) \in Nat /\ c \in Nat /\ Taken(w)' = Taken(w)
    BY DEF Taken, Typed
  <2>3. At(w, c + 1) > pulled - 1 /\ (c > 0 => At(w, c) <= pulled - 1)
    BY <2>1 DEF LaneInStep
  <2>4. /\ At(w, c + 1) \in Nat /\ (c > 0 => At(w, c) \in Nat) /\ Lane(At(w, c + 1)) = w
        /\ At(w, (c + 1) + 1) = At(w, c + 1) + N
    <3>1. c + 1 \in Nat \ {0} /\ (c > 0 => c \in Nat \ {0})
      BY <2>2
    <3>. QED BY <3>1, Places
  <2>5. CASE w = Lane(pulled)
    <3>1. At(w, c + 1) = pulled
      BY <1>0, <2>2, <2>3, <2>5, NextIsOwn
    <3>2. jobs'[w] = Append(jobs[w], pulled) /\ jobs[w] \in Seq(Nat)
      BY <1>0, <2>5 DEF Typed
    <3>3. /\ Len(jobs'[w]) = Len(jobs[w]) + 1 /\ DOMAIN jobs'[w] = 1..(Len(jobs[w]) + 1)
          /\ jobs'[w][Len(jobs[w]) + 1] = pulled
          /\ \A k \in 1..Len(jobs[w]) : jobs'[w][k] = jobs[w][k]
      BY <1>0, <3>2
    <3>4. \A k \in DOMAIN jobs'[w] : jobs'[w][k] = At(w, Taken(w)' + k)
      <4>1. \A k \in 1..Len(jobs[w]) : jobs[w][k] = At(w, Taken(w) + k)
        BY <2>1 DEF LaneInStep, Typed
      <4>2. At(w, Taken(w) + (Len(jobs[w]) + 1)) = pulled
        <5>1. Taken(w) + (Len(jobs[w]) + 1) = c + 1
          BY <2>2
        <5>. QED BY <3>1, <5>1
      <4>. QED BY <2>2, <3>3, <4>1, <4>2
    <3>5. Taken(w)' + Len(jobs'[w]) = c + 1
      BY <2>2, <3>3
    <3>6. At(w, (c + 1) + 1) > pulled /\ At(w, c + 1) <= pulled
      BY <1>0, <2>4, <3>1, SinkAssumption
    <3>7. sinks' = sinks /\ worker' = worker /\ batch' = batch /\ closed' = closed
      OBVIOUS
    <3>8. worker[w] # "ended"
      BY <1>0, <2>1 DEF LaneInStep
    <3>. QED BY <2>1, <3>4, <3>5, <3>6, <3>7, <3>8 DEF LaneInStep
  <2>6. CASE w # Lane(pulled)
    <3>1. At(w, c + 1) # pulled
      BY <2>4, <2>6
    <3>2. At(w, c + 1) > pulled /\ (c > 0 => At(w, c) <= pulled)
      BY <1>0, <2>3, <2>4, <3>1
    <3>3. jobs'[w] = jobs[w]
      BY <2>6 DEF Typed
    <3>. QED BY <2>1, <2>2, <3>2, <3>3 DEF LaneInStep
  <2>. QED BY <2>5, <2>6
<1>3. Folding'
  BY DEF Folding, WholeIn, Dealing, Working, Stopped
<1>. QED BY <1>1, <1>2, <1>3

(* Moving one across a sum.                                                *)
LEMMA Moved ==
  ASSUME NEW a \in Int, NEW k \in Int
  PROVE  a + (k + 1) = (a + 1) + k /\ (a + 1) + (k - 1) = a + k
OBVIOUS

(* It gives the batch up when the context is cancelled; nothing is said of *)
(* the lanes from then on.                                                 *)
LEMMA SendCancelledKeeps == ASSUME WInv, SendCancelled PROVE WInv'
<1>. USE DEF WInv, SendCancelled, Stop, lanes, crew, flags, fold, contexts
<1>1. Typed' /\ Raised' /\ Stopped'
  BY DEF Typed, Raised, Stopped, Dealing, Working
<1>2. LanesInStep'
  BY DEF LanesInStep
<1>3. Folding'
  BY DEF Folding, WholeIn, Dealing, Working, Stopped
<1>. QED BY <1>1, <1>2, <1>3

(* It closes the lanes.                                                    *)
LEMMA CloseLanesKeeps == ASSUME WInv, CloseLanes PROVE WInv'
<1>. USE DEF WInv, CloseLanes, crew, flags, fold, contexts
<1>1. Typed' /\ Raised' /\ Stopped'
  BY DEF Typed, Raised, Stopped, Dealing, Working
<1>2. LanesInStep'
  BY LanesKeep DEF Dealing, Working, Sent, Typed
<1>3. Folding'
  BY DEF Folding, WholeIn, Dealing, Working, Stopped
<1>. QED BY <1>1, <1>2, <1>3

(* A worker that has not ended works while the batches are dealt, or after *)
(* the dispatcher's goroutine has gone.                                    *)
LEMMA WhileWorking ==
  ASSUME WInv, NEW w \in Workers, worker[w] # "ended"
  PROVE  Working /\ returned = "none"
BY DEF WInv, Folding, Stopped

(* The rest of the invariant, when a worker takes a step.                  *)
LEMMA WorkersKeep ==
  ASSUME WInv, Working, returned = "none", UNCHANGED <<pc, returned>>
  PROVE  Folding'
BY DEF Folding, Dealing, Working

(* A worker takes the head of its lane.                                    *)
LEMMA WorkerTakesKeeps == ASSUME WInv, NEW w \in Workers, WorkerTakes(w) PROVE WInv'
<1>0. Working /\ returned = "none" /\ worker[w] = "idle"
  BY WhileWorking DEF WorkerTakes
<1>. USE DEF WInv, flags, fold, contexts
<1>a. jobs[w] \in Seq(Nat) /\ jobs[w] # <<>> /\ Head(jobs[w]) \in Nat /\ Tail(jobs[w]) \in Seq(Nat)
  BY DEF WorkerTakes, Typed
<1>1. Typed' /\ Raised' /\ Stopped'
  BY <1>a DEF WorkerTakes, Typed, Raised, Stopped, Dealing, Working
<1>2. LanesInStep'
  <2>. SUFFICES ASSUME Dealing, errs = {}, dispatchErr = "none", NEW v \in Workers
                PROVE  LaneInStep(v)'
    BY DEF LanesInStep, Dealing, WorkerTakes
  <2>1. LaneInStep(v) /\ LaneInStep(w) /\ ~failed
    BY <1>0 DEF LanesInStep, Raised
  <2>2. CASE v # w
    <3>1. jobs'[v] = jobs[v] /\ worker'[v] = worker[v] /\ batch'[v] = batch[v] /\ sinks'[v] = sinks[v]
          /\ Sent' = Sent /\ closed' = closed
      BY <2>1, <2>2 DEF WorkerTakes, Typed, Sent
    <3>. QED BY <2>1, <3>1, LaneKeeps
  <2>3. CASE v = w
    <3>1. /\ worker'[w] = "consume" /\ batch'[w] = Head(jobs[w]) /\ jobs'[w] = Tail(jobs[w])
          /\ sinks' = sinks /\ Sent' = Sent
      BY <2>1 DEF WorkerTakes, Typed, Sent
    <3>2. Taken(w) = Len(sinks[w]) /\ Taken(w)' = Len(sinks[w]) + 1 /\ Len(sinks[w]) \in Nat
      BY <1>0, <3>1 DEF Taken, Typed
    <3>3. /\ Len(jobs[w]) \in Nat \ {0} /\ Len(jobs'[w]) = Len(jobs[w]) - 1
          /\ DOMAIN jobs'[w] = 1..(Len(jobs[w]) - 1) /\ batch'[w] = jobs[w][1]
          /\ \A k \in 1..(Len(jobs[w]) - 1) : jobs'[w][k] = jobs[w][k + 1]
      BY <1>a, <3>1
    <3>. PICK a, l : a = Len(sinks[w]) /\ l = Len(jobs[w])
      OBVIOUS
    <3>b. /\ a \in Nat /\ l \in Nat \ {0} /\ Taken(w) = a /\ Taken(w)' = a + 1
          /\ Len(jobs'[w]) = l - 1 /\ DOMAIN jobs'[w] = 1..(l - 1) /\ DOMAIN jobs[w] = 1..l
      BY <1>a, <3>2, <3>3
    <3>4. \A k \in 1..l : jobs[w][k] = At(w, a + k)
      BY <2>1, <3>b DEF LaneInStep
    <3>5. batch'[w] = At(w, Len(sinks[w]) + 1)
      BY <3>3, <3>4, <3>b
    <3>6. ASSUME NEW k \in DOMAIN jobs'[w] PROVE jobs'[w][k] = At(w, Taken(w)' + k)
      <4>1. k \in 1..(l - 1) /\ k + 1 \in 1..l /\ jobs'[w][k] = jobs[w][k + 1] /\ k \in Nat
        BY <3>3, <3>b
      <4>2. a + (k + 1) = (a + 1) + k
        <5>1. a \in Int /\ k \in Int
          BY <3>b, <4>1
        <5>. QED BY <5>1, Moved, Zenon
      <4>. QED BY <3>4, <3>b, <4>1, <4>2
    <3>7. Taken(w)' + Len(jobs'[w]) = Taken(w) + Len(jobs[w])
      <4>1. (a + 1) + (l - 1) = a + l
        <5>1. a \in Int /\ l \in Int
          BY <3>b
        <5>. QED BY <5>1, Moved, Zenon
      <4>. QED BY <3>b, <4>1
    <3>. QED BY <2>1, <2>3, <3>1, <3>5, <3>6, <3>7 DEF LaneInStep
  <2>. QED BY <2>2, <2>3
<1>3. Folding'
  BY <1>0, WorkersKeep DEF WorkerTakes
<1>. QED BY <1>1, <1>2, <1>3

(* Its sink consumes the batch, refusing the next or not.                  *)
LEMMA WorkerConsumesKeeps == ASSUME WInv, NEW w \in Workers, WorkerConsumes(w) PROVE WInv'
<1>0. Working /\ returned = "none" /\ worker[w] = "consume"
  BY WhileWorking DEF WorkerConsumes
<1>. USE DEF WInv, lanes, fold, contexts
<1>a. batch[w] \in Nat /\ sinks[w] \in Seq(Nat) /\ sinks'[w] = Append(sinks[w], batch[w])
  BY DEF WorkerConsumes, Typed
<1>1. Typed' /\ Raised' /\ Stopped'
  <2>1. sinks' \in [Workers -> Seq(Nat)]
    BY <1>a DEF WorkerConsumes, Typed
  <2>2. serial' \in BOOLEAN /\ (serial => serial')
    BY DEF WorkerConsumes, Typed
  <2>. QED BY <2>1, <2>2 DEF WorkerConsumes, Typed, Raised, Stopped, Dealing, Working
<1>2. LanesInStep'
  <2>. SUFFICES ASSUME Dealing, errs = {}, dispatchErr = "none", NEW v \in Workers
                PROVE  LaneInStep(v)'
    BY DEF LanesInStep, Dealing, WorkerConsumes
  <2>1. LaneInStep(v) /\ LaneInStep(w)
    BY <1>0 DEF LanesInStep
  <2>2. CASE v # w
    <3>1. jobs'[v] = jobs[v] /\ worker'[v] = worker[v] /\ batch'[v] = batch[v] /\ sinks'[v] = sinks[v]
          /\ Sent' = Sent /\ closed' = closed
      BY <2>2 DEF WorkerConsumes, Typed, Sent
    <3>. QED BY <2>1, <3>1, LaneKeeps
  <2>3. CASE v = w
    <3>1. worker'[w] = "idle" /\ jobs' = jobs /\ Sent' = Sent
      BY DEF WorkerConsumes, Typed, Sent
    <3>2. /\ Len(sinks'[w]) = Len(sinks[w]) + 1 /\ Len(sinks[w]) \in Nat
          /\ DOMAIN sinks[w] = 1..Len(sinks[w]) /\ DOMAIN sinks'[w] = 1..(Len(sinks[w]) + 1)
          /\ sinks'[w][Len(sinks[w]) + 1] = batch[w]
          /\ \A k \in 1..Len(sinks[w]) : sinks'[w][k] = sinks[w][k]
      BY <1>a
    <3>3. Taken(w)' = Taken(w)
      BY <1>0, <3>1, <3>2 DEF Taken
    <3>4. batch[w] = At(w, Len(sinks[w]) + 1) /\ \A k \in 1..Len(sinks[w]) : sinks[w][k] = At(w, k)
      BY <1>0, <2>1, <3>2 DEF LaneInStep
    <3>5. \A k \in DOMAIN sinks'[w] : sinks'[w][k] = At(w, k)
      BY <3>2, <3>4
    <3>. QED BY <2>1, <2>3, <3>1, <3>3, <3>5 DEF LaneInStep
  <2>. QED BY <2>2, <2>3
<1>3. Folding'
  BY <1>0, WorkersKeep DEF WorkerConsumes
<1>. QED BY <1>1, <1>2, <1>3

(* Or its sink fails, and the flag and the error are both raised.          *)
LEMMA WorkerFailsKeeps == ASSUME WInv, NEW w \in Workers, NEW f, WorkerFails(w, f) PROVE WInv'
<1>0. Working /\ returned = "none"
  BY WhileWorking DEF WorkerFails
<1>. USE DEF WInv, lanes, fold
<1>1. Typed' /\ Raised' /\ Stopped'
  BY DEF WorkerFails, Typed, Raised, Stopped, Dealing, Working
<1>2. LanesInStep'
  BY DEF LanesInStep, WorkerFails
<1>3. Folding'
  BY <1>0, WorkersKeep DEF WorkerFails
<1>. QED BY <1>1, <1>2, <1>3

(* A worker ends when its lane is closed and empty.                        *)
LEMMA WorkerEndsKeeps == ASSUME WInv, NEW w \in Workers, WorkerEnds(w) PROVE WInv'
<1>0. Working /\ returned = "none" /\ worker[w] = "idle" /\ closed /\ jobs[w] = <<>>
  BY WhileWorking DEF WorkerEnds
<1>. USE DEF WInv, WorkerEnds, lanes, flags, fold, contexts
<1>1. Typed' /\ Raised' /\ Stopped'
  BY DEF Typed, Raised, Stopped, Dealing, Working
<1>2. LanesInStep'
  <2>. SUFFICES ASSUME Dealing, errs = {}, dispatchErr = "none", NEW v \in Workers
                PROVE  LaneInStep(v)'
    BY DEF LanesInStep, Dealing
  <2>1. LaneInStep(v)
    BY <1>0 DEF LanesInStep
  <2>2. CASE v # w
    <3>1. worker'[v] = worker[v] /\ Sent' = Sent
      BY <2>2 DEF Typed, Sent
    <3>. QED BY <2>1, <3>1, LaneKeeps
  <2>3. CASE v = w
    <3>1. worker'[w] = "ended" /\ Sent' = Sent
      BY DEF Typed, Sent
    <3>2. Taken(w)' = Taken(w)
      BY <1>0, <3>1 DEF Taken
    <3>. QED BY <1>0, <2>1, <2>3, <3>1, <3>2 DEF LaneInStep
  <2>. QED BY <2>2, <2>3
<1>3. Folding'
  BY <1>0, WorkersKeep
<1>. QED BY <1>1, <1>2, <1>3

(* A sink whose worker has ended by itself has the whole of its deal.      *)
LEMMA SinkDealt ==
  ASSUME Typed, NEW w \in Workers, LaneInStep(w), worker[w] = "ended", Sent = pulled
  PROVE  sinks[w] = Dealt(w, pulled)
<1>. PICK c : c = Len(sinks[w])
  OBVIOUS
<1>1. c \in Nat /\ sinks[w] \in Seq(Nat) /\ DOMAIN sinks[w] = 1..c /\ pulled \in Nat
  BY DEF Typed
<1>2. Taken(w) + Len(jobs[w]) = c
  <2>1. Taken(w) = c /\ jobs[w] = <<>>
    BY <1>1 DEF Taken, LaneInStep
  <2>. QED BY <1>1, <2>1
<1>3. At(w, c + 1) > pulled /\ (c > 0 => At(w, c) <= pulled)
  BY <1>2 DEF LaneInStep
<1>4. (pulled + N - 1 - w) \div N = c
  BY <1>1, <1>3, HowMany
<1>5. /\ DOMAIN Dealt(w, pulled) = 1..c /\ Dealt(w, pulled) \in Seq(Nat)
      /\ \A k \in 1..c : Dealt(w, pulled)[k] = At(w, k)
  BY <1>1, <1>4, DealtIs
<1>6. \A k \in 1..c : sinks[w][k] = At(w, k)
  BY <1>1 DEF LaneInStep
<1>. PICK p, q : p = sinks[w] /\ q = Dealt(w, pulled)
  OBVIOUS
<1>7. /\ p \in Seq(Nat) /\ q \in Seq(Nat) /\ DOMAIN p = 1..c /\ DOMAIN q = 1..c
      /\ \A k \in 1..c : p[k] = q[k]
  BY <1>1, <1>5, <1>6
<1>8. p = q
  <2>1. Len(p) = c /\ Len(q) = c
    BY <1>1, <1>7
  <2>. QED BY <1>7, <2>1, SeqEqual
<1>. QED BY <1>8

(* After the workers: an error is returned, or the fold begins with every  *)
(* sink whole.                                                             *)
LEMMA JudgeKeeps == ASSUME WInv, Judge PROVE WInv'
<1>. DEFINE echo == errs # {} /\ dispatchErr = "ctx" /\ ~parent
            all  == IF dispatchErr = "none" \/ echo THEN errs ELSE errs \union {dispatchErr}
<1>0. /\ pc = "wait" /\ (\A w \in Workers : worker[w] = "ended")
      /\ UNCHANGED <<batches, pulled, jobs, closed, worker, batch, sinks, bad, failed, serial,
                     parent, cancelled, out, dispatchErr>>
      /\ \/ pc' = "done" /\ returned' = "error" /\ errs' # {} /\ folded' = folded
         \/ /\ all = {} /\ ~parent /\ pc' = "fold" /\ folded' = 1
            /\ returned' = returned /\ errs' = errs
  BY DEF Judge, Fail, lanes, crew, contexts
<1>. USE DEF WInv
<1>1. Typed' /\ Raised' /\ Stopped'
  BY <1>0 DEF Typed, Raised, Stopped, Dealing, Working
<1>2. LanesInStep'
  BY <1>0 DEF LanesInStep, Dealing, Working
<1>3. CASE pc' = "done"
  <2>1. Folding'
    BY <1>0, <1>3 DEF Folding, Dealing, Working
  <2>. QED BY <1>1, <1>2, <2>1
<1>4. CASE pc' = "fold"
  <2>1. /\ all = {} /\ ~parent /\ folded' = 1 /\ returned' = returned /\ errs' = errs
    BY <1>0, <1>4
  <2>2. errs = {} /\ dispatchErr = "none" /\ bad = {} /\ ~cancelled
    BY <1>0, <2>1 DEF Raised
  <2>3. returned = "none" /\ (serial \/ pulled = batches) /\ Dealing /\ Sent = pulled
    BY <1>0, <2>2 DEF Stopped, Dealing, Working, Sent
  <2>4. \A w \in Workers : sinks[w] = Dealt(w, pulled)
    <3>1. \A w \in Workers : LaneInStep(w)
      BY <2>2, <2>3 DEF LanesInStep
    <3>. QED BY <1>0, <2>3, <3>1, SinkDealt
  <2>5. sinks[0] = Turned(1, pulled) /\ \A w \in 1..(N - 1) : sinks[w] = Dealt(w, pulled)
    <3>1. pulled \in Nat
      BY DEF Typed
    <3>2. \A w \in 1..(N - 1) : w \in Workers
      BY SinkAssumption DEF Workers
    <3>. QED BY <2>4, <3>1, <3>2, Given, TurnedIs
  <2>6. 1 \in 1..N
    BY SinkAssumption
  <2>7. pc' = "fold" /\ ~Working' /\ Turned(1, pulled)' = Turned(1, pulled)
        /\ \A w \in 1..(N - 1) : Dealt(w, pulled)' = Dealt(w, pulled)
    BY <1>0, <1>4 DEF Dealing, Working, Turned, Dealt
  <2>8. Folding'
    BY <1>0, <1>4, <2>1, <2>2, <2>3, <2>5, <2>6, <2>7 DEF Folding
  <2>. QED BY <1>1, <1>2, <2>8
<1>. QED BY <1>0, <1>3, <1>4

(* Everyone's deals in turn are all the batches.                           *)
LEMMA TurnedHolds ==
  ASSUME NEW n \in Nat
  PROVE  Holds(Turned(N, n), 1..n)
<1>1. {b \in 1..n : Lane(b) < N} = 1..n
  <2>1. \A b \in 1..n : Lane(b) \in Workers
    BY Covered
  <2>. QED BY <2>1, SinkAssumption DEF Workers
<1>2. N \in 1..N
  BY SinkAssumption
<1>. QED BY <1>1, <1>2, TurnedIs

(* After the workers, nothing is said of the lanes.                        *)
LEMMA AfterDealing ==
  ASSUME WInv, ~Working,
         UNCHANGED <<batches, jobs, closed, worker, batch, bad, failed, serial,
                     parent, cancelled, dispatchErr>>,
         pulled' \in 0..batches, sinks' \in [Workers -> Seq(Nat)], folded' \in Nat,
         pc' \in {"fold", "rest", "finish", "answer", "done"}, errs = {} \/ errs' # {}
  PROVE  Typed' /\ LanesInStep' /\ Raised' /\ Stopped'
<1>1. ~Working'
  BY DEF Dealing, Working
<1>2. Typed' /\ LanesInStep'
  BY <1>1 DEF WInv, Typed, LanesInStep, Working
<1>3. Raised' /\ Stopped'
  BY <1>1 DEF WInv, Raised, Stopped, Dealing, Working
<1>. QED BY <1>2, <1>3

(* The partitioned fold makes one result in worker order.                  *)
LEMMA FoldPartitionedKeeps == ASSUME WInv, FoldPartitioned PROVE WInv'
<1>. USE DEF lanes, crew, flags, contexts
<1>0. /\ pc = "fold" /\ ~serial /\ folded = 1 /\ out' = InWorkerOrder /\ pc' = "answer"
      /\ UNCHANGED <<batches, pulled, jobs, closed, worker, batch, sinks, bad, failed, serial, errs,
                     parent, cancelled, folded, returned, dispatchErr>>
  BY DEF FoldPartitioned
<1>1. Typed' /\ LanesInStep' /\ Raised' /\ Stopped'
  BY <1>0, AfterDealing DEF WInv, Typed, Dealing, Working, Raised
<1>2. pulled = batches /\ pulled \in Nat /\ sinks[0] = Turned(1, pulled)
      /\ \A w \in 1..(N - 1) : sinks[w] = Dealt(w, pulled)
  BY <1>0 DEF WInv, Folding, Typed
<1>3. out' = Turned(N, pulled)
  <2>1. ASSUME NEW i \in 1..N PROVE sinks[i - 1] = Dealt(i - 1, pulled)
    <3>1. CASE i = 1
      BY <1>2, <3>1, TurnedIs
    <3>2. CASE i # 1
      <4>1. i - 1 \in 1..(N - 1)
        BY <3>2, SinkAssumption
      <4>. QED BY <1>2, <4>1
    <3>. QED BY <3>1, <3>2
  <2>2. [i \in 1..N |-> sinks[i - 1]] = [i \in 1..N |-> Dealt(i - 1, pulled)]
    BY <2>1
  <2>. QED BY <1>0, <2>2 DEF InWorkerOrder, Turned
<1>4. WholeIn(out)'
  <2>1. Holds(out', 1..pulled)
    BY <1>2, <1>3, TurnedHolds
  <2>2. Holds(out, 1..pulled)' /\ Turned(N, batches)' = Turned(N, batches)
    BY <1>0, <2>1 DEF Holds, Distinct, Turned, Dealt
  <2>. QED BY <1>0, <1>2, <1>3, <2>2 DEF WholeIn
<1>5. Folding'
  BY <1>0, <1>4 DEF WInv, Folding, Dealing, Working
<1>. QED BY <1>1, <1>5 DEF WInv

(* The fold merges one sink into the first.                                *)
LEMMA FoldOneKeeps == ASSUME WInv, FoldOne PROVE WInv'
<1>. USE DEF lanes, crew, flags, contexts
<1>0. /\ pc = "fold" /\ folded < N /\ folded' = folded + 1 /\ pc' = "fold"
      /\ sinks' = [sinks EXCEPT ![0] = @ \o sinks[folded], ![folded] = <<>>]
      /\ UNCHANGED <<batches, pulled, jobs, closed, worker, batch, bad, failed, serial, errs,
                     parent, cancelled, out, returned, dispatchErr>>
  BY DEF FoldOne
<1>1. /\ folded \in 1..(N - 1) /\ folded \in Workers /\ folded # 0 /\ 0 \in Workers
      /\ sinks \in [Workers -> Seq(Nat)] /\ pulled \in Nat /\ pulled \in 0..batches
      /\ (serial \/ pulled = batches) /\ sinks[0] = Turned(folded, pulled)
      /\ \A w \in folded..(N - 1) : sinks[w] = Dealt(w, pulled)
  BY <1>0, SinkAssumption DEF WInv, Folding, Typed, Workers
<1>2. /\ sinks'[0] = sinks[0] \o sinks[folded]
      /\ \A w \in (folded + 1)..(N - 1) : sinks'[w] = sinks[w]
      /\ sinks' \in [Workers -> Seq(Nat)]
  <2>1. sinks[0] \o sinks[folded] \in Seq(Nat) /\ <<>> \in Seq(Nat)
    BY <1>1
  <2>2. \A w \in (folded + 1)..(N - 1) : w \in Workers /\ w # folded /\ w # 0
    BY <1>1, SinkAssumption DEF Workers
  <2>. QED BY <1>0, <1>1, <2>1, <2>2
<1>3. Typed' /\ LanesInStep' /\ Raised' /\ Stopped'
  <2>1. folded' \in Nat /\ ~Working /\ pulled' \in 0..batches
    BY <1>0, <1>1 DEF Dealing, Working
  <2>. QED BY <1>0, <1>2, <2>1, AfterDealing
<1>4. sinks'[0] = Turned(folded + 1, pulled) /\ folded + 1 \in 1..N
  <2>1. folded \in folded..(N - 1)
    BY <1>1, SinkAssumption
  <2>2. sinks'[0] = Turned(folded, pulled) \o Dealt(folded, pulled)
    BY <1>1, <1>2, <2>1
  <2>3. Turned(folded + 1, pulled) = Turned(folded, pulled) \o Dealt(folded, pulled)
    BY <1>1, TurnedIs
  <2>4. folded + 1 \in 1..N
    BY <1>1, SinkAssumption
  <2>. QED BY <2>2, <2>3, <2>4
<1>5. \A w \in (folded + 1)..(N - 1) : sinks'[w] = Dealt(w, pulled)
  <2>1. \A w \in (folded + 1)..(N - 1) : w \in folded..(N - 1)
    BY <1>1, SinkAssumption
  <2>. QED BY <1>1, <1>2, <2>1
<1>6. /\ sinks'[0] = Turned(folded, pulled)'
      /\ \A w \in (folded' .. (N - 1)) : sinks'[w] = Dealt(w, pulled)'
      /\ folded' \in 1..N
  BY <1>0, <1>4, <1>5 DEF Turned, Dealt
<1>7. Folding'
  BY <1>0, <1>1, <1>6 DEF WInv, Folding, Dealing, Working
<1>. QED BY <1>3, <1>7 DEF WInv

(* The last sink is merged.                                                *)
LEMMA FoldEndsKeeps == ASSUME WInv, FoldEnds PROVE WInv'
<1>. USE DEF lanes, crew, flags, contexts, fold
<1>0. /\ pc = "fold" /\ folded = N /\ pc' = (IF serial THEN "rest" ELSE "finish")
      /\ UNCHANGED <<batches, pulled, jobs, closed, worker, batch, sinks, bad, failed, serial, errs,
                     parent, cancelled, folded, out, returned, dispatchErr>>
  BY DEF FoldEnds
<1>1. Typed' /\ LanesInStep' /\ Raised' /\ Stopped'
  BY <1>0, AfterDealing DEF WInv, Typed, Dealing, Working, Raised
<1>2. Holds(sinks[0], 1..pulled) /\ (serial \/ pulled = batches) /\ sinks[0] = Turned(N, pulled)
  BY <1>0, TurnedHolds DEF WInv, Folding, Typed
<1>3. /\ pc' = "rest" => serial' /\ Holds(sinks[0], 1..pulled)'
      /\ pc' = "finish" => WholeIn(sinks[0])'
  BY <1>0, <1>2 DEF WholeIn, Holds, Distinct, Turned, Dealt
<1>4. Folding'
  BY <1>0, <1>3 DEF WInv, Folding, Dealing, Working
<1>. QED BY <1>1, <1>4 DEF WInv

(* A drain that was asked for serial goes on with the rest of the input.   *)
LEMMA RestBatchKeeps == ASSUME WInv, RestBatch PROVE WInv'
<1>. USE DEF lanes, crew, flags, contexts, fold
<1>0. /\ pc = "rest" /\ pulled < batches /\ pulled' = pulled + 1 /\ pc' = "rest"
      /\ sinks' = [sinks EXCEPT ![0] = Append(@, pulled + 1)]
      /\ UNCHANGED <<batches, jobs, closed, worker, batch, bad, failed, serial, errs,
                     parent, cancelled, folded, out, returned, dispatchErr>>
  BY DEF RestBatch
<1>1. /\ pulled \in Nat /\ batches \in Nat /\ sinks \in [Workers -> Seq(Nat)] /\ 0 \in Workers
      /\ serial /\ Holds(sinks[0], 1..pulled) /\ sinks[0] \in Seq(Nat) /\ folded \in Nat
  BY <1>0, Given DEF WInv, Typed, Folding
<1>2. sinks'[0] = Append(sinks[0], pulled + 1) /\ sinks' \in [Workers -> Seq(Nat)]
  BY <1>0, <1>1
<1>3. Typed' /\ LanesInStep' /\ Raised' /\ Stopped'
  <2>1. ~Working /\ pulled' \in 0..batches /\ folded' \in Nat
    BY <1>0, <1>1 DEF Dealing, Working
  <2>. QED BY <1>0, <1>2, <2>1, AfterDealing
<1>4. Holds(sinks'[0], 1..(pulled + 1))
  <2>. PICK q, x : q = sinks[0] /\ x = pulled + 1
    OBVIOUS
  <2>1. q \in Seq(Nat) /\ Holds(q, 1..pulled) /\ x \in Nat
    BY <1>1
  <2>2. Holds(<<x>>, {x})
    BY <2>1 DEF Holds, Distinct, ToSet
  <2>3. (1..pulled) \cap {x} = {} /\ (1..pulled) \union {x} = 1..(pulled + 1)
    BY <1>1
  <2>4. Holds(q \o <<x>>, (1..pulled) \union {x})
    BY <2>1, <2>2, <2>3, JoinedHold
  <2>5. Append(q, x) = q \o <<x>>
    BY <2>1
  <2>. QED BY <1>2, <2>3, <2>4, <2>5
<1>5. Holds(sinks[0], 1..pulled)'
  BY <1>0, <1>4 DEF Holds, Distinct
<1>6. Folding'
  BY <1>0, <1>1, <1>5 DEF WInv, Folding, Dealing, Working
<1>. QED BY <1>3, <1>6 DEF WInv

(* The rest has ended.                                                     *)
LEMMA RestEndsKeeps == ASSUME WInv, RestEnds PROVE WInv'
<1>. USE DEF lanes, crew, flags, contexts, fold
<1>0. /\ pc = "rest" /\ (pulled = batches \/ cancelled) /\ pc' = "finish"
      /\ UNCHANGED <<batches, pulled, jobs, closed, worker, batch, sinks, bad, failed, serial, errs,
                     parent, cancelled, folded, out, returned, dispatchErr>>
  BY DEF RestEnds
<1>1. Typed' /\ LanesInStep' /\ Raised' /\ Stopped'
  BY <1>0, AfterDealing DEF WInv, Typed, Dealing, Working, Raised
<1>2. serial /\ Holds(sinks[0], 1..pulled) /\ (pulled = batches \/ parent)
  BY <1>0 DEF WInv, Folding, Raised
<1>3. WholeIn(sinks[0])'
  BY <1>0, <1>2 DEF WholeIn, Holds, Distinct
<1>4. Folding'
  BY <1>0, <1>3 DEF WInv, Folding, Dealing, Working
<1>. QED BY <1>1, <1>4 DEF WInv

(* The merged sink is finished.                                            *)
LEMMA FinishKeeps == ASSUME WInv, Finish PROVE WInv'
<1>. USE DEF lanes, crew, flags, contexts
<1>0. /\ pc = "finish" /\ out' = sinks[0] /\ pc' = "answer"
      /\ UNCHANGED <<batches, pulled, jobs, closed, worker, batch, sinks, bad, failed, serial, errs,
                     parent, cancelled, folded, returned, dispatchErr>>
  BY DEF Finish
<1>1. Typed' /\ LanesInStep' /\ Raised' /\ Stopped'
  BY <1>0, AfterDealing DEF WInv, Typed, Dealing, Working, Raised
<1>2. WholeIn(sinks[0])
  BY <1>0 DEF WInv, Folding
<1>3. WholeIn(out)'
  BY <1>0, <1>2 DEF WholeIn, Holds, Distinct, Turned, Dealt
<1>4. Folding'
  BY <1>0, <1>3 DEF WInv, Folding, Dealing, Working
<1>. QED BY <1>1, <1>4 DEF WInv

(* A merge, a consume of the rest or the finish fails.                     *)
LEMMA FoldFailsKeeps == ASSUME WInv, FoldFails PROVE WInv'
<1>. USE DEF lanes, crew, contexts
<1>0. /\ pc \in {"fold", "rest", "finish"} /\ pc' = "done" /\ returned' = "error" /\ errs' # {}
      /\ UNCHANGED <<batches, pulled, jobs, closed, worker, batch, sinks, bad, failed, serial,
                     parent, cancelled, folded, out, dispatchErr>>
  BY DEF FoldFails, Fail
<1>1. Typed' /\ LanesInStep' /\ Raised' /\ Stopped'
  BY <1>0, AfterDealing DEF WInv, Typed, Dealing, Working
<1>2. Folding'
  BY <1>0 DEF WInv, Folding, Dealing, Working
<1>. QED BY <1>1, <1>2 DEF WInv

(* The answer is given, or withheld when the caller's context has ended.   *)
LEMMA AnswerKeeps == ASSUME WInv, Answer PROVE WInv'
<1>. USE DEF lanes, crew, contexts
<1>0. /\ pc = "answer" /\ pc' = "done"
      /\ returned' = (IF parent THEN "error" ELSE "answer")
      /\ errs' = (IF parent THEN {"ctx"} ELSE errs)
      /\ UNCHANGED <<batches, pulled, jobs, closed, worker, batch, sinks, bad, failed, serial,
                     parent, cancelled, folded, out, dispatchErr>>
  BY DEF Answer
<1>1. Typed' /\ LanesInStep' /\ Raised' /\ Stopped'
  <2>1. errs = {} \/ errs' # {}
    BY <1>0
  <2>. QED BY <1>0, <2>1, AfterDealing DEF WInv, Typed, Dealing, Working
<1>2. errs = {} /\ bad = {} /\ dispatchErr = "none" /\ WholeIn(out)
  BY <1>0 DEF WInv, Folding
<1>3. ~parent => Holds(out, 1..batches)' /\ (~serial => out = Turned(N, batches))'
  BY <1>0, <1>2 DEF WholeIn, Holds, Distinct, Turned, Dealt
<1>4. Folding'
  BY <1>0, <1>2, <1>3 DEF WInv, Folding, Dealing, Working
<1>. QED BY <1>1, <1>4 DEF WInv

(* A Goexit takes drain's goroutine, and nothing is said of the lanes.     *)
LEMMA DrainExitsKeeps == ASSUME WInv, DrainExits PROVE WInv'
<1>. USE DEF WInv, DrainExits, lanes, crew, flags, fold
<1>1. returned = "none"
  BY DEF Folding, Stopped, Working, Dealing
<1>2. Typed' /\ Raised' /\ Stopped'
  BY <1>1 DEF Typed, Raised, Stopped, Dealing, Working
<1>3. LanesInStep'
  BY DEF LanesInStep, Dealing
<1>4. Folding'
  BY <1>1 DEF Folding, Dealing, Working
<1>. QED BY <1>2, <1>3, <1>4

(* Every step keeps the invariant.                                         *)
LEMMA WStep == ASSUME WInv, [Next]_vars PROVE WInv'
<1>1. ASSUME NEW w \in Workers, Work(w) PROVE WInv'
  BY <1>1, WorkerTakesKeeps, WorkerConsumesKeeps, WorkerEndsKeeps, WorkerFailsKeeps DEF Work
<1>2. ASSUME Drain PROVE WInv'
  BY <1>2, PullBatchKeeps, PullStopsKeeps, SendKeeps, SendCancelledKeeps, CloseLanesKeeps,
     JudgeKeeps, FoldPartitionedKeeps, FoldOneKeeps, FoldEndsKeeps, RestBatchKeeps,
     RestEndsKeeps, FinishKeeps, FoldFailsKeeps, DrainExitsKeeps, AnswerKeeps DEF Drain
<1>3. CASE UNCHANGED vars
  BY <1>3 DEF vars, lanes, crew, flags, contexts, fold, WInv, Typed, LanesInStep, LaneInStep,
              Taken, Sent, Dealing, Working, Raised, Stopped, Folding, WholeIn, Holds, Distinct, Turned, Dealt
<1>. QED BY <1>1, <1>2, <1>3, ParentEndsKeeps DEF Next

(* The inductive invariant holds of every drain.                           *)
THEOREM SinkInvariance == Safe => []WInv
<1>1. Init => WInv
  BY WInit
<1>2. WInv /\ [Next]_vars => WInv'
  BY WStep
<1>. QED BY <1>1, <1>2, PTL DEF Safe

(* A drain that answers has consumed every batch of its input exactly      *)
(* once, and swallowed no error on the way (parallelsink.go:105-262): for  *)
(* any number of workers and batches.                                      *)
THEOREM AnswerHasEveryBatch == Spec => []AnswerIsWhole
<1>1. WInv => AnswerIsWhole
  <2>. SUFFICES ASSUME WInv, returned = "answer"
                PROVE  /\ Len(out) = batches /\ ToSet(out) = 1..batches
                       /\ bad = {} /\ errs = {} /\ dispatchErr = "none"
    BY DEF AnswerIsWhole
  <2>1. /\ Holds(out, 1..batches) /\ batches \in Nat
        /\ bad = {} /\ errs = {} /\ dispatchErr = "none"
    BY DEF WInv, Folding, Typed
  <2>2. Len(out) = batches
    BY <2>1, HowManySerial DEF Holds, Distinct
  <2>. QED BY <2>1, <2>2 DEF Holds
<1>. QED BY <1>1, SinkInvariance, PTL DEF Spec

(* And in an order that is fixed by the number of workers and of batches,  *)
(* whatever the interleaving was: the reproducibility the round-robin      *)
(* lanes are for.                                                          *)
THEOREM OrderIsFixed == Spec => []SameEveryRun
<1>1. WInv => SameEveryRun
  BY DEF WInv, Folding, SameEveryRun, DealtOut, Turned
<1>. QED BY <1>1, SinkInvariance, PTL DEF Spec

=============================================================================
