--------------------------- MODULE ParProbeProofs ---------------------------
(***************************************************************************)
(* Proofs about ParProbe, for any probe sides, any number of workers and   *)
(* any depth of the queues: it implements the serial join's stream.        *)
(*                                                                         *)
(* The argument is about what each lane owes the consumer.  A lane is told *)
(* the answers of its own worker, every N-th, each as rows and then a      *)
(* terminator; from the answer the consumer wants of a lane (Owed) to the  *)
(* answer the dispatcher hands it next (Due), what is in the lane, what    *)
(* its worker has yet to send and what it has yet to do follow one another *)
(* with nothing between.  So the head of the lane whose turn it is is the  *)
(* next pull of the serial stream, and a lane found closed and empty by a  *)
(* consumer whose context has not ended is the end of the input.           *)
(***************************************************************************)
EXTENDS ParProbe, FoldFacts, SequenceTheorems, TLAPS

-----------------------------------------------------------------------------
(* The probe side and its stream.                                          *)

(* The constants, and a probe side's batches.                              *)
LEMMA Sides ==
  ASSUME probe \in Probes
  PROVE  /\ Batches \in Seq(Seq({"empty", "rows", "fail", "exit"})) /\ Len(Batches) \in Nat
         /\ \A k \in 1..Len(Batches) :
              /\ FanOut(Batches[k]) /\ Batches[k] \in Seq({"empty", "rows", "fail", "exit"})
              /\ Len(Batches[k]) \in Nat
         /\ probe.end \in {"eof", "err", "quit"}
<1>1. /\ Batches \in Seq(Seq({"empty", "rows", "fail", "exit"}))
      /\ \A k \in 1..Len(Batches) : FanOut(Batches[k])
      /\ probe.end \in {"eof", "err", "quit"}
  BY ProbesAssumption DEF Batches
<1>. QED BY <1>1

(* Where the batches end in the serial stream.                             *)
LEMMA Offsets ==
  ASSUME probe \in Probes
  PROVE  /\ Offset(0) = 0
         /\ \A k \in 0..Len(Batches) : Offset(k) \in Nat
         /\ \A k \in 1..Len(Batches) : Offset(k) = Offset(k - 1) + Len(Batches[k])
<1>. PICK s : s = Batches
  OBVIOUS
<1>1. s \in Seq(Seq({"empty", "rows", "fail", "exit"}))
  BY Sides
<1>2. \A n \in 0..Len(s) : FlattenSeq(SubSeq(s, 1, n)) \in Seq({"empty", "rows", "fail", "exit"})
  BY <1>1, FlattenFront
<1>3. Offset(0) = 0
  <2>1. FlattenSeq(SubSeq(s, 1, 0)) = <<>>
    BY <1>1, FlattenFront
  <2>. QED BY <2>1 DEF Offset
<1>4. \A k \in 0..Len(s) : Offset(k) \in Nat
  BY <1>2 DEF Offset
<1>5. ASSUME NEW k \in 1..Len(s) PROVE Offset(k) = Offset(k - 1) + Len(s[k])
  <2>. PICK f, g, e : f = FlattenSeq(SubSeq(s, 1, k - 1)) /\ g = FlattenSeq(SubSeq(s, 1, k)) /\ e = s[k]
    OBVIOUS
  <2>1. g = f \o e
    BY <1>1, FlattenFront
  <2>2. k - 1 \in 0..Len(s)
    BY <1>1
  <2>3. f \in Seq({"empty", "rows", "fail", "exit"}) /\ e \in Seq({"empty", "rows", "fail", "exit"})
    BY <1>1, <1>2, <2>2
  <2>. PICK K : K = {"empty", "rows", "fail", "exit"}
    OBVIOUS
  <2>3a. f \in Seq(K) /\ e \in Seq(K)
    BY <2>3
  <2>4. Len(g) = Len(f) + Len(e)
    <3>1. Len(f \o e) = Len(f) + Len(e)
      BY <2>3a
    <3>. QED BY <2>1, <3>1, Zenon
  <2>. QED BY <2>4 DEF Offset
<1>. QED BY <1>3, <1>4, <1>5

(* What is where in it.                                                    *)
LEMMA Stands ==
  ASSUME probe \in Probes
  PROVE  /\ \A k \in 1..Len(Batches) : \A i \in 1..Len(Batches[k]) :
              StreamOf(probe)[Offset(k - 1) + i] = Batches[k][i]
         /\ StreamOf(probe)[Offset(Len(Batches)) + 1] = probe.end
<1>. PICK s, f, e : s = Batches /\ f = FlattenSeq(s) /\ e = probe.end
  OBVIOUS
<1>1. s \in Seq(Seq({"empty", "rows", "fail", "exit"}))
  BY Sides
<1>2. f \in Seq({"empty", "rows", "fail", "exit"}) /\ Offset(Len(s)) = Len(f)
  <2>1. FlattenSeq(SubSeq(s, 1, Len(s))) = f
    BY <1>1, FlattenFront
  <2>2. Len(s) \in 0..Len(s)
    BY <1>1
  <2>3. FlattenSeq(SubSeq(s, 1, Len(s))) \in Seq({"empty", "rows", "fail", "exit"})
    BY <1>1, <2>2, FlattenFront
  <2>. QED BY <2>1, <2>3 DEF Offset
<1>3. StreamOf(probe) = f \o <<e>>
  BY DEF StreamOf, Batches
<1>4. (\A x \in 1..Len(f) : (f \o <<e>>)[x] = f[x]) /\ (f \o <<e>>)[Len(f) + 1] = e
  BY <1>2
<1>5. ASSUME NEW k \in 1..Len(s), NEW i \in 1..Len(s[k])
      PROVE  Offset(k - 1) + i \in 1..Len(f) /\ f[Offset(k - 1) + i] = s[k][i]
  BY <1>1, FlattenStands DEF Offset
<1>. QED BY <1>2, <1>3, <1>4, <1>5

(* What a lane is told of an answer, from what the answer is.              *)
LEMMA ToldIs ==
  ASSUME probe \in Probes, NEW k \in 1..(Len(Batches) + 1)
  PROVE  /\ Told(k) \in Seq({"rows", "last", "fail", "exit", "eof", "err", "quit"})
         /\ Len(Told(k)) \in Nat \ {0}
         /\ \A i \in 1..(Len(Told(k)) - 1) : Told(k)[i] = "rows"
         /\ Told(k)[Len(Told(k))] # "rows"
         /\ \A i \in 1..Len(Told(k)) :
              /\ Told(k)[i] \in {"rows", "fail", "exit"} =>
                   k <= Len(Batches) /\ i <= Len(Batches[k]) /\ Batches[k][i] = Told(k)[i]
              /\ Told(k)[i] = "last" =>
                   k <= Len(Batches) /\ ((Batches[k] = <<"empty">> /\ i = 1) \/ i = Len(Batches[k]) + 1)
              /\ Told(k)[i] \in {"eof", "err", "quit"} =>
                   k = Len(Batches) + 1 /\ i = 1 /\ Told(k)[i] = probe.end
<1>1. CASE k > Len(Batches)
  <2>1. Told(k) = <<probe.end>> /\ k = Len(Batches) + 1
    BY <1>1, Sides DEF Told
  <2>2. probe.end \in {"eof", "err", "quit"}
    BY Sides
  <2>. PICK e : e = probe.end
    OBVIOUS
  <2>3. <<e>> \in Seq({"rows", "last", "fail", "exit", "eof", "err", "quit"}) /\ Len(<<e>>) = 1 /\ <<e>>[1] = e
    BY <2>2
  <2>. QED BY <2>1, <2>2, <2>3
<1>2. CASE ~(k > Len(Batches))
  <2>1. PICK b : b = Batches[k]
    OBVIOUS
  <2>2. k <= Len(Batches) /\ k \in 1..Len(Batches) /\ FanOut(b)
    BY <1>2, <2>1, Sides
  <2>3. Told(k) = CASE b = <<"empty">> -> <<"last">>
                    [] Last(b) \in {"fail", "exit"} -> b
                    [] OTHER -> Append(b, "last")
    BY <2>1, <1>2 DEF Told
  <2>4. CASE b = <<"empty">>
    <3>1. Told(k) = <<"last">>
      <4>1. Last(b) = "empty"
        BY <2>4 DEF Last
      <4>. QED BY <2>3, <2>4, <4>1
    <3>. QED BY <2>1, <2>2, <2>4, <3>1
  <2>5. CASE b # <<"empty">> /\ Last(b) \in {"fail", "exit"}
    <3>1. Told(k) = b
      BY <2>3, <2>5
    <3>2. b \in Seq({"rows", "fail", "exit"}) /\ Len(b) > 0 /\ \A i \in 1..(Len(b) - 1) : b[i] = "rows"
      BY <2>2, <2>5 DEF FanOut
    <3>3. b[Len(b)] \in {"fail", "exit"} /\ Len(b) \in Nat \ {0}
          /\ \A i \in 1..Len(b) : b[i] \in {"rows", "fail", "exit"}
      BY <2>5, <3>2 DEF Last
    <3>4. b \in Seq({"rows", "last", "fail", "exit", "eof", "err", "quit"})
      BY <3>2
    <3>. QED BY <2>1, <2>2, <3>1, <3>2, <3>3, <3>4
  <2>6. CASE b # <<"empty">> /\ Last(b) \notin {"fail", "exit"}
    <3>1. Told(k) = Append(b, "last")
      BY <2>3, <2>6
    <3>2. b \in Seq({"rows", "fail", "exit"}) /\ Len(b) > 0 /\ \A i \in 1..(Len(b) - 1) : b[i] = "rows"
      BY <2>2, <2>6 DEF FanOut
    <3>3. b[Len(b)] = "rows" /\ Len(b) \in Nat \ {0}
      BY <2>6, <3>2 DEF Last
    <3>4. \A i \in 1..Len(b) : b[i] = "rows"
      BY <3>2, <3>3
    <3>. PICK a : a = Append(b, "last")
      OBVIOUS
    <3>5. /\ a \in Seq({"rows", "last", "fail", "exit", "eof", "err", "quit"})
          /\ Len(a) = Len(b) + 1 /\ a[Len(b) + 1] = "last" /\ \A i \in 1..Len(b) : a[i] = b[i]
      BY <3>2
    <3>6. Told(k) = a
      BY <3>1
    <3>. HIDE <2>3
    <3>. QED BY <2>1, <2>2, <3>3, <3>4, <3>5, <3>6
  <2>. QED BY <2>4, <2>5, <2>6
<1>. QED BY <1>1, <1>2

(* A number taken apart by its remainder.                                  *)
LEMMA Remainder ==
  ASSUME NEW d \in Nat \ {0}, NEW q \in Nat, NEW r \in Nat, r < d
  PROVE  (q * d + r) % d = r
OBVIOUS

(* The worker after this one, round-robin.                                 *)
LEMMA NextWorker ==
  ASSUME NEW x \in Nat
  PROVE  x % N \in Workers /\ (x + 1) % N = IF (x % N) + 1 = N THEN 0 ELSE (x % N) + 1
<1>0. N \in Nat \ {0}
  BY ProbeAssumption
<1>1. PICK c, r : c = x \div N /\ r = x % N
  OBVIOUS
<1>2. c \in Nat /\ r \in 0..(N - 1) /\ x = c * N + r
  BY <1>0, <1>1
<1>3. CASE r + 1 = N
  <2>1. (c + 1) * N = c * N + N /\ c * N \in Nat
    BY <1>0, <1>2
  <2>2. x + 1 = (c + 1) * N + 0
    BY <1>0, <1>2, <1>3, <2>1
  <2>3. ((c + 1) * N + 0) % N = 0
    BY <1>0, <1>2, Remainder
  <2>. QED BY <1>1, <1>2, <1>3, <2>2, <2>3 DEF Workers
<1>4. CASE r + 1 # N
  <2>1. r + 1 \in Nat /\ r + 1 < N
    BY <1>0, <1>2, <1>4
  <2>2. x + 1 = c * N + (r + 1)
    <3>1. c * N \in Nat
      BY <1>0, <1>2
    <3>. QED BY <1>2, <3>1
  <2>3. (c * N + (r + 1)) % N = r + 1
    BY <1>0, <1>2, <2>1, Remainder
  <2>. QED BY <1>1, <1>2, <1>4, <2>2, <2>3 DEF Workers
<1>. QED BY <1>3, <1>4

-----------------------------------------------------------------------------
(* The invariant.                                                          *)

(* The consumer still reads, and how many rows it has of the batch in hand.*)
Reading == cpc \in {"idle", "loop", "recv"}
Got == IF out # <<>> /\ Last(out) > Offset(finished) THEN Last(out) - Offset(finished) ELSE 0

Kinds   == {"rows", "last", "fail", "exit", "eof", "err", "quit", "ctx"}
Message == [kind : Kinds, of : Nat \ {0}, no : Nat \ {0}]

(* A lane's messages come in this order: of the next answer of the lane    *)
(* after a terminator, else of the same.                                   *)
Name(m)  == <<m.of, m.no>>
After(m) == IF m.kind = "last" THEN <<m.of + N, 1>> ELSE <<m.of, m.no + 1>>

(* The next answer of each lane that the consumer has not seen the end of, *)
(* and the next the dispatcher hands it.                                   *)
Owed(w) == finished + 1 + (w - turn) + (IF w >= turn THEN 0 ELSE N)
Due(w)  == LET l == (seq - 1) % N IN seq + (w - l) + (IF w >= l THEN 0 ELSE N)

(* What a lane has been told so far of what it is told next.               *)
Asked(w)  == <<Owed(w), IF w = turn THEN Got + 1 ELSE 1>>
NextOf(w) == IF results[w] = <<>> THEN Asked(w) ELSE After(Last(results[w]))

(* A message is what the answer has there, or the context's error.         *)
Genuine(m) ==
  \/ m.kind = "ctx" /\ Done
  \/ /\ m.of \in 1..(Len(Batches) + 1) /\ m.no \in 1..Len(Told(m.of))
     /\ m.kind = Told(m.of)[m.no] /\ m.kind # "eof"

GoesOn(m) == m.kind \in {"rows", "last"}

LaneInOrder(w) ==
  /\ \A j \in DOMAIN results[w] : Genuine(results[w][j])
  /\ results[w] # <<>> => Name(results[w][1]) = Asked(w)
  /\ \A j \in 1..(Len(results[w]) - 1) :
       GoesOn(results[w][j]) /\ Name(results[w][j + 1]) = After(results[w][j])
  /\ results[w] # <<>> /\ ~GoesOn(Last(results[w])) => wpc[w] = "done"

(* What a worker has yet to tell of an answer: rows, and then no rows.     *)
Rest(q) ==
  /\ q # <<>> /\ Last(q).kind # "rows"
  /\ \A j \in DOMAIN q : Genuine(q[j])
  /\ \A j \in 1..(Len(q) - 1) : q[j].kind = "rows" /\ Name(q[j + 1]) = After(q[j])

NextJob(w) == IF wpc[w] = "send" THEN Head(todo[w]).of + N ELSE NextOf(w)[1]
AfterJobs(w) == IF jobs[w] = <<>> THEN NextJob(w) ELSE Head(Last(jobs[w])).of + N

JobsInOrder(w) ==
  /\ jobs[w] # <<>> => Head(Head(jobs[w])).of = NextJob(w)
  /\ \A j \in 1..(Len(jobs[w]) - 1) : Head(jobs[w][j + 1]).of = Head(jobs[w][j]).of + N
  /\ (dpc = "done" /\ Done) \/ AfterJobs(w) = Due(w)

WorkerInStep(w) ==
  /\ wpc[w] \in {"unborn", "recv"} => NextOf(w)[2] = 1
  /\ wpc[w] = "send" => Name(Head(todo[w])) = NextOf(w)
  /\ wpc[w] # "done" => JobsInOrder(w)
  /\ wpc[w] = "done" =>
       \/ Done
       \/ results[w] # <<>> /\ ~GoesOn(Last(results[w]))
       \/ dpc = "done" /\ NextOf(w) = <<Due(w), 1>>

(* The work that is queued for a worker, and the work it is at.            *)
WorkInHand(w) ==
  /\ \A j \in DOMAIN jobs[w] : Rest(jobs[w][j]) /\ Head(jobs[w][j]).no = 1
  /\ wpc[w] = "send" => Rest(todo[w])

WorkInStep == \A w \in Workers : WorkInHand(w)

LanesInStep == Reading => \A w \in Workers : LaneInOrder(w) /\ WorkerInStep(w)

DispatcherInStep ==
  /\ dpc \in {"unborn", "pull"} => seq <= Len(Batches) + 1
  /\ dpc = "done" /\ ~Done => IF probe.end = "eof" THEN seq = Len(Batches) + 1
                                                   ELSE seq = Len(Batches) + 2
  /\ \A w \in Workers : wpc[w] = "unborn" <=> dpc = "unborn"

ConsumerInStep ==
  /\ turn = finished % N
  /\ stopped => ~Reading /\ cpc # "over"
  /\ Reading => answer = "none"
  /\ \A k \in DOMAIN out : out[k] <= Offset(finished) + Got

PTyped ==
  /\ probe \in Probes /\ cancelled \in BOOLEAN /\ stopped \in BOOLEAN
  /\ seq \in Nat \ {0} /\ dpc \in {"unborn", "pull", "done"}
  /\ jobs \in [Workers -> Seq(Seq(Message))]
  /\ wpc \in [Workers -> {"unborn", "recv", "send", "done"}]
  /\ todo \in [Workers -> Seq(Message)] /\ results \in [Workers -> Seq(Message)]
  /\ turn \in Workers
  /\ cpc \in {"idle", "loop", "recv", "over", "wait", "closed"}
  /\ out \in Seq(Nat) /\ finished \in 0..Len(Batches)
  /\ answer \in {"none", "eof", "err", "ctx"}

PInv == PTyped /\ WorkInStep /\ LanesInStep /\ DispatcherInStep /\ ConsumerInStep

(* What goes on when a goroutine takes a step.                             *)
Steady == probe' = probe /\ (Done => Done') /\ (dpc = "done" => dpc' = "done")

(* The workers are numbered from zero, and there is one at least.          *)
LEMMA Workforce == N \in Nat \ {0} /\ \A w \in Workers : w \in Nat /\ w < N
BY ProbeAssumption DEF Workers

(* What is said of the probe side stays said of it.                        *)
LEMMA SameSide ==
  ASSUME probe' = probe
  PROVE  /\ Batches' = Batches
         /\ \A k : Offset(k)' = Offset(k)
         /\ \A k : Told(k)' = Told(k)
         /\ \A k : Messages(k)' = Messages(k)
         /\ StreamOf(probe)' = StreamOf(probe)
BY DEF Batches, Offset, Told, Messages, StreamOf

(* A genuine message stays genuine.                                        *)
LEMMA StaysGenuine ==
  ASSUME Steady
  PROVE  /\ \A m : Genuine(m) => Genuine(m)'
         /\ \A q : Rest(q) => Rest(q)'
<1>1. \A m : Genuine(m) => Genuine(m)'
  BY SameSide DEF Steady, Genuine
<1>2. ASSUME NEW q, Rest(q) PROVE Rest(q)'
  <2>1. \A j \in DOMAIN q : Genuine(q[j])'
    BY <1>1, <1>2 DEF Rest
  <2>2. \A j \in 1..(Len(q) - 1) : q[j].kind = "rows" /\ Name(q[j + 1]) = After(q[j])
    BY <1>2 DEF Rest
  <2>. QED BY <1>2, <2>1, <2>2 DEF Rest, Name, After
<1>. QED BY <1>1, <1>2

(* An answer's messages begin with its first, and are all of it.           *)
LEMMA MessagesRest ==
  ASSUME probe \in Probes, NEW k \in 1..(Len(Batches) + 1),
         k <= Len(Batches) \/ probe.end # "eof"
  PROVE  /\ Messages(k) \in Seq(Message) /\ Rest(Messages(k))
         /\ Head(Messages(k)).of = k /\ Head(Messages(k)).no = 1
<1>. PICK t, n, q : t = Told(k) /\ n = Len(Told(k)) /\ q = Messages(k)
  OBVIOUS
<1>1. /\ n \in Nat \ {0} /\ k \in Nat \ {0} /\ \A i \in 1..(n - 1) : t[i] = "rows"
      /\ t[n] # "rows"
      /\ \A i \in 1..n : t[i] \in {"rows", "last", "fail", "exit", "eof", "err", "quit"}
  <2>1. k \in Nat \ {0}
    <3>1. Len(Batches) \in Nat
      BY Sides
    <3>. QED BY <3>1
  <2>2. /\ t \in Seq({"rows", "last", "fail", "exit", "eof", "err", "quit"})
        /\ n \in Nat \ {0} /\ \A i \in 1..(n - 1) : t[i] = "rows"
        /\ t[n] # "rows" /\ n = Len(t)
    BY ToldIs
  <2>3. \A i \in 1..n : t[i] \in {"rows", "last", "fail", "exit", "eof", "err", "quit"}
    BY <2>2
  <2>. QED BY <2>1, <2>2, <2>3
<1>2. q = [i \in 1..n |-> [kind |-> t[i], of |-> k, no |-> i]]
  BY DEF Messages
<1>3. ASSUME NEW i \in 1..n
      PROVE  /\ q[i].kind = t[i] /\ q[i].of = k /\ q[i].no = i /\ q[i] \in Message
             /\ Genuine(q[i])
  <2>1. q[i] = [kind |-> t[i], of |-> k, no |-> i] /\ q[i] \in Message
    BY <1>1, <1>2 DEF Message, Kinds
  <2>2. t[i] # "eof"
    BY ToldIs, Sides
  <2>3. Told(k)[i] # "eof" /\ i \in 1..Len(Told(k)) /\ q[i].of = k /\ q[i].no = i /\ q[i].kind = Told(k)[i]
    BY <2>1, <2>2
  <2>. QED BY <2>1, <2>3 DEF Genuine
<1>4. /\ q \in Seq(Message) /\ Len(q) = n /\ DOMAIN q = 1..n /\ q # <<>> /\ Head(q) = q[1]
      /\ Last(q) = q[n] /\ 1 \in 1..n /\ n \in 1..n
  <2>1. \A i \in 1..n : [kind |-> t[i], of |-> k, no |-> i] \in Message
    BY <1>1 DEF Message, Kinds
  <2>2. q \in Seq(Message) /\ Len(q) = n /\ DOMAIN q = 1..n
    BY <1>1, <1>2, <2>1
  <2>3. Head(q) = q[1] /\ Last(q) = q[n]
    BY <1>1, <2>2 DEF Last
  <2>. QED BY <1>1, <2>2, <2>3
<1>5. \A j \in 1..(n - 1) : q[j].kind = "rows" /\ Name(q[j + 1]) = After(q[j])
  <2>. SUFFICES ASSUME NEW j \in 1..(n - 1)
                PROVE  q[j].kind = "rows" /\ Name(q[j + 1]) = After(q[j])
    OBVIOUS
  <2>1. j \in 1..n /\ j + 1 \in 1..n /\ t[j] = "rows"
    BY <1>1
  <2>2. q[j].kind = "rows" /\ q[j].of = k /\ q[j].no = j
    BY <1>3, <2>1
  <2>3. q[j + 1].of = k /\ q[j + 1].no = j + 1
    BY <1>3, <2>1
  <2>. QED BY <2>2, <2>3 DEF Name, After
<1>6. Last(q).kind # "rows"
  BY <1>1, <1>3, <1>4
<1>7. Rest(q)
  BY <1>3, <1>4, <1>5, <1>6 DEF Rest
<1>8. Head(q).of = k /\ Head(q).no = 1
  BY <1>3, <1>4
<1>. QED BY <1>4, <1>7, <1>8

(* The next answers of the lanes, as the dispatcher and the consumer go on *)
(* to the next.                                                            *)
LEMMA DueFrom ==
  ASSUME seq \in Nat \ {0}, NEW w \in Workers
  PROVE  Due(w) \in Nat \ {0} /\ Due(w) >= seq /\ Due((seq - 1) % N) = seq
<1>. PICK l : l = (seq - 1) % N
  OBVIOUS
<1>1. l \in Workers
  BY NextWorker
<1>. QED BY <1>1, Workforce DEF Due

(* The dispatcher hands out one answer: its lane is due the one N on.      *)
LEMMA DueMoves ==
  ASSUME seq \in Nat \ {0}, seq' = seq + 1, NEW w \in Workers
  PROVE  Due(w)' = IF w = (seq - 1) % N THEN Due(w) + N ELSE Due(w)
<1>. PICK l, k : l = (seq - 1) % N /\ k = seq % N
  OBVIOUS
<1>1. l \in Workers /\ k = IF l + 1 = N THEN 0 ELSE l + 1
  <2>1. seq - 1 \in Nat /\ (seq - 1) + 1 = seq
    OBVIOUS
  <2>. QED BY <2>1, NextWorker
<1>2. Due(w) = seq + (w - l) + (IF w >= l THEN 0 ELSE N)
  BY DEF Due
<1>3. (seq' - 1) % N = k
  <2>1. seq' - 1 = seq
    OBVIOUS
  <2>. QED BY <2>1
<1>4. Due(w)' = seq + 1 + (w - k) + (IF w >= k THEN 0 ELSE N)
  BY <1>3 DEF Due
<1>. QED BY <1>1, <1>2, <1>4, Workforce

(* The consumer sees the end of one: its lane owes the one N on.           *)
LEMMA OwedMoves ==
  ASSUME finished \in Nat, turn \in Workers, turn = finished % N,
         finished' = finished + 1, turn' = (turn + 1) % N, NEW w \in Workers
  PROVE  /\ Owed(w) \in Nat \ {0} /\ Owed(turn) = finished + 1
         /\ Owed(w)' = IF w = turn THEN Owed(w) + N ELSE Owed(w)
         /\ turn' \in Workers /\ turn' = finished' % N
<1>1. turn \in Nat /\ turn < N
  BY Workforce
<1>2. turn % N = turn
  BY <1>1, Workforce
<1>3. turn' \in Workers /\ turn' = IF turn + 1 = N THEN 0 ELSE turn + 1
  BY <1>1, <1>2, NextWorker
<1>4. turn' = finished' % N
  BY <1>2, <1>3, NextWorker
<1>5. Owed(w) \in Nat \ {0} /\ Owed(turn) = finished + 1
  BY <1>1, Workforce DEF Owed
<1>6. Owed(w)' = finished + 2 + (w - turn') + (IF w >= turn' THEN 0 ELSE N)
  BY DEF Owed
<1>7. Owed(w)' = IF w = turn THEN Owed(w) + N ELSE Owed(w)
  BY <1>1, <1>3, <1>6, Workforce DEF Owed
<1>. QED BY <1>3, <1>4, <1>5, <1>7

-----------------------------------------------------------------------------
(* One lane.                                                               *)

(* A sequence with an element more, and without its first.                 *)
LEMMA Appended ==
  ASSUME NEW S, NEW s \in Seq(S), NEW e \in S
  PROVE  /\ Append(s, e) \in Seq(S) /\ Len(Append(s, e)) = Len(s) + 1 /\ Len(s) \in Nat
         /\ DOMAIN Append(s, e) = 1..(Len(s) + 1) /\ DOMAIN s = 1..Len(s)
         /\ Append(s, e)[Len(s) + 1] = e /\ Last(Append(s, e)) = e
         /\ \A i \in 1..Len(s) : Append(s, e)[i] = s[i]
         /\ Append(s, e) # <<>>
         /\ s = <<>> => Append(s, e)[1] = e /\ Head(Append(s, e)) = e
         /\ s # <<>> => 1 \in 1..Len(s) /\ Head(Append(s, e)) = s[1] /\ Last(s) = s[Len(s)] /\ Head(s) = s[1]
<1>1. /\ Append(s, e) \in Seq(S) /\ Len(Append(s, e)) = Len(s) + 1 /\ Len(s) \in Nat
      /\ DOMAIN Append(s, e) = 1..(Len(s) + 1) /\ DOMAIN s = 1..Len(s)
      /\ Append(s, e)[Len(s) + 1] = e
      /\ \A i \in 1..Len(s) : Append(s, e)[i] = s[i]
      /\ s = <<>> <=> Len(s) = 0
  OBVIOUS
<1>. PICK a : a = Append(s, e)
  OBVIOUS
<1>2. a \in Seq(S) /\ Len(a) = Len(s) + 1 /\ a[Len(s) + 1] = e /\ a # <<>>
  BY <1>1
<1>3. Last(a) = e /\ Head(a) = a[1]
  BY <1>1, <1>2 DEF Last
<1>4. s # <<>> => Last(s) = s[Len(s)] /\ Head(s) = s[1]
  BY DEF Last
<1>. QED BY <1>1, <1>2, <1>3, <1>4

(* And one without its first.                                              *)
LEMMA Tailed ==
  ASSUME NEW S, NEW s \in Seq(S), s # <<>>
  PROVE  /\ Tail(s) \in Seq(S) /\ Len(Tail(s)) = Len(s) - 1 /\ Len(s) \in Nat \ {0}
         /\ DOMAIN s = 1..Len(s) /\ DOMAIN Tail(s) = 1..(Len(s) - 1)
         /\ \A i \in 1..(Len(s) - 1) : Tail(s)[i] = s[i + 1]
         /\ Head(s) = s[1] /\ Last(s) = s[Len(s)] /\ Head(s) \in S /\ Last(s) \in S
         /\ Tail(s) = <<>> => Len(s) = 1 /\ Last(s) = Head(s)
         /\ Tail(s) # <<>> => Len(s) > 1 /\ Last(Tail(s)) = Last(s) /\ Head(Tail(s)) = s[2]
<1>. PICK t, n : t = Tail(s) /\ n = Len(s)
  OBVIOUS
<1>1. /\ t \in Seq(S) /\ Len(t) = n - 1 /\ n \in Nat \ {0}
      /\ DOMAIN s = 1..n /\ DOMAIN t = 1..(n - 1)
      /\ \A i \in 1..(n - 1) : t[i] = s[i + 1]
      /\ Head(s) = s[1]
  OBVIOUS
<1>2. Last(s) = s[n] /\ Last(t) = t[n - 1]
  BY <1>1 DEF Last
<1>3. s[1] \in S /\ s[n] \in S
  BY <1>1
<1>4. t = <<>> => n = 1
  BY <1>1
<1>5. t # <<>> => n > 1 /\ Head(t) = t[1]
  BY <1>1
<1>6. n > 1 => t[n - 1] = s[n] /\ t[1] = s[2]
  BY <1>1
<1>. QED BY <1>1, <1>2, <1>3, <1>4, <1>5, <1>6

(* The consumer as it was: the lanes are asked for what they were.         *)
ConsumerStill == UNCHANGED <<probe, turn, out, finished>>

(* What the lanes are asked for depends on the consumer alone,             *)
LEMMA AsksTheSame ==
  ASSUME ConsumerStill
  PROVE  Got' = Got /\ \A w : Owed(w)' = Owed(w) /\ Asked(w)' = Asked(w)
<1>1. Got' = Got
  BY SameSide DEF ConsumerStill, Got
<1>. QED BY <1>1 DEF ConsumerStill, Owed, Asked

(* and what they are due on the dispatcher.                                *)
LEMMA DueTheSame ==
  ASSUME seq' = seq
  PROVE  \A w : Due(w)' = Due(w)
BY DEF Due

(* A lane nobody touches, and jobs nobody touches.                         *)
LEMMA LaneOrderKeeps ==
  ASSUME NEW w \in Workers, Steady, results'[w] = results[w], Asked(w)' = Asked(w),
         wpc[w] = "done" => wpc'[w] = "done", LaneInOrder(w)
  PROVE  LaneInOrder(w)' /\ NextOf(w)' = NextOf(w)
<1>1. \A m : Genuine(m) => Genuine(m)'
  BY StaysGenuine
<1>2. \A m : Name(m)' = Name(m) /\ After(m)' = After(m) /\ GoesOn(m)' = GoesOn(m)
  BY DEF Name, After, GoesOn
<1>3. \A j \in DOMAIN results[w] : Genuine(results[w][j])'
  BY <1>1 DEF LaneInOrder
<1>. QED BY <1>2, <1>3 DEF LaneInOrder, NextOf, GoesOn

(* a worker's jobs, with its next job as it was;                           *)
LEMMA JobsKeep ==
  ASSUME NEW w \in Workers, Steady, jobs'[w] = jobs[w], NextJob(w)' = NextJob(w),
         Due(w)' = Due(w), JobsInOrder(w)
  PROVE  JobsInOrder(w)' /\ AfterJobs(w)' = AfterJobs(w)
<1>1. AfterJobs(w)' = AfterJobs(w)
  BY DEF AfterJobs
<1>. QED BY <1>1 DEF JobsInOrder, Steady

(* a lane, a worker and its jobs together;                                 *)
LEMMA LaneKeeps ==
  ASSUME NEW w \in Workers, Steady,
         results'[w] = results[w], wpc'[w] = wpc[w], todo'[w] = todo[w], jobs'[w] = jobs[w],
         Asked(w)' = Asked(w), Due(w)' = Due(w), LaneInOrder(w), WorkerInStep(w)
  PROVE  LaneInOrder(w)' /\ WorkerInStep(w)'
<1>1. LaneInOrder(w)' /\ NextOf(w)' = NextOf(w)
  BY LaneOrderKeeps
<1>2. NextJob(w)' = NextJob(w)
  BY <1>1 DEF NextJob
<1>3. JobsInOrder(w) => JobsInOrder(w)'
  BY <1>2, JobsKeep
<1>. QED BY <1>1, <1>3 DEF WorkerInStep, Steady, Name, GoesOn

(* and the work in a worker's hand.                                        *)
LEMMA WorkKeeps ==
  ASSUME NEW w \in Workers, Steady, wpc'[w] = "send" => wpc[w] = "send" /\ todo'[w] = todo[w],
         jobs'[w] = jobs[w], WorkInHand(w)
  PROVE  WorkInHand(w)'
BY StaysGenuine DEF WorkInHand

(* The consumer takes a lane's next message.                               *)
LEMMA LaneTakes ==
  ASSUME NEW w \in Workers, Steady, results[w] \in Seq(Message), results[w] # <<>>,
         GoesOn(Head(results[w])),
         results'[w] = Tail(results[w]), wpc'[w] = wpc[w], todo'[w] = todo[w],
         jobs'[w] = jobs[w], Asked(w)' = After(Head(results[w])), Due(w)' = Due(w),
         LaneInOrder(w), WorkerInStep(w)
  PROVE  LaneInOrder(w)' /\ WorkerInStep(w)'
<1>. PICK r, t, n : r = results[w] /\ t = Tail(r) /\ n = Len(r)
  OBVIOUS
<1>1. /\ n \in Nat \ {0} /\ DOMAIN r = 1..n /\ DOMAIN t = 1..(n - 1) /\ Len(t) = n - 1
      /\ \A i \in 1..(n - 1) : t[i] = r[i + 1]
      /\ Head(r) = r[1] /\ Last(r) = r[n]
      /\ t = <<>> => n = 1 /\ Last(r) = Head(r)
      /\ t # <<>> => n > 1 /\ Last(t) = Last(r)
  BY Tailed
<1>2. results'[w] = t /\ results[w] = r /\ r # <<>>
  OBVIOUS
<1>3. NextOf(w)' = NextOf(w)
  <2>1. NextOf(w)' = IF t = <<>> THEN After(Head(r)) ELSE After(Last(t))
    BY <1>2 DEF NextOf, After
  <2>2. NextOf(w) = After(Last(r))
    BY <1>2 DEF NextOf
  <2>. QED BY <1>1, <2>1, <2>2
<1>4. \A m : Genuine(m) => Genuine(m)'
  BY StaysGenuine
<1>5. \A j \in DOMAIN t : Genuine(t[j])'
  <2>1. \A j \in 1..n : Genuine(r[j])
    BY <1>1, <1>2 DEF LaneInOrder
  <2>. QED BY <1>1, <1>4, <2>1
<1>6. \A j \in 1..(n - 1) : GoesOn(r[j]) /\ Name(r[j + 1]) = After(r[j])
  BY <1>2 DEF LaneInOrder
<1>7. t # <<>> => Name(t[1]) = After(Head(r))
  BY <1>1, <1>6
<1>8. \A j \in 1..(Len(t) - 1) : GoesOn(t[j]) /\ Name(t[j + 1]) = After(t[j])
  <2>. SUFFICES ASSUME NEW j \in 1..(Len(t) - 1)
                PROVE  GoesOn(t[j]) /\ Name(t[j + 1]) = After(t[j])
    OBVIOUS
  <2>1. j \in 1..(n - 1) /\ j + 1 \in 1..(n - 1)
    BY <1>1
  <2>2. t[j] = r[j + 1] /\ t[j + 1] = r[j + 1 + 1]
    BY <1>1, <2>1
  <2>. QED BY <1>6, <2>1, <2>2
<1>9. t # <<>> /\ ~GoesOn(Last(t)) => wpc'[w] = "done"
  BY <1>1, <1>2 DEF LaneInOrder
<1>10. LaneInOrder(w)'
  BY <1>2, <1>5, <1>7, <1>8, <1>9 DEF LaneInOrder, Name, After, GoesOn
<1>11. JobsInOrder(w) => JobsInOrder(w)'
  BY <1>3, JobsKeep DEF NextJob
<1>12. r # <<>> /\ ~GoesOn(Last(r)) => t # <<>> /\ ~GoesOn(Last(t))
  BY <1>1
<1>13. WorkerInStep(w)'
  BY <1>2, <1>3, <1>11, <1>12 DEF WorkerInStep, Steady, Name, GoesOn
<1>. QED BY <1>10, <1>13

(* A worker puts the next message into its lane.                           *)
LEMMA LanePuts ==
  ASSUME NEW w \in Workers, NEW m \in Message, Steady, results[w] \in Seq(Message),
         results'[w] = Append(results[w], m), Asked(w)' = Asked(w), LaneInOrder(w),
         wpc[w] # "done", Genuine(m), Name(m) = NextOf(w), GoesOn(m) \/ wpc'[w] = "done"
  PROVE  LaneInOrder(w)' /\ NextOf(w)' = After(m) /\ results'[w] # <<>> /\ Last(results'[w]) = m
<1>. PICK r, t, n : r = results[w] /\ t = Append(r, m) /\ n = Len(r)
  OBVIOUS
<1>1. /\ Len(t) = n + 1 /\ n \in Nat /\ DOMAIN t = 1..(n + 1) /\ DOMAIN r = 1..n
      /\ t[n + 1] = m /\ Last(t) = m /\ t # <<>>
      /\ \A i \in 1..n : t[i] = r[i]
      /\ r = <<>> => t[1] = m
      /\ r # <<>> => 1 \in 1..n /\ Last(r) = r[n]
  BY Appended
<1>2. results'[w] = t /\ results[w] = r
  OBVIOUS
<1>3. NextOf(w)' = After(m)
  BY <1>1, <1>2 DEF NextOf, After
<1>4. \A j \in DOMAIN t : Genuine(t[j])'
  <2>1. \A j \in 1..n : Genuine(r[j])
    BY <1>1, <1>2 DEF LaneInOrder
  <2>2. \A x : Genuine(x) => Genuine(x)'
    BY StaysGenuine
  <2>3. ASSUME NEW j \in 1..(n + 1) PROVE Genuine(t[j])
    <3>1. j \in 1..n \/ j = n + 1
      BY <1>1
    <3>. QED BY <1>1, <2>1, <3>1
  <2>. QED BY <1>1, <2>2, <2>3
<1>5. Name(t[1]) = Asked(w)
  <2>1. r = <<>> => Name(m) = Asked(w)
    BY <1>2 DEF NextOf
  <2>2. r # <<>> => Name(r[1]) = Asked(w)
    BY <1>2 DEF LaneInOrder
  <2>. QED BY <1>1, <2>1, <2>2
<1>6. \A j \in 1..n : GoesOn(t[j]) /\ Name(t[j + 1]) = After(t[j])
  <2>. SUFFICES ASSUME NEW j \in 1..n
                PROVE  GoesOn(t[j]) /\ Name(t[j + 1]) = After(t[j])
    OBVIOUS
  <2>1. CASE j = n
    <3>1. r # <<>> /\ t[n] = Last(r)
      BY <1>1, <2>1
    <3>2. GoesOn(Last(r))
      BY <1>2, <3>1 DEF LaneInOrder
    <3>3. Name(m) = After(Last(r))
      BY <1>2, <3>1 DEF NextOf
    <3>. QED BY <1>1, <2>1, <3>1, <3>2, <3>3
  <2>2. CASE j # n
    <3>1. j \in 1..(n - 1) /\ j + 1 \in 1..n
      BY <1>1, <2>2
    <3>2. GoesOn(r[j]) /\ Name(r[j + 1]) = After(r[j])
      BY <1>2, <3>1 DEF LaneInOrder
    <3>3. t[j] = r[j] /\ t[j + 1] = r[j + 1]
      BY <1>1, <3>1
    <3>. QED BY <3>2, <3>3
  <2>. QED BY <2>1, <2>2
<1>7. Len(t) - 1 = n
  BY <1>1
<1>8. LaneInOrder(w)'
  BY <1>1, <1>2, <1>4, <1>5, <1>6, <1>7 DEF LaneInOrder, Name, After, GoesOn
<1>. QED BY <1>1, <1>2, <1>3, <1>8

-----------------------------------------------------------------------------
(* The dispatcher's steps.                                                 *)

(* One lane moves on, and the others are as they were.                     *)
LEMMA OneLane ==
  ASSUME PInv, Steady, ConsumerStill, cpc' = cpc, NEW i \in Workers,
         \A w \in Workers \ {i} :
           /\ results'[w] = results[w] /\ wpc'[w] = wpc[w] /\ todo'[w] = todo[w]
           /\ jobs'[w] = jobs[w] /\ Due(w)' = Due(w),
         Reading => LaneInOrder(i)' /\ WorkerInStep(i)',
         WorkInHand(i)'
  PROVE  LanesInStep' /\ WorkInStep'
<1>1. ASSUME Reading, NEW w \in Workers, w # i PROVE LaneInOrder(w)' /\ WorkerInStep(w)'
  <2>1. LaneInOrder(w) /\ WorkerInStep(w)
    BY <1>1 DEF PInv, LanesInStep
  <2>2. Asked(w)' = Asked(w)
    BY AsksTheSame
  <2>. QED BY <1>1, <2>1, <2>2, LaneKeeps
<1>2. ASSUME NEW w \in Workers, w # i PROVE WorkInHand(w)'
  <2>1. WorkInHand(w)
    BY DEF PInv, WorkInStep
  <2>. QED BY <1>2, <2>1, WorkKeeps
<1>3. Reading' = Reading
  BY DEF Reading
<1>4. LanesInStep'
  BY <1>1, <1>3 DEF LanesInStep
<1>5. WorkInStep'
  BY <1>2 DEF WorkInStep
<1>. QED BY <1>4, <1>5

(* The goroutines' steps leave the consumer as it was.                     *)
LEMMA ConsumerStaysInStep ==
  ASSUME PInv, ConsumerStill, UNCHANGED <<cpc, stopped, answer>>
  PROVE  ConsumerInStep'
<1>1. Got' = Got /\ \A k : Offset(k)' = Offset(k)
  BY AsksTheSame, SameSide DEF ConsumerStill
<1>. QED BY <1>1 DEF PInv, ConsumerInStep, ConsumerStill, Reading

(* The dispatcher ends at the end of the input.                            *)
LEMMA DispatchEndKeeps ==
  ASSUME PInv, DispatchEnd
  PROVE  PInv'
<1>1. Steady /\ ConsumerStill /\ UNCHANGED <<cpc, stopped, answer>> /\ seq' = seq
  BY DEF DispatchEnd, Steady, Done, ConsumerStill, callerVars
<1>2. PTyped'
  BY SameSide, <1>1 DEF PInv, PTyped, DispatchEnd, Steady, workerVars, callerVars
<1>3. /\ \A w \in Workers : Due(w)' = Due(w)
      /\ UNCHANGED <<results, wpc, todo, jobs>>
  BY <1>1, DueTheSame DEF DispatchEnd, workerVars
<1>4. \A w \in Workers : WorkInHand(w)'
  BY <1>1, <1>3, WorkKeeps DEF PInv, WorkInStep
<1>5. ASSUME Reading, NEW w \in Workers PROVE LaneInOrder(w)' /\ WorkerInStep(w)'
  <2>1. LaneInOrder(w) /\ WorkerInStep(w)
    BY <1>5 DEF PInv, LanesInStep
  <2>2. Asked(w)' = Asked(w)
    BY <1>1, AsksTheSame
  <2>. QED BY <1>1, <1>3, <2>1, <2>2, LaneKeeps
<1>6. LanesInStep' /\ WorkInStep'
  BY <1>1, <1>4, <1>5 DEF LanesInStep, WorkInStep, Reading
<1>7. DispatcherInStep'
  <2>1. Batches' = Batches /\ probe' = probe /\ Len(Batches) \in Nat
    BY <1>1, SameSide, Sides DEF Steady, PInv, PTyped
  <2>2. seq \in Nat /\ seq = Len(Batches) + 1 /\ probe.end = "eof"
    BY <2>1 DEF PInv, PTyped, DispatcherInStep, DispatchEnd
  <2>3. dpc = "pull" /\ dpc' = "done" /\ UNCHANGED <<seq, wpc>>
    BY DEF DispatchEnd, workerVars
  <2>4. \A w \in Workers : wpc[w] # "unborn"
    BY <2>3 DEF PInv, DispatcherInStep
  <2>. QED BY <2>1, <2>2, <2>3, <2>4 DEF DispatcherInStep
<1>. QED BY <1>1, <1>2, <1>6, <1>7, ConsumerStaysInStep DEF PInv

(* The dispatcher hands a worker a job.                                    *)
LEMMA LaneIsHanded ==
  ASSUME PInv, Steady, ConsumerStill, NEW l \in Workers, NEW q \in Seq(Message),
         Rest(q), Head(q).of = seq, Head(q).no = 1, dpc = "pull", Due(l) = seq,
         jobs' = [jobs EXCEPT ![l] = Append(@, q)], UNCHANGED <<wpc, todo, results>>,
         (dpc' = "done" /\ Done') \/ Due(l)' = seq + N
  PROVE  /\ jobs' \in [Workers -> Seq(Seq(Message))]
         /\ \A w \in Workers \ {l} : jobs'[w] = jobs[w]
         /\ WorkInHand(l)'
         /\ Reading => LaneInOrder(l)' /\ WorkerInStep(l)'
<1>5. PICK j, t, n : j = jobs[l] /\ t = jobs'[l] /\ n = Len(j)
  OBVIOUS
<1>6. /\ j \in Seq(Seq(Message)) /\ t = Append(j, q)
      /\ \A w \in Workers \ {l} : jobs'[w] = jobs[w]
      /\ jobs' \in [Workers -> Seq(Seq(Message))]
  <2>1. jobs \in [Workers -> Seq(Seq(Message))]
    BY DEF PInv, PTyped
  <2>2. j \in Seq(Seq(Message)) /\ t = Append(j, q) /\ \A w \in Workers \ {l} : jobs'[w] = jobs[w]
    BY <1>5, <2>1
  <2>3. Append(j, q) \in Seq(Seq(Message))
    BY <2>2, Appended
  <2>. QED BY <1>5, <2>1, <2>2, <2>3
<1>7. /\ DOMAIN t = 1..(n + 1) /\ DOMAIN j = 1..n /\ n \in Nat /\ Len(t) = n + 1
      /\ t[n + 1] = q /\ Last(t) = q /\ t # <<>>
      /\ \A k \in 1..n : t[k] = j[k]
      /\ j = <<>> => Head(t) = q
      /\ j # <<>> => 1 \in 1..n /\ Head(t) = j[1] /\ Last(j) = j[n] /\ Head(j) = j[1]
  BY <1>5, <1>6, Appended
<1>9. WorkInHand(l)'
  <2>1. \A k \in 1..n : Rest(j[k]) /\ Head(j[k]).no = 1
    BY <1>5, <1>7 DEF PInv, WorkInStep, WorkInHand
  <2>2. ASSUME NEW k \in 1..(n + 1) PROVE Rest(t[k]) /\ Head(t[k]).no = 1
    <3>1. k \in 1..n \/ k = n + 1
      BY <1>7
    <3>. QED BY <1>7, <2>1, <3>1
  <2>3. \A x : Rest(x) => Rest(x)'
    BY StaysGenuine
  <2>4. \A k \in DOMAIN t : Rest(t[k])' /\ Head(t[k]).no = 1
    BY <1>7, <2>2, <2>3
  <2>5. wpc[l] = "send" => Rest(todo[l])
    BY DEF PInv, WorkInStep, WorkInHand
  <2>. QED BY <1>5, <2>3, <2>4, <2>5 DEF WorkInHand
<1>10. ASSUME Reading PROVE LaneInOrder(l)' /\ WorkerInStep(l)'
  <2>1. LaneInOrder(l) /\ WorkerInStep(l)
    BY <1>10 DEF PInv, LanesInStep
  <2>2. Asked(l)' = Asked(l)
    BY AsksTheSame
  <2>3. LaneInOrder(l)' /\ NextOf(l)' = NextOf(l)
    BY <2>1, <2>2, LaneOrderKeeps
  <2>4. NextJob(l)' = NextJob(l)
    BY <2>3 DEF NextJob
  <2>5. ASSUME wpc[l] # "done" PROVE JobsInOrder(l)'
    <3>1. /\ j # <<>> => Head(Head(j)).of = NextJob(l)
          /\ \A k \in 1..(n - 1) : Head(j[k + 1]).of = Head(j[k]).of + N
          /\ (IF j = <<>> THEN NextJob(l) ELSE Head(Last(j)).of + N) = seq
      BY <1>5, <2>1, <2>5 DEF WorkerInStep, JobsInOrder, AfterJobs
    <3>2. Head(Head(t)).of = NextJob(l)
      BY <1>7, <3>1
    <3>3. ASSUME NEW k \in 1..n PROVE Head(t[k + 1]).of = Head(t[k]).of + N
      <4>1. CASE k = n
        BY <1>7, <3>1, <4>1
      <4>2. CASE k # n
        <5>1. k \in 1..(n - 1) /\ k + 1 \in 1..n
          BY <1>7, <4>2
        <5>. QED BY <1>7, <3>1, <5>1
      <4>. QED BY <4>1, <4>2
    <3>4. AfterJobs(l)' = seq + N
      BY <1>5, <1>7 DEF AfterJobs
    <3>5. Len(t) - 1 = n
      BY <1>7
    <3>. QED BY <1>5, <1>7, <2>4, <3>2, <3>3, <3>4, <3>5 DEF JobsInOrder
  <2>6. wpc[l] = "done" => Done' \/ (results[l] # <<>> /\ ~GoesOn(Last(results[l])))
    BY <2>1 DEF WorkerInStep, Steady
  <2>. QED BY <2>1, <2>3, <2>5, <2>6 DEF WorkerInStep, Name, GoesOn
<1>. QED BY <1>6, <1>9, <1>10

(* It hands the next answer to the worker whose turn it is.                *)
LEMMA DispatchKeeps ==
  ASSUME PInv, Dispatch
  PROVE  PInv'
<1>. PICK l, q : l = (seq - 1) % N /\ q = Messages(seq)
  OBVIOUS
<1>0. /\ seq \in Nat \ {0} /\ seq' = seq + 1 /\ dpc = "pull" /\ dpc' \in {"pull", "done"}
      /\ jobs' = [jobs EXCEPT ![l] = Append(@, q)]
      /\ UNCHANGED <<probe, cancelled, wpc, todo, results, turn, cpc, out, finished, answer, stopped>>
      /\ dpc' = IF seq > Len(Batches) THEN "done" ELSE "pull"
      /\ seq <= Len(Batches) \/ probe.end # "eof"
  BY DEF PInv, PTyped, Dispatch, workerVars, callerVars
<1>1. Steady /\ ConsumerStill
  BY <1>0 DEF Steady, Done, ConsumerStill
<1>2. /\ l \in Workers /\ Due(l) = seq
      /\ \A w \in Workers : Due(w)' = IF w = l THEN Due(w) + N ELSE Due(w)
      /\ Due(l)' = seq + N
  <2>1. l \in Workers
    BY <1>0, NextWorker
  <2>2. Due(l) = seq
    BY <1>0, <2>1, DueFrom
  <2>3. \A w \in Workers : Due(w)' = IF w = l THEN Due(w) + N ELSE Due(w)
    BY <1>0, DueMoves
  <2>. QED BY <2>1, <2>2, <2>3
<1>3. seq \in 1..(Len(Batches) + 1) /\ Len(Batches) \in Nat /\ probe \in Probes
  BY <1>0, Sides DEF PInv, PTyped, DispatcherInStep
<1>4. q \in Seq(Message) /\ Rest(q) /\ Head(q).of = seq /\ Head(q).no = 1
  BY <1>0, <1>3, MessagesRest
<1>5. /\ jobs' \in [Workers -> Seq(Seq(Message))]
      /\ \A w \in Workers \ {l} : jobs'[w] = jobs[w]
      /\ WorkInHand(l)'
      /\ Reading => LaneInOrder(l)' /\ WorkerInStep(l)'
  BY <1>0, <1>1, <1>2, <1>4, LaneIsHanded
<1>6. PTyped'
  BY <1>0, <1>3, <1>5, SameSide DEF PInv, PTyped
<1>7. LanesInStep' /\ WorkInStep'
  <2>1. \A w \in Workers \ {l} :
           /\ results'[w] = results[w] /\ wpc'[w] = wpc[w] /\ todo'[w] = todo[w]
           /\ jobs'[w] = jobs[w] /\ Due(w)' = Due(w)
    BY <1>0, <1>2, <1>5
  <2>2. cpc' = cpc
    BY <1>0
  <2>. QED BY <1>1, <1>2, <1>5, <2>1, <2>2, OneLane
<1>8. DispatcherInStep'
  <2>1. Batches' = Batches
    BY <1>0, SameSide
  <2>2. \A w \in Workers : wpc[w] # "unborn"
    BY <1>0 DEF PInv, DispatcherInStep
  <2>. QED BY <1>0, <1>3, <2>1, <2>2 DEF DispatcherInStep
<1>. QED BY <1>0, <1>1, <1>6, <1>7, <1>8, ConsumerStaysInStep DEF PInv

(* It gives up under an ended context.                                     *)
LEMMA DispatchCancelledKeeps ==
  ASSUME PInv, DispatchCancelled
  PROVE  PInv'
<1>. PICK l, m : l = (seq - 1) % N /\ m = [kind |-> "ctx", of |-> seq, no |-> 1]
  OBVIOUS
<1>0. /\ seq \in Nat \ {0} /\ seq' = seq /\ dpc = "pull" /\ dpc' = "done" /\ Done
      /\ UNCHANGED jobs \/ jobs' = [jobs EXCEPT ![l] = Append(@, <<m>>)]
      /\ UNCHANGED <<probe, cancelled, wpc, todo, results, turn, cpc, out, finished, answer, stopped>>
  BY DEF PInv, PTyped, DispatchCancelled, workerVars, callerVars
<1>1. Steady /\ ConsumerStill /\ Done'
  BY <1>0 DEF Steady, Done, ConsumerStill
<1>2. /\ l \in Workers /\ Due(l) = seq
      /\ \A w \in Workers : Due(w)' = Due(w)
  BY <1>0, NextWorker, DueFrom, DueTheSame
<1>3. /\ <<m>> \in Seq(Message) /\ Rest(<<m>>)
      /\ Head(<<m>>).of = seq /\ Head(<<m>>).no = 1
  <2>1. m \in Message /\ m.kind = "ctx" /\ m.of = seq /\ m.no = 1
    BY <1>0 DEF Message, Kinds
  <2>2. Genuine(m)
    BY <1>0, <2>1 DEF Genuine
  <2>3. /\ <<m>> \in Seq(Message) /\ <<m>> # <<>> /\ Len(<<m>>) = 1 /\ DOMAIN <<m>> = 1..1
        /\ <<m>>[1] = m /\ Head(<<m>>) = m
    BY <2>1
  <2>4. Last(<<m>>) = m
    BY <2>3 DEF Last
  <2>5. \A j \in 1..1 : Genuine(<<m>>[j])
    BY <2>2, <2>3
  <2>6. 1..(Len(<<m>>) - 1) = {}
    BY <2>3
  <2>7. Rest(<<m>>)
    BY <2>1, <2>3, <2>4, <2>5, <2>6 DEF Rest
  <2>. QED BY <2>1, <2>3, <2>7
<1>4. ASSUME UNCHANGED jobs PROVE PTyped' /\ LanesInStep' /\ WorkInStep'
  <2>1. PTyped'
    BY <1>0, <1>4, SameSide DEF PInv, PTyped
  <2>2. \A w \in Workers : /\ results'[w] = results[w] /\ wpc'[w] = wpc[w]
                           /\ todo'[w] = todo[w] /\ jobs'[w] = jobs[w]
    BY <1>0, <1>4
  <2>3. \A w \in Workers : WorkInHand(w)'
    BY <1>1, <2>2, WorkKeeps DEF PInv, WorkInStep
  <2>4. ASSUME Reading, NEW w \in Workers PROVE LaneInOrder(w)' /\ WorkerInStep(w)'
    <3>1. LaneInOrder(w) /\ WorkerInStep(w)
      BY <2>4 DEF PInv, LanesInStep
    <3>2. Asked(w)' = Asked(w)
      BY <1>1, AsksTheSame
    <3>. QED BY <1>1, <1>2, <2>2, <3>1, <3>2, LaneKeeps
  <2>5. LanesInStep' /\ WorkInStep'
    BY <1>0, <2>3, <2>4 DEF LanesInStep, WorkInStep, Reading
  <2>. QED BY <2>1, <2>5
<1>5. ASSUME jobs' = [jobs EXCEPT ![l] = Append(@, <<m>>)]
      PROVE  PTyped' /\ LanesInStep' /\ WorkInStep'
  <2>1. /\ jobs' \in [Workers -> Seq(Seq(Message))]
        /\ \A w \in Workers \ {l} : jobs'[w] = jobs[w]
        /\ WorkInHand(l)'
        /\ Reading => LaneInOrder(l)' /\ WorkerInStep(l)'
    BY <1>0, <1>1, <1>2, <1>3, <1>5, LaneIsHanded
  <2>2. PTyped'
    BY <1>0, <2>1, SameSide DEF PInv, PTyped
  <2>3. \A w \in Workers \ {l} :
           /\ results'[w] = results[w] /\ wpc'[w] = wpc[w] /\ todo'[w] = todo[w]
           /\ jobs'[w] = jobs[w] /\ Due(w)' = Due(w)
    BY <1>0, <1>2, <2>1
  <2>4. cpc' = cpc
    BY <1>0
  <2>. QED BY <1>1, <1>2, <2>1, <2>2, <2>3, <2>4, OneLane
<1>6. PTyped' /\ LanesInStep' /\ WorkInStep'
  BY <1>0, <1>4, <1>5
<1>7. DispatcherInStep'
  <2>1. \A w \in Workers : wpc[w] # "unborn"
    BY <1>0 DEF PInv, DispatcherInStep
  <2>. QED BY <1>0, <1>1, <2>1 DEF DispatcherInStep
<1>. QED BY <1>0, <1>1, <1>6, <1>7, ConsumerStaysInStep DEF PInv

-----------------------------------------------------------------------------
(* The workers' steps.                                                     *)

(* Where the workers are, as one of them takes a step.                     *)
LEMMA DispatcherStaysInStep ==
  ASSUME PInv, Steady, NEW i \in Workers, wpc[i] # "unborn",
         UNCHANGED <<dpc, seq, probe>>, Done' = Done,
         NEW a \in {"recv", "send", "done"}, wpc' = [wpc EXCEPT ![i] = a]
  PROVE  DispatcherInStep'
<1>1. Batches' = Batches
  BY SameSide
<1>2. \A w \in Workers : wpc'[w] = "unborn" <=> wpc[w] = "unborn"
  BY DEF PInv, PTyped
<1>. QED BY <1>1, <1>2 DEF PInv, DispatcherInStep

(* A worker takes its next job.                                            *)
LEMMA ReceiveKeeps ==
  ASSUME PInv, NEW i \in Workers, Receive(i)
  PROVE  PInv'
<1>. PICK j, t, n : j = jobs[i] /\ t = Tail(j) /\ n = Len(j)
  OBVIOUS
<1>0. /\ wpc[i] = "recv" /\ j # <<>> /\ jobs' = [jobs EXCEPT ![i] = Tail(@)]
      /\ todo' = [todo EXCEPT ![i] = Head(j)] /\ wpc' = [wpc EXCEPT ![i] = "send"]
      /\ UNCHANGED <<probe, cancelled, dpc, seq, results, turn, cpc, out, finished, answer, stopped>>
  BY DEF Receive, dispatcherVars, callerVars
<1>1. Steady /\ ConsumerStill /\ Done' = Done
  BY <1>0 DEF Steady, Done, ConsumerStill
<1>2. /\ jobs \in [Workers -> Seq(Seq(Message))] /\ todo \in [Workers -> Seq(Message)]
      /\ wpc \in [Workers -> {"unborn", "recv", "send", "done"}]
  BY DEF PInv, PTyped
<1>3. j \in Seq(Seq(Message))
  BY <1>2
<1>4. /\ t \in Seq(Seq(Message)) /\ Len(t) = n - 1 /\ n \in Nat \ {0}
      /\ DOMAIN j = 1..n /\ DOMAIN t = 1..(n - 1)
      /\ \A k \in 1..(n - 1) : t[k] = j[k + 1]
      /\ Head(j) = j[1] /\ Last(j) = j[n] /\ Head(j) \in Seq(Message)
      /\ t = <<>> => n = 1 /\ Last(j) = Head(j)
      /\ t # <<>> => n > 1 /\ Last(t) = Last(j) /\ Head(t) = j[2]
  BY <1>0, <1>3, Tailed
<1>5. /\ jobs'[i] = t /\ todo'[i] = Head(j) /\ wpc'[i] = "send" /\ jobs[i] = j
      /\ \A w \in Workers \ {i} : jobs'[w] = jobs[w] /\ todo'[w] = todo[w] /\ wpc'[w] = wpc[w]
      /\ jobs' \in [Workers -> Seq(Seq(Message))] /\ todo' \in [Workers -> Seq(Message)]
      /\ wpc' \in [Workers -> {"unborn", "recv", "send", "done"}]
  BY <1>0, <1>2, <1>4
<1>6. PTyped'
  BY <1>0, <1>5, SameSide DEF PInv, PTyped
<1>7. \A k \in 1..n : Rest(j[k]) /\ Head(j[k]).no = 1
  BY <1>4, <1>5 DEF PInv, WorkInStep, WorkInHand
<1>8. WorkInHand(i)'
  <2>1. \A x : Rest(x) => Rest(x)'
    BY <1>1, StaysGenuine
  <2>2. \A k \in 1..(n - 1) : Rest(t[k]) /\ Head(t[k]).no = 1
    BY <1>4, <1>7
  <2>3. Rest(Head(j))
    BY <1>4, <1>7
  <2>4. \A k \in DOMAIN t : Rest(t[k])' /\ Head(t[k]).no = 1
    BY <1>4, <2>1, <2>2
  <2>. QED BY <1>5, <2>1, <2>3, <2>4 DEF WorkInHand
<1>9. ASSUME Reading PROVE LaneInOrder(i)' /\ WorkerInStep(i)'
  <2>1. LaneInOrder(i) /\ WorkerInStep(i)
    BY <1>9 DEF PInv, LanesInStep
  <2>2. Asked(i)' = Asked(i) /\ Due(i)' = Due(i)
    BY <1>0, <1>1, AsksTheSame, DueTheSame
  <2>3. LaneInOrder(i)' /\ NextOf(i)' = NextOf(i)
    BY <1>0, <1>1, <2>1, <2>2, LaneOrderKeeps
  <2>4. NextOf(i)[2] = 1 /\ NextJob(i) = NextOf(i)[1]
    BY <1>0, <2>1 DEF WorkerInStep, NextJob
  <2>5. /\ Head(Head(j)).of = NextJob(i)
        /\ \A k \in 1..(n - 1) : Head(j[k + 1]).of = Head(j[k]).of + N
        /\ (dpc = "done" /\ Done) \/ Head(Last(j)).of + N = Due(i)
    BY <1>0, <1>5, <2>1 DEF WorkerInStep, JobsInOrder, AfterJobs
  <2>6. Name(Head(todo'[i])) = NextOf(i)
    <3>1. Head(Head(j)).no = 1 /\ Head(Head(j)).of = NextOf(i)[1]
      BY <1>4, <1>7, <2>4, <2>5
    <3>2. NextOf(i) = <<NextOf(i)[1], NextOf(i)[2]>>
      BY DEF NextOf, Asked, After
    <3>. QED BY <1>5, <2>4, <3>1, <3>2 DEF Name
  <2>7. NextJob(i)' = Head(Head(j)).of + N
    BY <1>5 DEF NextJob
  <2>8. t # <<>> => Head(Head(t)).of = NextJob(i)'
    <3>1. ASSUME t # <<>> PROVE 1 \in 1..(n - 1) /\ Head(t) = j[1 + 1]
      BY <1>4, <3>1
    <3>. QED BY <1>4, <2>5, <2>7, <3>1
  <2>9. \A k \in 1..(Len(t) - 1) : Head(t[k + 1]).of = Head(t[k]).of + N
    <3>. SUFFICES ASSUME NEW k \in 1..(Len(t) - 1)
                  PROVE  Head(t[k + 1]).of = Head(t[k]).of + N
      OBVIOUS
    <3>1. k \in 1..(n - 1) /\ k + 1 \in 1..(n - 1)
      BY <1>4
    <3>. QED BY <1>4, <2>5, <3>1
  <2>10. AfterJobs(i)' = Head(Last(j)).of + N
    BY <1>4, <1>5, <2>7 DEF AfterJobs
  <2>11. JobsInOrder(i)'
    BY <1>0, <1>1, <1>5, <2>2, <2>5, <2>8, <2>9, <2>10 DEF JobsInOrder
  <2>. QED BY <1>5, <2>3, <2>6, <2>11 DEF WorkerInStep, Name
<1>10. LanesInStep' /\ WorkInStep'
  <2>1. \A w \in Workers \ {i} :
           /\ results'[w] = results[w] /\ wpc'[w] = wpc[w] /\ todo'[w] = todo[w]
           /\ jobs'[w] = jobs[w] /\ Due(w)' = Due(w)
    BY <1>0, <1>5, DueTheSame
  <2>2. cpc' = cpc
    BY <1>0
  <2>. QED BY <1>1, <1>8, <1>9, <2>1, <2>2, OneLane
<1>11. DispatcherInStep'
  BY <1>0, <1>1, DispatcherStaysInStep
<1>. QED BY <1>0, <1>1, <1>6, <1>10, <1>11, ConsumerStaysInStep DEF PInv

(* It sends the next message of the job, and goes on as the message says.  *)
LEMMA SendKeeps ==
  ASSUME PInv, NEW i \in Workers, Send(i)
  PROVE  PInv'
<1>. PICK q, m, t, n, a : /\ q = todo[i] /\ m = Head(q) /\ t = Tail(q) /\ n = Len(q)
                          /\ a = CASE m.kind = "rows" -> "send"
                                   [] m.kind = "last" -> "recv"
                                   [] OTHER           -> "done"
  OBVIOUS
<1>0. /\ wpc[i] = "send" /\ results' = [results EXCEPT ![i] = Append(@, m)]
      /\ todo' = [todo EXCEPT ![i] = Tail(@)] /\ wpc' = [wpc EXCEPT ![i] = a]
      /\ UNCHANGED <<probe, cancelled, dpc, seq, jobs, turn, cpc, out, finished, answer, stopped>>
  BY DEF Send, dispatcherVars, callerVars
<1>1. Steady /\ ConsumerStill /\ Done' = Done
  BY <1>0 DEF Steady, Done, ConsumerStill
<1>2. /\ results \in [Workers -> Seq(Message)] /\ todo \in [Workers -> Seq(Message)]
      /\ wpc \in [Workers -> {"unborn", "recv", "send", "done"}]
  BY DEF PInv, PTyped
<1>3. /\ q \in Seq(Message) /\ Rest(q) /\ q # <<>>
  BY <1>0, <1>2 DEF PInv, WorkInStep, WorkInHand, Rest
<1>4. /\ t \in Seq(Message) /\ Len(t) = n - 1 /\ n \in Nat \ {0}
      /\ DOMAIN q = 1..n /\ DOMAIN t = 1..(n - 1)
      /\ \A k \in 1..(n - 1) : t[k] = q[k + 1]
      /\ m = q[1] /\ Last(q) = q[n] /\ m \in Message
      /\ t = <<>> => n = 1 /\ Last(q) = m
      /\ t # <<>> => n > 1 /\ Last(t) = Last(q) /\ Head(t) = q[2]
  BY <1>3, Tailed
<1>5. /\ a \in {"recv", "send", "done"}
      /\ a = "send" => m.kind = "rows"
      /\ a = "recv" => m.kind = "last"
      /\ a = "done" => ~GoesOn(m)
      /\ GoesOn(m) \/ a = "done"
  <2>1. CASE m.kind = "rows"
    BY <2>1 DEF GoesOn
  <2>2. CASE m.kind = "last"
    BY <2>2 DEF GoesOn
  <2>3. CASE m.kind \notin {"rows", "last"}
    BY <2>3 DEF GoesOn
  <2>. QED BY <2>1, <2>2, <2>3
<1>6. /\ results'[i] = Append(results[i], m) /\ results[i] \in Seq(Message)
      /\ Append(results[i], m) \in Seq(Message)
  <2>1. results'[i] = Append(results[i], m) /\ results[i] \in Seq(Message)
    BY <1>0, <1>2
  <2>. QED BY <1>4, <2>1, Appended
<1>7. /\ todo'[i] = t /\ wpc'[i] = a /\ todo[i] = q
      /\ \A w \in Workers \ {i} : results'[w] = results[w] /\ todo'[w] = todo[w] /\ wpc'[w] = wpc[w]
      /\ results' \in [Workers -> Seq(Message)] /\ todo' \in [Workers -> Seq(Message)]
      /\ wpc' \in [Workers -> {"unborn", "recv", "send", "done"}]
  BY <1>0, <1>2, <1>4, <1>5, <1>6
<1>8. PTyped'
  BY <1>0, <1>7, SameSide DEF PInv, PTyped
<1>9. ASSUME m.kind = "rows"
      PROVE  Rest(t) /\ Name(Head(t)) = After(m)
  <2>1. n > 1 /\ t # <<>>
    BY <1>3, <1>4, <1>9 DEF Rest
  <2>2. \A k \in 1..(n - 1) : q[k].kind = "rows" /\ Name(q[k + 1]) = After(q[k])
    BY <1>3 DEF Rest
  <2>3. Name(Head(t)) = After(m)
    <3>1. 1 \in 1..(n - 1) /\ Head(t) = q[1 + 1]
      BY <1>4, <2>1
    <3>. QED BY <1>4, <2>2, <3>1
  <2>4. \A k \in DOMAIN t : Genuine(t[k])
    BY <1>3, <1>4 DEF Rest
  <2>5. \A k \in 1..(Len(t) - 1) : t[k].kind = "rows" /\ Name(t[k + 1]) = After(t[k])
    <3>. SUFFICES ASSUME NEW k \in 1..(Len(t) - 1)
                  PROVE  t[k].kind = "rows" /\ Name(t[k + 1]) = After(t[k])
      OBVIOUS
    <3>1. k \in 1..(n - 1) /\ k + 1 \in 1..(n - 1)
      BY <1>4
    <3>. QED BY <1>4, <2>2, <3>1
  <2>6. Last(t).kind # "rows"
    BY <1>3, <1>4, <2>1 DEF Rest
  <2>. QED BY <2>1, <2>3, <2>4, <2>5, <2>6 DEF Rest
<1>10. WorkInHand(i)'
  <2>1. \A x : Rest(x) => Rest(x)'
    BY <1>1, StaysGenuine
  <2>. QED BY <1>0, <1>5, <1>7, <1>9, <2>1 DEF WorkInHand, PInv, WorkInStep
<1>11. ASSUME Reading PROVE LaneInOrder(i)' /\ WorkerInStep(i)'
  <2>1. LaneInOrder(i) /\ WorkerInStep(i)
    BY <1>11 DEF PInv, LanesInStep
  <2>2. Asked(i)' = Asked(i) /\ Due(i)' = Due(i)
    BY <1>0, <1>1, AsksTheSame, DueTheSame
  <2>3. Genuine(m) /\ Name(m) = NextOf(i)
    <3>1. 1 \in DOMAIN q /\ m = q[1]
      BY <1>4
    <3>2. Genuine(m)
      BY <1>3, <3>1 DEF Rest
    <3>3. Name(m) = NextOf(i)
      BY <1>0, <1>7, <2>1 DEF WorkerInStep
    <3>. QED BY <3>2, <3>3
  <2>4. LaneInOrder(i)' /\ NextOf(i)' = After(m) /\ results'[i] # <<>> /\ Last(results'[i]) = m
    BY <1>0, <1>1, <1>4, <1>5, <1>6, <1>7, <2>1, <2>2, <2>3, LanePuts
  <2>5. NextJob(i) = m.of + N
    BY <1>0, <1>7 DEF NextJob
  <2>6. ASSUME a = "send" PROVE WorkerInStep(i)'
    <3>1. Name(Head(t)) = After(m) /\ m.kind = "rows"
      BY <1>5, <1>9, <2>6
    <3>2. Head(t).of = m.of
      BY <3>1 DEF Name, After
    <3>3. NextJob(i)' = NextJob(i)
      BY <1>7, <2>5, <2>6, <3>2 DEF NextJob
    <3>4. JobsInOrder(i)'
      BY <1>0, <1>1, <2>1, <2>2, <3>3, JobsKeep DEF WorkerInStep
    <3>. QED BY <1>7, <2>4, <2>6, <3>1, <3>4 DEF WorkerInStep, Name
  <2>7. ASSUME a = "recv" PROVE WorkerInStep(i)'
    <3>1. After(m) = <<m.of + N, 1>>
      BY <1>5, <2>7 DEF After
    <3>2. NextJob(i)' = NextJob(i)
      BY <1>7, <2>4, <2>5, <2>7, <3>1 DEF NextJob
    <3>3. JobsInOrder(i)'
      BY <1>0, <1>1, <2>1, <2>2, <3>2, JobsKeep DEF WorkerInStep
    <3>. QED BY <1>7, <2>4, <2>7, <3>1, <3>3 DEF WorkerInStep
  <2>8. ASSUME a = "done" PROVE WorkerInStep(i)'
    BY <1>5, <1>7, <2>4, <2>8 DEF WorkerInStep, GoesOn
  <2>. QED BY <1>5, <2>4, <2>6, <2>7, <2>8
<1>12. LanesInStep' /\ WorkInStep'
  <2>1. \A w \in Workers \ {i} :
           /\ results'[w] = results[w] /\ wpc'[w] = wpc[w] /\ todo'[w] = todo[w]
           /\ jobs'[w] = jobs[w] /\ Due(w)' = Due(w)
    BY <1>0, <1>7, DueTheSame
  <2>2. cpc' = cpc
    BY <1>0
  <2>. QED BY <1>1, <1>10, <1>11, <2>1, <2>2, OneLane
<1>13. DispatcherInStep'
  BY <1>0, <1>1, <1>5, DispatcherStaysInStep
<1>. QED BY <1>0, <1>1, <1>8, <1>12, <1>13, ConsumerStaysInStep DEF PInv

(* It gives up under an ended context, or sends the context's error.       *)
LEMMA SendCancelledKeeps ==
  ASSUME PInv, NEW i \in Workers, SendCancelled(i)
  PROVE  PInv'
<1>. PICK q, m : q = todo[i] /\ m = [Head(q) EXCEPT !.kind = "ctx"]
  OBVIOUS
<1>0. /\ wpc[i] = "send" /\ Done /\ wpc' = [wpc EXCEPT ![i] = "done"]
      /\ todo' = [todo EXCEPT ![i] = <<>>]
      /\ UNCHANGED results \/ results' = [results EXCEPT ![i] = Append(@, m)]
      /\ UNCHANGED <<probe, cancelled, dpc, seq, jobs, turn, cpc, out, finished, answer, stopped>>
  BY DEF SendCancelled, dispatcherVars, callerVars
<1>1. Steady /\ ConsumerStill /\ Done' = Done
  BY <1>0 DEF Steady, Done, ConsumerStill
<1>2. /\ results \in [Workers -> Seq(Message)] /\ todo \in [Workers -> Seq(Message)]
      /\ wpc \in [Workers -> {"unborn", "recv", "send", "done"}]
  BY DEF PInv, PTyped
<1>3. q \in Seq(Message) /\ q # <<>>
  BY <1>0, <1>2 DEF PInv, WorkInStep, WorkInHand, Rest
<1>4. /\ m \in Message /\ m.kind = "ctx" /\ Name(m) = Name(Head(q)) /\ Genuine(m)
      /\ ~GoesOn(m)
  <2>1. Head(q) \in Message
    BY <1>3, Tailed
  <2>2. m \in Message /\ m.kind = "ctx" /\ m.of = Head(q).of /\ m.no = Head(q).no
    BY <2>1 DEF Message, Kinds
  <2>. QED BY <1>0, <2>2 DEF Name, Genuine, GoesOn
<1>5. /\ wpc'[i] = "done" /\ todo[i] = q
      /\ \A w \in Workers \ {i} : results'[w] = results[w] /\ todo'[w] = todo[w] /\ wpc'[w] = wpc[w]
      /\ todo' \in [Workers -> Seq(Message)]
      /\ wpc' \in [Workers -> {"unborn", "recv", "send", "done"}]
  BY <1>0, <1>2
<1>6. results' \in [Workers -> Seq(Message)]
  <2>1. Append(results[i], m) \in Seq(Message)
    BY <1>2, <1>4, Appended
  <2>. QED BY <1>0, <1>2, <2>1
<1>7. PTyped'
  BY <1>0, <1>5, <1>6, SameSide DEF PInv, PTyped
<1>8. WorkInHand(i)'
  <2>1. \A x : Rest(x) => Rest(x)'
    BY <1>1, StaysGenuine
  <2>. QED BY <1>0, <1>5, <2>1 DEF WorkInHand, PInv, WorkInStep
<1>9. ASSUME Reading PROVE LaneInOrder(i)' /\ WorkerInStep(i)'
  <2>1. LaneInOrder(i) /\ WorkerInStep(i)
    BY <1>9 DEF PInv, LanesInStep
  <2>2. Asked(i)' = Asked(i)
    BY <1>1, AsksTheSame
  <2>3. CASE UNCHANGED results
    <3>1. LaneInOrder(i)'
      BY <1>1, <1>5, <2>1, <2>2, <2>3, LaneOrderKeeps
    <3>. QED BY <1>0, <1>1, <1>5, <3>1 DEF WorkerInStep
  <2>4. CASE results' = [results EXCEPT ![i] = Append(@, m)]
    <3>1. results'[i] = Append(results[i], m) /\ results[i] \in Seq(Message)
      BY <1>2, <2>4
    <3>2. Name(m) = NextOf(i)
      BY <1>0, <1>4, <1>5, <2>1 DEF WorkerInStep
    <3>3. LaneInOrder(i)'
      BY <1>0, <1>1, <1>4, <1>5, <2>1, <2>2, <3>1, <3>2, LanePuts
    <3>. QED BY <1>0, <1>1, <1>5, <3>3 DEF WorkerInStep
  <2>. QED BY <1>0, <2>3, <2>4
<1>10. LanesInStep' /\ WorkInStep'
  <2>1. \A w \in Workers \ {i} :
           /\ results'[w] = results[w] /\ wpc'[w] = wpc[w] /\ todo'[w] = todo[w]
           /\ jobs'[w] = jobs[w] /\ Due(w)' = Due(w)
    BY <1>0, <1>5, DueTheSame
  <2>2. cpc' = cpc
    BY <1>0
  <2>. QED BY <1>1, <1>8, <1>9, <2>1, <2>2, OneLane
<1>11. DispatcherInStep'
  BY <1>0, <1>1, DispatcherStaysInStep
<1>. QED BY <1>0, <1>1, <1>7, <1>10, <1>11, ConsumerStaysInStep DEF PInv

(* It closes its lane when its jobs are closed and done.                   *)
LEMMA NoMoreJobsKeeps ==
  ASSUME PInv, NEW i \in Workers, NoMoreJobs(i)
  PROVE  PInv'
<1>0. /\ wpc[i] = "recv" /\ jobs[i] = <<>> /\ dpc = "done"
      /\ wpc' = [wpc EXCEPT ![i] = "done"]
      /\ UNCHANGED <<probe, cancelled, dpc, seq, jobs, todo, results, turn, cpc, out, finished, answer, stopped>>
  BY DEF NoMoreJobs, dispatcherVars, callerVars
<1>1. Steady /\ ConsumerStill /\ Done' = Done
  BY <1>0 DEF Steady, Done, ConsumerStill
<1>2. wpc \in [Workers -> {"unborn", "recv", "send", "done"}]
  BY DEF PInv, PTyped
<1>3. /\ wpc'[i] = "done"
      /\ \A w \in Workers \ {i} : wpc'[w] = wpc[w]
      /\ wpc' \in [Workers -> {"unborn", "recv", "send", "done"}]
  BY <1>0, <1>2
<1>4. PTyped'
  BY <1>0, <1>3, SameSide DEF PInv, PTyped
<1>5. WorkInHand(i)'
  <2>1. \A x : Rest(x) => Rest(x)'
    BY <1>1, StaysGenuine
  <2>. QED BY <1>0, <1>3, <2>1 DEF WorkInHand, PInv, WorkInStep
<1>6. ASSUME Reading PROVE LaneInOrder(i)' /\ WorkerInStep(i)'
  <2>1. LaneInOrder(i) /\ WorkerInStep(i)
    BY <1>6 DEF PInv, LanesInStep
  <2>2. Asked(i)' = Asked(i) /\ Due(i)' = Due(i)
    BY <1>0, <1>1, AsksTheSame, DueTheSame
  <2>3. LaneInOrder(i)' /\ NextOf(i)' = NextOf(i)
    BY <1>0, <1>1, <2>1, <2>2, LaneOrderKeeps
  <2>4. Done \/ NextOf(i) = <<Due(i), 1>>
    <3>1. Done \/ (NextOf(i)[1] = Due(i) /\ NextOf(i)[2] = 1)
      BY <1>0, <2>1 DEF WorkerInStep, JobsInOrder, AfterJobs, NextJob
    <3>2. NextOf(i) = <<NextOf(i)[1], NextOf(i)[2]>>
      BY DEF NextOf, Asked, After
    <3>. QED BY <3>1, <3>2
  <2>. QED BY <1>0, <1>1, <1>3, <2>2, <2>3, <2>4 DEF WorkerInStep
<1>7. LanesInStep' /\ WorkInStep'
  <2>1. \A w \in Workers \ {i} :
           /\ results'[w] = results[w] /\ wpc'[w] = wpc[w] /\ todo'[w] = todo[w]
           /\ jobs'[w] = jobs[w] /\ Due(w)' = Due(w)
    BY <1>0, <1>3, DueTheSame
  <2>2. cpc' = cpc
    BY <1>0
  <2>. QED BY <1>1, <1>5, <1>6, <2>1, <2>2, OneLane
<1>8. DispatcherInStep'
  BY <1>0, <1>1, DispatcherStaysInStep
<1>. QED BY <1>0, <1>1, <1>4, <1>7, <1>8, ConsumerStaysInStep DEF PInv

-----------------------------------------------------------------------------
(* The consumer's steps.                                                   *)

(* The consumer asks, and launches the goroutines the first time.          *)
LEMMA AskKeeps ==
  ASSUME PInv, Ask
  PROVE  PInv'
<1>0. /\ cpc \in {"idle", "loop"}
      /\ UNCHANGED <<probe, cancelled, seq, jobs, todo, results, turn, out, finished, stopped>>
      /\ \/ dpc = "unborn" /\ dpc' = "pull" /\ wpc' = [w \in Workers |-> "recv"]
         \/ dpc # "unborn" /\ UNCHANGED <<dpc, wpc>>
      /\ \/ cpc' = "over" /\ answer' = "ctx"
         \/ cpc' = "recv" /\ answer' = answer
  BY DEF Ask
<1>1. Steady /\ ConsumerStill /\ Done' = Done
  BY <1>0 DEF Steady, Done, ConsumerStill
<1>2. PTyped'
  BY <1>0, SameSide DEF PInv, PTyped
<1>3. /\ Batches' = Batches /\ Got' = Got /\ \A k : Offset(k)' = Offset(k)
      /\ \A w \in Workers : Due(w)' = Due(w) /\ Asked(w)' = Asked(w)
  BY <1>0, <1>1, AsksTheSame, DueTheSame, SameSide DEF Steady
<1>4. \A w \in Workers : WorkInHand(w)'
  <2>1. \A w \in Workers : wpc'[w] = "send" => wpc[w] = "send" /\ todo'[w] = todo[w]
    BY <1>0
  <2>. QED BY <1>0, <1>1, <2>1, WorkKeeps DEF PInv, WorkInStep
<1>5. ASSUME Reading, NEW w \in Workers PROVE LaneInOrder(w)' /\ WorkerInStep(w)'
  <2>1. LaneInOrder(w) /\ WorkerInStep(w)
    BY <1>5 DEF PInv, LanesInStep
  <2>2. CASE UNCHANGED <<dpc, wpc>>
    BY <1>0, <1>1, <1>3, <2>1, <2>2, LaneKeeps
  <2>3. CASE dpc = "unborn" /\ wpc' = [v \in Workers |-> "recv"]
    <3>1. wpc[w] = "unborn" /\ wpc'[w] = "recv"
      BY <2>3 DEF PInv, DispatcherInStep
    <3>2. LaneInOrder(w)' /\ NextOf(w)' = NextOf(w)
      BY <1>0, <1>1, <1>3, <2>1, <3>1, LaneOrderKeeps
    <3>3. NextJob(w)' = NextJob(w)
      BY <3>1, <3>2 DEF NextJob
    <3>4. JobsInOrder(w)'
      BY <1>0, <1>1, <1>3, <2>1, <3>1, <3>3, JobsKeep DEF WorkerInStep
    <3>. QED BY <2>1, <3>1, <3>2, <3>4 DEF WorkerInStep
  <2>. QED BY <1>0, <2>2, <2>3
<1>6. LanesInStep' /\ WorkInStep'
  BY <1>0, <1>4, <1>5 DEF LanesInStep, WorkInStep, Reading
<1>7. DispatcherInStep'
  <2>1. \A w \in Workers : wpc'[w] = "unborn" <=> dpc' = "unborn"
    BY <1>0 DEF PInv, DispatcherInStep
  <2>2. /\ dpc' \in {"unborn", "pull"} => dpc \in {"unborn", "pull"}
        /\ dpc' = "done" => dpc = "done"
    BY <1>0 DEF PInv, PTyped
  <2>. QED BY <1>0, <1>1, <1>3, <2>1, <2>2 DEF PInv, DispatcherInStep
<1>8. ConsumerInStep'
  BY <1>0, <1>3 DEF PInv, ConsumerInStep, Reading
<1>. QED BY <1>2, <1>6, <1>7, <1>8 DEF PInv

(* The consumer stops reading: nothing is owed it any more.                *)
LEMMA StopKeeps ==
  ASSUME PInv, PTyped', ~Reading', UNCHANGED <<probe, cancelled, dpc, seq, wpc, jobs, todo,
                                               turn, out, finished>>,
         Done => Done', stopped' => cpc' # "over"
  PROVE  PInv'
<1>1. Steady /\ ConsumerStill
  BY DEF Steady, ConsumerStill
<1>2. /\ Batches' = Batches /\ Got' = Got /\ \A k : Offset(k)' = Offset(k)
  BY <1>1, AsksTheSame, SameSide
<1>3. WorkInStep'
  BY <1>1, WorkKeeps DEF PInv, WorkInStep
<1>4. LanesInStep'
  BY DEF LanesInStep
<1>5. DispatcherInStep'
  BY <1>2 DEF PInv, DispatcherInStep
<1>6. ConsumerInStep'
  BY <1>2 DEF PInv, ConsumerInStep, Reading
<1>. QED BY <1>3, <1>4, <1>5, <1>6 DEF PInv

(* The consumer's own lane, and what is at its head.                       *)
LEMMA HeadOfTurn ==
  ASSUME PInv, cpc = "recv", results[turn] # <<>>
  PROVE  /\ results \in [Workers -> Seq(Message)] /\ turn \in Workers
         /\ results[turn] \in Seq(Message) /\ Tail(results[turn]) \in Seq(Message)
         /\ [results EXCEPT ![turn] = Tail(@)] \in [Workers -> Seq(Message)]
         /\ Head(results[turn]) \in Message /\ Genuine(Head(results[turn]))
         /\ Head(results[turn]).of = finished + 1 /\ Head(results[turn]).no = Got + 1
<1>. PICK r, m : r = results[turn] /\ m = Head(r)
  OBVIOUS
<1>1. results \in [Workers -> Seq(Message)] /\ turn \in Workers /\ r \in Seq(Message)
  BY DEF PInv, PTyped
<1>2. /\ Tail(r) \in Seq(Message) /\ m \in Message /\ m = r[1] /\ 1 \in DOMAIN r
  BY <1>1, Tailed
<1>3. LaneInOrder(turn)
  BY <1>1 DEF PInv, LanesInStep, Reading
<1>4. Genuine(m) /\ Name(m) = Asked(turn)
  BY <1>2, <1>3 DEF LaneInOrder
<1>5. Owed(turn) = finished + 1
  <2>1. finished \in Nat /\ turn \in Nat
    BY <1>1, Workforce, Sides DEF PInv, PTyped
  <2>. QED BY <2>1 DEF Owed
<1>6. m.of = finished + 1 /\ m.no = Got + 1
  BY <1>4, <1>5 DEF Name, Asked
<1>. QED BY <1>1, <1>2, <1>4, <1>6

(* How far the consumer is, in numbers.                                    *)
LEMMA GotIs ==
  ASSUME PInv
  PROVE  /\ finished \in Nat /\ finished <= Len(Batches) /\ Len(Batches) \in Nat
         /\ Offset(finished) \in Nat /\ Got \in Nat
         /\ Got # 0 => out # <<>> /\ Last(out) = Offset(finished) + Got
<1>1. /\ finished \in Nat /\ finished <= Len(Batches) /\ Len(Batches) \in Nat
      /\ Offset(finished) \in Nat
  BY Sides, Offsets DEF PInv, PTyped
<1>2. out # <<>> => Last(out) \in Nat
  <2>1. out \in Seq(Nat)
    BY DEF PInv, PTyped
  <2>. QED BY <2>1, Tailed
<1>. QED BY <1>1, <1>2 DEF Got

(* It takes a batch of rows, which is the next of the serial stream.       *)
LEMMA TakeRowsKeeps ==
  ASSUME PInv, TakeRows
  PROVE  /\ PInv'
         /\ out' = Append(out, Offset(finished) + Got + 1) /\ Got' = Got + 1
<1>. PICK r, m, x : /\ r = results[turn] /\ m = Head(r) /\ x = Offset(finished) + Got + 1
  OBVIOUS
<1>0. /\ cpc = "recv" /\ r # <<>> /\ m.kind = "rows"
      /\ results' = [results EXCEPT ![turn] = Tail(@)]
      /\ out' = Append(out, Place(m)) /\ cpc' = "idle"
      /\ UNCHANGED <<probe, cancelled, dpc, seq, wpc, todo, jobs, turn, finished, answer, stopped>>
  BY DEF TakeRows, Taken, dispatcherVars, workerVars
<1>1. Steady /\ Done' = Done
  BY <1>0 DEF Steady, Done
<1>2. /\ results \in [Workers -> Seq(Message)] /\ turn \in Workers
      /\ r \in Seq(Message)
      /\ results' \in [Workers -> Seq(Message)]
      /\ m \in Message /\ Genuine(m)
      /\ m.of = finished + 1 /\ m.no = Got + 1
  BY <1>0, HeadOfTurn
<1>3. /\ finished \in Nat /\ finished <= Len(Batches) /\ Offset(finished) \in Nat /\ Got \in Nat
      /\ out \in Seq(Nat)
  BY GotIs DEF PInv, PTyped
<1>4. Place(m) = x /\ x \in Nat
  <2>1. m.of - 1 = finished
    <3>1. (finished + 1) - 1 = finished
      BY <1>3
    <3>. QED BY <1>2, <3>1, Zenon
  <2>. QED BY <1>2, <1>3, <2>1 DEF Place
<1>5. /\ out' \in Seq(Nat) /\ Len(out') = Len(out) + 1 /\ Len(out) \in Nat /\ DOMAIN out = 1..Len(out)
      /\ DOMAIN out' = 1..(Len(out) + 1) /\ out' # <<>> /\ Last(out') = x
      /\ out'[Len(out) + 1] = x /\ \A k \in 1..Len(out) : out'[k] = out[k]
  <2>. PICK o : o = out
    OBVIOUS
  <2>1. out' = Append(o, x) /\ o \in Seq(Nat) /\ x \in Nat
    BY <1>0, <1>3, <1>4
  <2>2. /\ Append(o, x) \in Seq(Nat) /\ Len(Append(o, x)) = Len(o) + 1 /\ Len(o) \in Nat
        /\ DOMAIN o = 1..Len(o) /\ DOMAIN Append(o, x) = 1..(Len(o) + 1)
        /\ Append(o, x) # <<>> /\ Last(Append(o, x)) = x /\ Append(o, x)[Len(o) + 1] = x
        /\ \A k \in 1..Len(o) : Append(o, x)[k] = o[k]
    BY <2>1, Appended
  <2>. QED BY <2>1, <2>2, Zenon
<1>6. Batches' = Batches /\ \A k : Offset(k)' = Offset(k)
  BY <1>0, SameSide
<1>7. Got' = Got + 1
  <2>1. Got' = IF Last(out') > Offset(finished) THEN Last(out') - Offset(finished) ELSE 0
    BY <1>0, <1>5, <1>6 DEF Got
  <2>. QED BY <1>3, <1>5, <2>1
<1>8. PTyped'
  BY <1>0, <1>2, <1>5, <1>6 DEF PInv, PTyped
<1>9. ASSUME NEW w \in Workers PROVE LaneInOrder(w)' /\ WorkerInStep(w)'
  <2>1. LaneInOrder(w) /\ WorkerInStep(w)
    BY <1>0 DEF PInv, LanesInStep, Reading
  <2>2. Due(w)' = Due(w) /\ Owed(w)' = Owed(w)
    BY <1>0, DueTheSame DEF Owed
  <2>3. CASE w = turn
    <3>1. Asked(w)' = After(m)
      <4>1. Asked(w)' = <<Owed(w), Got + 1 + 1>>
        BY <1>0, <1>7, <2>2, <2>3 DEF Asked
      <4>2. Asked(w) = Name(m)
        BY <1>0, <2>1, <2>3, Tailed, <1>2 DEF LaneInOrder
      <4>3. Owed(w) = m.of
        BY <4>2 DEF Asked, Name
      <4>. QED BY <1>0, <1>2, <4>1, <4>3 DEF After
    <3>2. GoesOn(m) /\ results'[w] = Tail(results[w])
      BY <1>0, <1>2, <2>3 DEF GoesOn
    <3>. QED BY <1>0, <1>1, <1>2, <2>1, <2>2, <2>3, <3>1, <3>2, LaneTakes
  <2>4. CASE w # turn
    <3>1. Asked(w)' = Asked(w)
      BY <1>0, <2>2, <2>4 DEF Asked
    <3>2. results'[w] = results[w]
      BY <1>0, <1>2, <2>4
    <3>. QED BY <1>0, <1>1, <2>1, <2>2, <3>1, <3>2, LaneKeeps
  <2>. QED BY <2>3, <2>4
<1>10. LanesInStep' /\ WorkInStep'
  <2>1. \A w \in Workers : WorkInHand(w)'
    BY <1>0, <1>1, WorkKeeps DEF PInv, WorkInStep
  <2>. QED BY <1>9, <2>1 DEF LanesInStep, WorkInStep
<1>11. DispatcherInStep'
  BY <1>0, <1>1, <1>6 DEF PInv, DispatcherInStep
<1>12. ConsumerInStep'
  <2>1. \A k \in DOMAIN out : out[k] <= Offset(finished) + Got /\ out[k] \in Nat
    BY <1>3 DEF PInv, ConsumerInStep
  <2>2. \A k \in 1..(Len(out) + 1) : out'[k] <= x
    <3>. SUFFICES ASSUME NEW k \in 1..(Len(out) + 1) PROVE out'[k] <= x
      OBVIOUS
    <3>1. k \in 1..Len(out) \/ k = Len(out) + 1
      BY <1>5
    <3>2. k \in 1..Len(out) => out'[k] = out[k] /\ out[k] <= Offset(finished) + Got /\ out[k] \in Nat
      BY <1>5, <2>1
    <3>. QED BY <1>3, <1>4, <1>5, <3>1, <3>2
  <2>3. x = Offset(finished)' + Got'
    BY <1>0, <1>3, <1>6, <1>7
  <2>4. \A k \in DOMAIN out' : out'[k] <= Offset(finished)' + Got'
    BY <1>5, <2>2, <2>3
  <2>. QED BY <1>0, <1>6, <2>4 DEF PInv, ConsumerInStep, Reading
<1>. QED BY <1>0, <1>4, <1>7, <1>8, <1>10, <1>11, <1>12 DEF PInv

(* What a terminator tells: the batch is read to its end.                  *)
LEMMA LastSays ==
  ASSUME PInv, cpc = "recv", results[turn] # <<>>, Head(results[turn]).kind = "last"
  PROVE  /\ finished + 1 <= Len(Batches) /\ finished + 1 \in 1..Len(Batches)
         /\ \/ Batches[finished + 1] = <<"empty">> /\ Got = 0 /\ Offset(finished + 1) = Offset(finished) + 1
            \/ Got = Len(Batches[finished + 1]) /\ Offset(finished + 1) = Offset(finished) + Got
<1>. PICK m, k, g : m = Head(results[turn]) /\ k = finished + 1 /\ g = Got
  OBVIOUS
<1>1. /\ m.kind = "last" /\ Genuine(m) /\ m.of = k /\ m.no = g + 1
  BY HeadOfTurn
<1>2. probe \in Probes /\ finished \in Nat /\ g \in Nat /\ Len(Batches) \in Nat /\ Offset(finished) \in Nat
  BY GotIs DEF PInv, PTyped
<1>3. k \in 1..(Len(Batches) + 1) /\ g + 1 \in 1..Len(Told(k)) /\ Told(k)[g + 1] = "last"
  BY <1>1 DEF Genuine
<1>4. k <= Len(Batches) /\ ((Batches[k] = <<"empty">> /\ g + 1 = 1) \/ g + 1 = Len(Batches[k]) + 1)
  BY <1>2, <1>3, ToldIs
<1>5. k \in 1..Len(Batches) /\ k - 1 = finished
  BY <1>2, <1>3, <1>4
<1>6. Offset(k) = Offset(finished) + Len(Batches[k]) /\ Len(Batches[k]) \in Nat
  BY <1>2, <1>5, Offsets, Sides
<1>7. Batches[k] = <<"empty">> => Len(Batches[k]) = 1
  OBVIOUS
<1>8. CASE Batches[k] = <<"empty">> /\ g + 1 = 1
  <2>1. g = 0 /\ Offset(k) = Offset(finished) + 1
    BY <1>2, <1>6, <1>7, <1>8
  <2>. QED BY <1>4, <1>5, <1>8, <2>1
<1>9. CASE g + 1 = Len(Batches[k]) + 1
  <2>1. g = Len(Batches[k])
    BY <1>2, <1>6, <1>9
  <2>2. Offset(k) = Offset(finished) + g
    BY <1>6, <2>1
  <2>. QED BY <1>4, <1>5, <2>1, <2>2
<1>. QED BY <1>4, <1>8, <1>9

(* It takes a terminator, and goes over to the next lane.                  *)
LEMMA TakeLastKeeps ==
  ASSUME PInv, TakeLast
  PROVE  PInv' /\ Got' = 0
<1>. PICK r, m : r = results[turn] /\ m = Head(r)
  OBVIOUS
<1>0. /\ cpc = "recv" /\ r # <<>> /\ m.kind = "last"
      /\ results' = [results EXCEPT ![turn] = Tail(@)]
      /\ turn' = (turn + 1) % N /\ finished' = finished + 1 /\ cpc' = "loop"
      /\ UNCHANGED <<probe, cancelled, dpc, seq, wpc, todo, jobs, out, answer, stopped>>
  BY DEF TakeLast, Taken, dispatcherVars, workerVars
<1>1. Steady /\ Done' = Done
  BY <1>0 DEF Steady, Done
<1>2. /\ results \in [Workers -> Seq(Message)] /\ turn \in Workers
      /\ r \in Seq(Message)
      /\ results' \in [Workers -> Seq(Message)]
      /\ m \in Message /\ Genuine(m)
      /\ m.of = finished + 1 /\ m.no = Got + 1
  BY <1>0, HeadOfTurn
<1>3. /\ finished \in Nat /\ Offset(finished) \in Nat /\ Got \in Nat
      /\ out \in Seq(Nat) /\ Len(Batches) \in Nat /\ probe \in Probes
  BY GotIs DEF PInv, PTyped
<1>4. /\ finished' \in 0..Len(Batches) /\ Offset(finished + 1) \in Nat
      /\ Offset(finished) + Got <= Offset(finished + 1)
  <2>1. /\ finished + 1 <= Len(Batches)
        /\ \/ Got = 0 /\ Offset(finished + 1) = Offset(finished) + 1
           \/ Offset(finished + 1) = Offset(finished) + Got
    BY <1>0, LastSays
  <2>. QED BY <1>0, <1>3, <2>1
<1>5. /\ turn = finished % N
      /\ \A k \in DOMAIN out : out[k] <= Offset(finished) + Got /\ out[k] \in Nat
  BY <1>3 DEF PInv, ConsumerInStep
<1>6. Batches' = Batches /\ \A k : Offset(k)' = Offset(k)
  BY <1>0, SameSide
<1>7. \A k \in DOMAIN out : out[k] <= Offset(finished + 1)
  BY <1>3, <1>4, <1>5
<1>8. Got' = 0
  <2>1. Got' = IF out # <<>> /\ Last(out) > Offset(finished + 1) THEN Last(out) - Offset(finished + 1) ELSE 0
    BY <1>0, <1>6 DEF Got
  <2>2. out # <<>> => Last(out) <= Offset(finished + 1) /\ Last(out) \in Nat
    <3>1. out # <<>> => Last(out) = out[Len(out)] /\ Len(out) \in DOMAIN out /\ Last(out) \in Nat
      BY <1>3, Tailed
    <3>. QED BY <1>7, <3>1
  <2>. QED BY <1>4, <2>1, <2>2
<1>9. /\ turn' \in Workers /\ turn' = finished' % N /\ Owed(turn) = finished + 1
      /\ \A w \in Workers : Owed(w)' = IF w = turn THEN Owed(w) + N ELSE Owed(w)
  BY <1>0, <1>2, <1>3, <1>5, OwedMoves
<1>10. PTyped'
  BY <1>0, <1>2, <1>4, <1>6, <1>9 DEF PInv, PTyped
<1>11. ASSUME NEW w \in Workers PROVE LaneInOrder(w)' /\ WorkerInStep(w)'
  <2>1. LaneInOrder(w) /\ WorkerInStep(w)
    BY <1>0 DEF PInv, LanesInStep, Reading
  <2>2. Due(w)' = Due(w) /\ Asked(w)' = <<Owed(w)', 1>>
    BY <1>0, <1>8, DueTheSame DEF Asked
  <2>3. CASE w = turn
    <3>1. Asked(w)' = After(m)
      BY <1>0, <1>2, <1>9, <2>2, <2>3 DEF After
    <3>2. GoesOn(m) /\ results'[w] = Tail(results[w])
      BY <1>0, <1>2, <2>3 DEF GoesOn
    <3>. QED BY <1>0, <1>1, <1>2, <2>1, <2>2, <2>3, <3>1, <3>2, LaneTakes
  <2>4. CASE w # turn
    <3>1. Asked(w)' = Asked(w)
      BY <1>9, <2>2, <2>4 DEF Asked
    <3>2. results'[w] = results[w]
      BY <1>0, <1>2, <2>4
    <3>. QED BY <1>0, <1>1, <2>1, <2>2, <3>1, <3>2, LaneKeeps
  <2>. QED BY <2>3, <2>4
<1>12. LanesInStep' /\ WorkInStep'
  <2>1. \A w \in Workers : WorkInHand(w)'
    BY <1>0, <1>1, WorkKeeps DEF PInv, WorkInStep
  <2>. QED BY <1>11, <2>1 DEF LanesInStep, WorkInStep
<1>13. DispatcherInStep'
  BY <1>0, <1>1, <1>6 DEF PInv, DispatcherInStep
<1>14. ConsumerInStep'
  <2>1. Offset(finished)' + Got' = Offset(finished + 1)
    BY <1>0, <1>4, <1>6, <1>8
  <2>2. \A k \in DOMAIN out' : out'[k] <= Offset(finished)' + Got'
    BY <1>0, <1>7, <2>1
  <2>. QED BY <1>0, <1>9, <2>2 DEF PInv, ConsumerInStep, Reading
<1>. QED BY <1>8, <1>10, <1>12, <1>13, <1>14 DEF PInv

(* It takes an error or the end, and closes.                               *)
LEMMA EndingKeeps ==
  ASSUME PInv, TakeError \/ TakeClosed \/ Close \/ Waited
  PROVE  PInv'
<1>1. CASE TakeError
  <2>1. results' \in [Workers -> Seq(Message)]
    BY <1>1, HeadOfTurn DEF TakeError, Taken
  <2>2. PTyped'
    BY <1>1, <2>1, SameSide DEF PInv, PTyped, TakeError, dispatcherVars, workerVars
  <2>. QED BY <1>1, <2>2, StopKeeps
           DEF TakeError, dispatcherVars, workerVars, Reading, Done, PInv, ConsumerInStep
<1>2. CASE TakeClosed
  <2>1. PTyped'
    BY <1>2, SameSide DEF PInv, PTyped, TakeClosed, dispatcherVars, workerVars
  <2>. QED BY <1>2, <2>1, StopKeeps
           DEF TakeClosed, dispatcherVars, workerVars, Reading, Done, PInv, ConsumerInStep
<1>3. CASE Close
  <2>1. PTyped'
    BY <1>3, SameSide DEF PInv, PTyped, Close, dispatcherVars, workerVars
  <2>2. Done => Done'
    BY <1>3 DEF Close, Done, PInv, ConsumerInStep, Reading
  <2>. QED BY <1>3, <2>1, <2>2, StopKeeps DEF Close, dispatcherVars, workerVars, Reading
<1>4. CASE Waited
  <2>1. PTyped'
    BY <1>4, SameSide DEF PInv, PTyped, Waited, dispatcherVars, workerVars
  <2>. QED BY <1>4, <2>1, StopKeeps DEF Waited, dispatcherVars, workerVars, Reading, Done
<1>. QED BY <1>1, <1>2, <1>3, <1>4

(* The caller's context ends.                                              *)
LEMMA CancelKeeps ==
  ASSUME PInv, Cancel
  PROVE  PInv'
<1>0. /\ UNCHANGED <<probe, dpc, seq, wpc, todo, jobs, results, turn, cpc, out, finished, answer, stopped>>
      /\ cancelled' = TRUE
  BY DEF Cancel, dispatcherVars, workerVars, callerVars
<1>1. Steady /\ ConsumerStill /\ Done'
  BY <1>0 DEF Steady, Done, ConsumerStill
<1>2. PTyped'
  BY <1>0, SameSide DEF PInv, PTyped
<1>3. ASSUME Reading, NEW w \in Workers PROVE LaneInOrder(w)' /\ WorkerInStep(w)'
  <2>1. LaneInOrder(w) /\ WorkerInStep(w)
    BY <1>3 DEF PInv, LanesInStep
  <2>2. Asked(w)' = Asked(w) /\ Due(w)' = Due(w)
    BY <1>0, <1>1, AsksTheSame, DueTheSame
  <2>. QED BY <1>0, <1>1, <2>1, <2>2, LaneKeeps
<1>4. \A w \in Workers : WorkInHand(w)'
  BY <1>0, <1>1, WorkKeeps DEF PInv, WorkInStep
<1>5. LanesInStep' /\ WorkInStep'
  BY <1>0, <1>3, <1>4 DEF LanesInStep, WorkInStep, Reading
<1>6. DispatcherInStep'
  <2>1. Batches' = Batches
    BY <1>0, SameSide
  <2>. QED BY <1>0, <1>1, <2>1 DEF PInv, DispatcherInStep
<1>. QED BY <1>0, <1>1, <1>2, <1>5, <1>6, ConsumerStaysInStep DEF PInv

-----------------------------------------------------------------------------
(* The invariant, and the refinement.                                      *)

(* The inductive invariant holds of every probe: while the consumer reads, *)
(* each lane holds the messages of its own answers, in order and with none *)
(* left out, from the one the consumer wants next to the one its worker    *)
(* sends next.                                                             *)
THEOREM ProbeInvariance == Safe => []PInv
<1>1. Init => PInv
  <2>. SUFFICES ASSUME Init PROVE PInv
    OBVIOUS
  <2>1. /\ probe \in Probes /\ seq = 1 /\ dpc = "unborn" /\ turn = 0 /\ cpc = "idle"
        /\ out = <<>> /\ finished = 0 /\ answer = "none" /\ cancelled = FALSE /\ stopped = FALSE
        /\ \A w \in Workers : jobs[w] = <<>> /\ wpc[w] = "unborn" /\ todo[w] = <<>> /\ results[w] = <<>>
        /\ 0 \in Workers /\ 0 % N = 0 /\ Len(Batches) \in Nat /\ Got = 0 /\ (seq - 1) % N = 0
    <3>1. N \in Nat \ {0}
      BY Workforce
    <3>2. 0 \in Workers /\ 0 % N = 0 /\ (1 - 1) % N = 0
      BY <3>1 DEF Workers
    <3>. QED BY <3>2, Sides DEF Init, Got
  <2>2. PTyped
    <3>1. /\ jobs \in [Workers -> Seq(Seq(Message))] /\ todo \in [Workers -> Seq(Message)]
          /\ results \in [Workers -> Seq(Message)]
          /\ wpc \in [Workers -> {"unborn", "recv", "send", "done"}]
      BY DEF Init
    <3>. QED BY <2>1, <3>1 DEF PTyped
  <2>3. WorkInStep
    BY <2>1 DEF WorkInStep, WorkInHand
  <2>4. ASSUME NEW w \in Workers PROVE LaneInOrder(w) /\ WorkerInStep(w)
    <3>1. w \in Nat /\ w >= 0
      BY Workforce
    <3>2. Owed(w) = 1 + w /\ Due(w) = 1 + w
      BY <2>1, <3>1 DEF Owed, Due
    <3>3. NextOf(w) = Asked(w) /\ Asked(w) = <<1 + w, 1>>
      BY <2>1, <3>2 DEF NextOf, Asked
    <3>4. JobsInOrder(w)
      BY <2>1, <3>2, <3>3 DEF JobsInOrder, AfterJobs, NextJob
    <3>. QED BY <2>1, <3>3, <3>4 DEF LaneInOrder, WorkerInStep
  <2>5. LanesInStep
    BY <2>4 DEF LanesInStep
  <2>6. DispatcherInStep
    BY <2>1 DEF DispatcherInStep
  <2>7. ConsumerInStep
    BY <2>1 DEF ConsumerInStep, Reading
  <2>. QED BY <2>2, <2>3, <2>5, <2>6, <2>7 DEF PInv
<1>2. PInv /\ [Next]_vars => PInv'
  <2>. SUFFICES ASSUME PInv, [Next]_vars PROVE PInv'
    OBVIOUS
  <2>1. CASE Dispatcher
    BY <2>1, DispatchEndKeeps, DispatchKeeps, DispatchCancelledKeeps DEF Dispatcher
  <2>2. ASSUME NEW i \in Workers, Worker(i) PROVE PInv'
    BY <2>2, ReceiveKeeps, SendKeeps, SendCancelledKeeps, NoMoreJobsKeeps DEF Worker
  <2>3. CASE Consumer
    BY <2>3, AskKeeps, TakeRowsKeeps, TakeLastKeeps, EndingKeeps DEF Consumer
  <2>4. CASE Cancel
    BY <2>4, CancelKeeps
  <2>5. CASE UNCHANGED vars
    <3>0. UNCHANGED <<probe, cancelled, dpc, seq, wpc, todo, jobs, results, turn, cpc, out, finished,
                      answer, stopped>>
      BY <2>5 DEF vars, dispatcherVars, workerVars, callerVars
    <3>1. Steady /\ ConsumerStill /\ Done' = Done
      BY <3>0 DEF Steady, Done, ConsumerStill
    <3>2. PTyped'
      BY <3>0, SameSide DEF PInv, PTyped
    <3>3. ASSUME Reading, NEW w \in Workers PROVE LaneInOrder(w)' /\ WorkerInStep(w)'
      <4>1. LaneInOrder(w) /\ WorkerInStep(w)
        BY <3>3 DEF PInv, LanesInStep
      <4>2. Asked(w)' = Asked(w) /\ Due(w)' = Due(w)
        BY <3>0, <3>1, AsksTheSame, DueTheSame
      <4>. QED BY <3>0, <3>1, <4>1, <4>2, LaneKeeps
    <3>4. \A w \in Workers : WorkInHand(w)'
      BY <3>0, <3>1, WorkKeeps DEF PInv, WorkInStep
    <3>5. LanesInStep' /\ WorkInStep'
      BY <3>0, <3>3, <3>4 DEF LanesInStep, WorkInStep, Reading
    <3>6. DispatcherInStep'
      <4>1. Batches' = Batches
        BY <3>0, SameSide
      <4>. QED BY <3>0, <3>1, <4>1 DEF PInv, DispatcherInStep
    <3>. QED BY <3>0, <3>1, <3>2, <3>5, <3>6, ConsumerStaysInStep DEF PInv
  <2>. QED BY <2>1, <2>2, <2>3, <2>4, <2>5 DEF Next
<1>. QED BY <1>1, <1>2, PTL DEF Safe

(* How far into the serial stream the consumer is.                         *)
Counted == Read = Offset(finished) + Got + (IF answer = "err" THEN 1 ELSE 0)

(* That is how much of it has been read.                                   *)
LEMMA ReadIs ==
  ASSUME PInv
  PROVE  Counted
<1>. PICK S, x : S = {Offset(finished)} \union ToSet(out) /\ x = Offset(finished) + Got
  OBVIOUS
<1>1. Offset(finished) \in Nat /\ Got \in Nat /\ out \in Seq(Nat)
      /\ (Got # 0 => out # <<>> /\ Last(out) = x)
  BY GotIs DEF PInv, PTyped
<1>2. \A k \in DOMAIN out : out[k] <= x /\ out[k] \in Nat
  BY <1>1 DEF PInv, ConsumerInStep
<1>3. x \in S
  <2>1. CASE Got = 0
    BY <1>1, <2>1
  <2>2. CASE Got # 0
    <3>1. Last(out) = out[Len(out)] /\ Len(out) \in DOMAIN out
      BY <1>1, <2>2, Tailed
    <3>. QED BY <1>1, <2>2, <3>1 DEF ToSet
  <2>. QED BY <2>1, <2>2
<1>4. \A y \in S : y \in Nat /\ x >= y
  BY <1>1, <1>2 DEF ToSet
<1>5. Max(S) = x
  <2>1. \A y \in S : (\A z \in S : y >= z) => y = x
    BY <1>1, <1>3, <1>4
  <2>. QED BY <1>3, <1>4, <2>1 DEF Max
<1>. QED BY <1>5 DEF Read, Counted

(* While the consumer reads, it has read what is before its next pull.     *)
LEMMA ReadSoFar ==
  ASSUME PInv, Reading
  PROVE  Read = Offset(finished) + Got /\ Read \in Nat /\ answer = "none" /\ ~stopped
<1>1. Offset(finished) \in Nat /\ Got \in Nat
  BY GotIs
<1>2. answer = "none" /\ ~stopped
  BY DEF PInv, ConsumerInStep
<1>. QED BY <1>1, <1>2, ReadIs DEF Counted

(* The message at the head of the lane whose turn it is, unless it is the  *)
(* context's error, is the next pull of the serial stream.                 *)
LEMMA HeadIsPending ==
  ASSUME PInv, cpc = "recv", results[turn] # <<>>,
         Head(results[turn]).kind \notin {"last", "ctx"}
  PROVE  /\ StreamOf(probe)[Read + 1] = Head(results[turn]).kind
         /\ Head(results[turn]).kind \in {"rows", "fail", "exit", "err", "quit"}
<1>. PICK m, k, g, s : /\ m = Head(results[turn]) /\ k = finished + 1 /\ g = Got + 1
                       /\ s = StreamOf(probe)
  OBVIOUS
<1>1. m \in Message /\ m.kind \notin {"last", "ctx"} /\ Genuine(m) /\ m.of = k /\ m.no = g
  BY HeadOfTurn
<1>2. /\ probe \in Probes /\ finished \in Nat /\ Got \in Nat /\ Len(Batches) \in Nat
      /\ finished <= Len(Batches) /\ Offset(finished) \in Nat /\ Read = Offset(finished) + Got
  BY GotIs, ReadSoFar DEF PInv, PTyped, Reading
<1>3. k \in 1..(Len(Batches) + 1) /\ g \in 1..Len(Told(k)) /\ m.kind = Told(k)[g] /\ m.kind # "eof"
  BY <1>1 DEF Genuine
<1>4. m.kind \in {"rows", "fail", "exit", "err", "quit"}
  BY <1>1, <1>3 DEF Message, Kinds
<1>5. k - 1 = finished /\ Offset(finished) + g = Read + 1
  BY <1>2
<1>6. CASE m.kind \in {"rows", "fail", "exit"}
  <2>1. k <= Len(Batches) /\ g <= Len(Batches[k]) /\ Batches[k][g] = m.kind
    BY <1>2, <1>3, <1>6, ToldIs
  <2>2. k \in 1..Len(Batches)
    BY <1>2, <1>3, <2>1
  <2>3. Len(Batches[k]) \in Nat
    BY <1>2, <2>2, Sides
  <2>4. g \in 1..Len(Batches[k])
    BY <1>2, <2>1, <2>3
  <2>5. s[Offset(k - 1) + g] = m.kind
    BY <1>2, <2>1, <2>2, <2>4, Stands
  <2>. QED BY <1>4, <1>5, <2>5
<1>7. CASE m.kind \in {"err", "quit"}
  <2>1. k = Len(Batches) + 1 /\ g = 1 /\ m.kind = probe.end
    BY <1>2, <1>3, <1>7, ToldIs
  <2>2. finished = Len(Batches)
    BY <1>2, <2>1
  <2>3. s[Offset(finished) + 1] = m.kind
    BY <1>2, <2>1, <2>2, Stands
  <2>. QED BY <1>4, <1>5, <2>1, <2>3
<1>. QED BY <1>4, <1>6, <1>7

(* A lane that is closed, with nothing left in it, has told all there was, *)
(* unless the context has ended.                                           *)
LEMMA ClosedIsTheEnd ==
  ASSUME PInv, cpc = "recv", results[turn] = <<>>, wpc[turn] = "done", ~cancelled
  PROVE  StreamOf(probe)[Read + 1] = "eof"
<1>1. /\ probe \in Probes /\ finished \in Nat /\ Got \in Nat /\ Len(Batches) \in Nat
      /\ finished <= Len(Batches) /\ Offset(finished) \in Nat /\ Read = Offset(finished) + Got
      /\ turn \in Workers /\ seq \in Nat \ {0}
  BY GotIs, ReadSoFar DEF PInv, PTyped, Reading
<1>2. ~Done
  BY ReadSoFar DEF Done, Reading
<1>3. dpc = "done" /\ NextOf(turn) = <<Due(turn), 1>>
  BY <1>1, <1>2 DEF PInv, LanesInStep, Reading, WorkerInStep
<1>4. NextOf(turn) = <<Owed(turn), Got + 1>>
  BY DEF NextOf, Asked
<1>5. Owed(turn) = finished + 1
  <2>1. turn \in Nat
    BY <1>1, Workforce
  <2>. QED BY <1>1, <2>1 DEF Owed
<1>6. Due(turn) = finished + 1 /\ Got = 0
  <2>1. Due(turn) = Owed(turn) /\ Got + 1 = 1
    BY <1>3, <1>4
  <2>. QED BY <1>1, <1>5, <2>1
<1>7. finished + 1 >= seq
  BY <1>1, <1>6, DueFrom
<1>8. IF probe.end = "eof" THEN seq = Len(Batches) + 1 ELSE seq = Len(Batches) + 2
  BY <1>2, <1>3 DEF PInv, DispatcherInStep
<1>9. finished = Len(Batches) /\ probe.end = "eof"
  BY <1>1, <1>7, <1>8
<1>. QED BY <1>1, <1>6, <1>9, Stands

(* Every step is a step of the serial join, or none of its steps.          *)
LEMMA SerialStep ==
  ASSUME PInv, [Next]_vars, Counted'
  PROVE  [Serial!Next]_(Serial!abstractVars)
<1>. USE DEF Serial!Next, Serial!abstractVars, Serial!Pending
<1>1. ASSUME UNCHANGED <<probe, cancelled, finished, out, answer>>
      PROVE  UNCHANGED Serial!abstractVars
  <2>1. StreamOf(probe)' = StreamOf(probe) /\ Read' = Read
    BY <1>1, SameSide DEF Read
  <2>. QED BY <1>1, <2>1
<1>2. CASE Dispatcher
  BY <1>1, <1>2 DEF Dispatcher, DispatchEnd, Dispatch, DispatchCancelled, callerVars
<1>3. ASSUME NEW i \in Workers, Worker(i) PROVE UNCHANGED Serial!abstractVars
  BY <1>1, <1>3 DEF Worker, Receive, Send, SendCancelled, NoMoreJobs, callerVars
<1>4. CASE Ask
  <2>1. Reading /\ UNCHANGED <<probe, cancelled, finished, out>>
    BY <1>4 DEF Ask, Reading
  <2>2. CASE ~cancelled
    BY <1>1, <1>4, <2>1, <2>2 DEF Ask
  <2>3. CASE cancelled
    <3>1. answer' = "ctx" /\ answer = "none" /\ StreamOf(probe)' = StreamOf(probe)
      BY <1>4, <2>1, <2>3, ReadSoFar, SameSide DEF Ask
    <3>2. Read' = Read
      BY <2>1, <3>1, SameSide DEF Read
    <3>. QED BY <2>1, <2>3, <3>1, <3>2 DEF Serial!GiveUp
  <2>. QED BY <2>2, <2>3
<1>5. CASE TakeRows
  <2>1. /\ cpc = "recv" /\ results[turn] # <<>> /\ Head(results[turn]).kind = "rows"
        /\ UNCHANGED <<probe, cancelled, finished, answer>>
    BY <1>5 DEF TakeRows
  <2>2. Read = Offset(finished) + Got /\ Read \in Nat /\ answer = "none"
    BY <2>1, ReadSoFar DEF Reading
  <2>3. PInv' /\ out' = Append(out, Offset(finished) + Got + 1) /\ Got' = Got + 1
    BY <1>5, TakeRowsKeeps
  <2>4. StreamOf(probe)[Read + 1] = "rows"
    BY <2>1, HeadIsPending
  <2>5. StreamOf(probe)' = StreamOf(probe) /\ Offset(finished)' = Offset(finished)
    BY <2>1, SameSide
  <2>6. Read' = Offset(finished)' + Got' + (IF answer' = "err" THEN 1 ELSE 0)
    BY DEF Counted
  <2>7. Read' = Read + 1
    <3>1. Offset(finished) \in Nat /\ Got \in Nat
      BY GotIs
    <3>. QED BY <2>1, <2>2, <2>3, <2>5, <2>6, <3>1
  <2>. QED BY <2>1, <2>2, <2>3, <2>4, <2>5, <2>7 DEF Serial!Deliver
<1>6. CASE TakeLast
  <2>1. /\ cpc = "recv" /\ results[turn] # <<>> /\ Head(results[turn]).kind = "last"
        /\ finished' = finished + 1 /\ UNCHANGED <<probe, cancelled, out, answer>>
    BY <1>6 DEF TakeLast
  <2>2. Read = Offset(finished) + Got /\ Read \in Nat /\ answer = "none"
    BY <2>1, ReadSoFar DEF Reading
  <2>3. PInv' /\ Got' = 0
    BY <1>6, TakeLastKeeps
  <2>4. StreamOf(probe)' = StreamOf(probe) /\ Offset(finished)' = Offset(finished + 1)
    BY <2>1, SameSide
  <2>5. Read' = Offset(finished)' + Got' + (IF answer' = "err" THEN 1 ELSE 0)
    BY DEF Counted
  <2>6. /\ finished + 1 \in 1..Len(Batches)
        /\ \/ Batches[finished + 1] = <<"empty">> /\ Got = 0 /\ Offset(finished + 1) = Offset(finished) + 1
           \/ Offset(finished + 1) = Offset(finished) + Got
    BY <2>1, LastSays
  <2>7. Offset(finished) \in Nat /\ Got \in Nat /\ finished \in Nat /\ probe \in Probes
    BY GotIs DEF PInv, PTyped
  <2>8. Read' = Offset(finished + 1)
    BY <2>1, <2>2, <2>3, <2>4, <2>5, <2>6, <2>7
  <2>9. CASE Offset(finished + 1) = Offset(finished) + Got
    BY <2>1, <2>2, <2>4, <2>8, <2>9
  <2>10. CASE Batches[finished + 1] = <<"empty">> /\ Got = 0 /\ Offset(finished + 1) = Offset(finished) + 1
    <3>1. Read' = Read + 1 /\ Read + 1 = Offset(finished) + 1
      BY <2>2, <2>7, <2>8, <2>10
    <3>2. StreamOf(probe)[Read + 1] = "empty"
      <4>. PICK k : k = finished + 1
        OBVIOUS
      <4>1. k \in 1..Len(Batches) /\ k - 1 = finished /\ 1 \in 1..Len(Batches[k]) /\ Batches[k][1] = "empty"
        BY <2>6, <2>7, <2>10
      <4>2. StreamOf(probe)[Offset(k - 1) + 1] = Batches[k][1]
        BY <2>7, <4>1, Stands
      <4>. QED BY <3>1, <4>1, <4>2
    <3>. QED BY <2>1, <2>2, <2>4, <3>1, <3>2 DEF Serial!Skip
  <2>. QED BY <2>6, <2>9, <2>10
<1>7. CASE TakeError
  <2>. PICK m : m = Head(results[turn])
    OBVIOUS
  <2>1. /\ cpc = "recv" /\ results[turn] # <<>> /\ m.kind \notin {"rows", "last"}
        /\ answer' = IF m.kind = "ctx" THEN "ctx" ELSE "err"
        /\ UNCHANGED <<probe, cancelled, out, finished>>
    BY <1>7 DEF TakeError
  <2>2. Read = Offset(finished) + Got /\ Read \in Nat /\ answer = "none" /\ ~stopped
    BY <2>1, ReadSoFar DEF Reading
  <2>3. StreamOf(probe)' = StreamOf(probe) /\ Offset(finished)' = Offset(finished) /\ Got' = Got
    BY <2>1, SameSide DEF Got
  <2>4. Read' = Offset(finished)' + Got' + (IF answer' = "err" THEN 1 ELSE 0)
    BY DEF Counted
  <2>5. CASE m.kind = "ctx"
    <3>1. cancelled
      <4>1. Genuine(m)
        BY <2>1, HeadOfTurn
      <4>2. Done
        <5>1. m.of \in 1..(Len(Batches) + 1) /\ m.no \in 1..Len(Told(m.of)) => Told(m.of)[m.no] # "ctx"
          <6>1. probe \in Probes
            BY DEF PInv, PTyped
          <6>2. ASSUME NEW k \in 1..(Len(Batches) + 1), NEW i \in 1..Len(Told(k))
                PROVE  Told(k)[i] # "ctx"
            <7>1. Told(k) \in Seq({"rows", "last", "fail", "exit", "eof", "err", "quit"})
              BY <6>1, ToldIs
            <7>. QED BY <7>1
          <6>. QED BY <6>2
        <5>. QED BY <2>5, <4>1, <5>1 DEF Genuine
      <4>. QED BY <2>2, <4>2 DEF Done
    <3>2. Read' = Read
      BY <2>1, <2>2, <2>3, <2>4, <2>5, GotIs
    <3>. QED BY <2>1, <2>2, <2>3, <2>5, <3>1, <3>2 DEF Serial!GiveUp
  <2>6. CASE m.kind # "ctx"
    <3>1. StreamOf(probe)[Read + 1] = m.kind /\ m.kind \in {"fail", "exit", "err", "quit"}
      BY <2>1, <2>6, HeadIsPending
    <3>2. Read' = Read + 1
      BY <2>1, <2>2, <2>3, <2>4, <2>6, GotIs
    <3>. QED BY <2>1, <2>2, <2>3, <2>6, <3>1, <3>2 DEF Serial!Fail, Serial!Errors
  <2>. QED BY <2>5, <2>6
<1>8. CASE TakeClosed
  <2>1. /\ cpc = "recv" /\ results[turn] = <<>> /\ wpc[turn] = "done"
        /\ answer' = IF cancelled THEN "ctx" ELSE "eof"
        /\ UNCHANGED <<probe, cancelled, out, finished>>
    BY <1>8 DEF TakeClosed
  <2>2. answer = "none"
    BY <2>1, ReadSoFar DEF Reading
  <2>3. StreamOf(probe)' = StreamOf(probe) /\ Read' = Read
    BY <2>1, <2>2, SameSide DEF Read
  <2>4. CASE cancelled
    BY <2>1, <2>2, <2>3, <2>4 DEF Serial!GiveUp
  <2>5. CASE ~cancelled
    <3>1. StreamOf(probe)[Read + 1] = "eof"
      BY <2>1, <2>5, ClosedIsTheEnd
    <3>. QED BY <2>1, <2>2, <2>3, <2>5, <3>1 DEF Serial!End
  <2>. QED BY <2>4, <2>5
<1>9. CASE Close \/ Waited
  BY <1>1, <1>9 DEF Close, Waited
<1>10. CASE Cancel
  <2>1. /\ UNCHANGED <<probe, finished, out, answer>> /\ ~cancelled /\ cancelled' = TRUE
    BY <1>10 DEF Cancel, callerVars
  <2>2. StreamOf(probe)' = StreamOf(probe) /\ Read' = Read
    BY <2>1, SameSide DEF Read
  <2>. QED BY <2>1, <2>2 DEF Serial!Cancel
<1>11. CASE UNCHANGED vars
  BY <1>1, <1>11 DEF vars, callerVars
<1>. QED BY <1>2, <1>3, <1>4, <1>5, <1>6, <1>7, <1>8, <1>9, <1>10, <1>11 DEF Next, Consumer

(* The parallel probe gives what the serial one gives, in the serial       *)
(* order, whatever a batch fans out to, wherever an error or a Goexit      *)
(* falls and whenever the caller's context ends (parjoin.go:84-261): for   *)
(* any probe sides, any number of workers and any depth of the queues.     *)
THEOREM ProbeIsSerial == Spec => ImplementsSerial
<1>1. Init => Serial!Init
  <2>. SUFFICES ASSUME Init PROVE Serial!Init
    OBVIOUS
  <2>1. probe \in Probes /\ cancelled = FALSE /\ out = <<>> /\ finished = 0 /\ answer = "none"
    BY DEF Init
  <2>2. Offset(0) = 0
    BY <2>1, Offsets
  <2>3. Read = 0
    <3>1. {Offset(finished)} \union ToSet(out) = {0}
      BY <2>1, <2>2 DEF ToSet
    <3>2. Max({0}) = 0
      BY DEF Max
    <3>3. Max({Offset(finished)} \union ToSet(out)) = 0
      BY <3>1, <3>2
    <3>. QED BY <2>1, <3>3 DEF Read
  <2>. QED BY <2>1, <2>3 DEF Serial!Init
<1>2. PInv /\ [Next]_vars /\ Counted' => [Serial!Next]_(Serial!abstractVars)
  BY SerialStep
<1>3. PInv => Counted
  BY ReadIs
<1>. QED BY <1>1, <1>2, <1>3, ProbeInvariance, PTL DEF Spec, Safe, ImplementsSerial, Serial!Spec

-----------------------------------------------------------------------------
(* The assumption of OrderedStream.                                        *)

(* What OrderedStream assumes of its streams holds of every probe side's.  *)
LEMMA ProbesAreStreams ==
  \A p \in Probes :
    /\ StreamOf(p) \in Seq(Serial!Pulls) /\ Len(StreamOf(p)) > 0
    /\ \A k \in 1..Len(StreamOf(p)) :
         StreamOf(p)[k] \in Serial!Ends <=> k = Len(StreamOf(p))
<1>. SUFFICES ASSUME NEW p \in Probes
              PROVE  /\ StreamOf(p) \in Seq(Serial!Pulls) /\ Len(StreamOf(p)) > 0
                     /\ \A k \in 1..Len(StreamOf(p)) :
                          StreamOf(p)[k] \in Serial!Ends <=> k = Len(StreamOf(p))
  OBVIOUS
<1>. PICK B, s, f, e, t : /\ B = {"empty", "rows", "fail", "exit"} /\ s = p.batches
                          /\ f = FlattenSeq(s) /\ e = p.end /\ t = StreamOf(p)
  OBVIOUS
<1>1. s \in Seq(Seq(B)) /\ e \in {"eof", "err", "quit"}
  BY ProbesAssumption
<1>2. f \in Seq(B)
  <2>0. Len(s) \in 0..Len(s)
    BY <1>1
  <2>1. FlattenSeq(SubSeq(s, 1, Len(s))) = f /\ Len(s) \in 0..Len(s)
    <3>1. FlattenSeq(SubSeq(s, 1, Len(s))) = FlattenSeq(s)
      BY <1>1, FlattenFront
    <3>. QED BY <2>0, <3>1
  <2>2. FlattenSeq(SubSeq(s, 1, Len(s))) \in Seq(B)
    BY <1>1, <2>1, FlattenFront
  <2>. QED BY <2>1, <2>2
<1>3. t = f \o <<e>>
  BY DEF StreamOf
<1>4. B \subseteq Serial!Pulls /\ e \in Serial!Pulls /\ e \in Serial!Ends /\ \A b \in B : b \notin Serial!Ends
  BY <1>1 DEF Serial!Pulls, Serial!Batches, Serial!Ends
<1>. PICK Q, X : Q = Serial!Pulls /\ X = Serial!Ends
  OBVIOUS
<1>5. f \in Seq(Q) /\ <<e>> \in Seq(Q) /\ Len(f) \in Nat
  BY <1>2, <1>4
<1>6. t \in Seq(Q) /\ Len(t) = Len(f) + 1 /\ t[Len(f) + 1] = e /\ \A k \in 1..Len(f) : t[k] = f[k]
  BY <1>3, <1>5
<1>7. \A k \in 1..Len(f) : f[k] \in B
  BY <1>2
<1>8. ASSUME NEW k \in 1..Len(t) PROVE t[k] \in X <=> k = Len(t)
  <2>1. CASE k = Len(t)
    BY <1>4, <1>6, <2>1
  <2>2. CASE k # Len(t)
    <3>1. k \in 1..Len(f)
      BY <1>5, <1>6, <2>2
    <3>2. t[k] \in B
      BY <1>6, <1>7, <3>1
    <3>. QED BY <1>4, <2>2, <3>2
  <2>. QED BY <2>1, <2>2
<1>. QED BY <1>5, <1>6, <1>8
=============================================================================
