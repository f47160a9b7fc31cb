---------------------------- MODULE SpillProofs ----------------------------
(***************************************************************************)
(* Proofs about the operators that spill, for any input and any course of  *)
(* the budget: they answer as those that do not.                           *)
(*                                                                         *)
(* SpillKeys, for any hash, number of buckets and depth.  The rows of an   *)
(* input rise by their numbers, and of one set of rows there is one rising *)
(* sequence: what an operator keeps is described by the set of its rows    *)
(* and by their order, never place by place.  Batch by batch (DrainHolds,  *)
(* PullHolds), a key is resident or in one file, with all its rows so far, *)
(* in order; so the files and the resident rows part the input by its      *)
(* keys.  From the last level up (CollectedHolds, UniquedHolds), what is   *)
(* gathered from the files is right because each of them is numbered rows  *)
(* again.  Sorted by the numbers of their first rows, the groups, or the   *)
(* rows a unique held back, are then the one rising sequence that nothing  *)
(* spilled would have given.                                               *)
(*                                                                         *)
(* SpillOrder, for any fan-in.  The rows of one input are in finitely many *)
(* places, so the order of a sort is that of numbers (EmbeddingExists),    *)
(* and a sorted run is the rising sequence of its rows.  A merge gives the *)
(* rising sequence of all of theirs (MergeRises) because equal keys are    *)
(* taken from the earlier run and every run is of later rows than the one  *)
(* before (Leveled), which a cascade keeps (SinkStep).  What a top-k drops *)
(* is after limit rows it keeps (Keeps).  A tail and a reverse hold their  *)
(* pieces in the order of the input (TailHolds, HoldsBoth), and a side of  *)
(* a merge of frames has read the rows before a place of it, in order      *)
(* unless it says otherwise (SideAt).                                      *)
(***************************************************************************)
EXTENDS SpillOrder, FoldFacts, SequenceTheorems, TLAPS

-----------------------------------------------------------------------------
(* Sequences whose elements rise by a number, and choices along them.     *)

(* The elements stand in the order of their numbers.                       *)
Rises(s, n) == \A i, j \in DOMAIN s : i < j => n[s[i]] < n[s[j]]

(* A row's number.                                                         *)
IdOf == [r \in Row |-> r.id]

(* Numbered rows are rows that rise by their numbers.                     *)
LEMMA NumberedRises ==
  ASSUME NEW s \in Seq(Row)
  PROVE  IdOf \in [Row -> Int] /\ (Numbered(s) <=> Rises(s, IdOf))
<1>1. IdOf \in [Row -> Int] /\ \A r \in Row : IdOf[r] = r.id
  BY DEF IdOf, Row
<1>2. \A i \in DOMAIN s : s[i] \in Row
  OBVIOUS
<1>3. \A i \in DOMAIN s : IdOf[s[i]] = s[i].id
  BY <1>1, <1>2
<1>. QED BY <1>1, <1>3 DEF Numbered, Rises

(* As far as one goes, so does the other.                                  *)
LEMMA RisingFollows ==
  ASSUME NEW S, NEW n \in [S -> Int], NEW s \in Seq(S), NEW t \in Seq(S),
         Rises(s, n), Rises(t, n), ToSet(s) = ToSet(t)
  PROVE  Len(s) <= Len(t) /\ \A k \in 1..Len(s) : t[k] = s[k]
<1>. DEFINE Q == {m \in Nat : m <= Len(s) => m <= Len(t) /\ \A k \in 1..m : t[k] = s[k]}
<1>0. /\ Len(s) \in Nat /\ Len(t) \in Nat /\ DOMAIN s = 1..Len(s) /\ DOMAIN t = 1..Len(t)
      /\ \A i \in 1..Len(s) : s[i] \in S /\ n[s[i]] \in Int /\ \E j \in 1..Len(t) : t[j] = s[i]
      /\ \A i \in 1..Len(t) : t[i] \in S /\ n[t[i]] \in Int /\ \E j \in 1..Len(s) : s[j] = t[i]
  <2>1. Len(s) \in Nat /\ Len(t) \in Nat /\ DOMAIN s = 1..Len(s) /\ DOMAIN t = 1..Len(t)
    OBVIOUS
  <2>2. \A i \in 1..Len(s) : s[i] \in S /\ n[s[i]] \in Int
    OBVIOUS
  <2>3. \A i \in 1..Len(t) : t[i] \in S /\ n[t[i]] \in Int
    OBVIOUS
  <2>4. {s[i] : i \in 1..Len(s)} = {t[i] : i \in 1..Len(t)}
    BY <2>1 DEF ToSet
  <2>. QED BY <2>1, <2>2, <2>3, <2>4
<1>1. 0 \in Q
  BY <1>0
<1>2. ASSUME NEW m \in Nat, m \in Q PROVE m + 1 \in Q
  <2>. SUFFICES ASSUME m + 1 <= Len(s) PROVE m + 1 <= Len(t) /\ \A k \in 1..(m + 1) : t[k] = s[k]
    OBVIOUS
  <2>1. m <= Len(t) /\ \A k \in 1..m : t[k] = s[k]
    BY <1>0, <1>2
  <2>2. m + 1 \in 1..Len(s)
    BY <1>0
  <2>3. PICK j \in 1..Len(t) : t[j] = s[m + 1]
    BY <1>0, <2>2
  <2>4. ~(j <= m)
    <3>. SUFFICES ASSUME j <= m PROVE FALSE
      OBVIOUS
    <3>1. j \in 1..m /\ j \in 1..Len(s) /\ j < m + 1
      BY <1>0
    <3>2. n[s[j]] < n[s[m + 1]] /\ s[j] = s[m + 1]
      BY <1>0, <2>1, <2>2, <2>3, <3>1 DEF Rises
    <3>3. n[s[m + 1]] \in Int
      BY <1>0, <2>2
    <3>. QED BY <3>2, <3>3
  <2>5. m + 1 \in 1..Len(t)
    BY <1>0, <2>4
  <2>6. PICK i \in 1..Len(s) : s[i] = t[m + 1]
    BY <1>0, <2>5
  <2>7. ~(i <= m)
    <3>. SUFFICES ASSUME i <= m PROVE FALSE
      OBVIOUS
    <3>1. i \in 1..m /\ i \in 1..Len(t) /\ i < m + 1
      BY <1>0, <2>1
    <3>2. n[t[i]] < n[t[m + 1]] /\ t[i] = t[m + 1]
      BY <1>0, <2>1, <2>5, <2>6, <3>1 DEF Rises
    <3>3. n[t[m + 1]] \in Int
      BY <1>0, <2>5
    <3>. QED BY <3>2, <3>3
  <2>8. t[m + 1] = s[m + 1]
    <3>. SUFFICES ASSUME t[m + 1] # s[m + 1] PROVE FALSE
      OBVIOUS
    <3>0. j # m + 1 /\ i # m + 1
      BY <2>3, <2>6
    <3>1. m + 1 < j /\ m + 1 < i
      BY <1>0, <2>4, <2>7, <3>0
    <3>2. n[t[m + 1]] < n[t[j]]
      BY <1>0, <2>5, <3>1 DEF Rises
    <3>3. n[s[m + 1]] < n[s[i]]
      BY <1>0, <2>2, <3>1 DEF Rises
    <3>4. n[t[m + 1]] \in Int /\ n[s[m + 1]] \in Int
      BY <1>0, <2>2, <2>5
    <3>. QED BY <2>3, <2>6, <3>2, <3>3, <3>4
  <2>. QED BY <2>1, <2>5, <2>8
<1>3. Len(s) \in Q
  <2>1. Nat \subseteq Q
    <3>. HIDE DEF Q
    <3>. QED BY <1>1, <1>2, NaturalInduction
  <2>. HIDE DEF Q
  <2>. QED BY <1>0, <2>1
<1>. QED BY <1>0, <1>3

(* Of the same elements there is one rising sequence.                      *)
LEMMA RisingAgree ==
  ASSUME NEW S, NEW n \in [S -> Int], NEW s \in Seq(S), NEW t \in Seq(S),
         Rises(s, n), Rises(t, n), ToSet(s) = ToSet(t)
  PROVE  s = t
<1>1. Len(s) <= Len(t) /\ \A k \in 1..Len(s) : t[k] = s[k]
  BY RisingFollows
<1>2. Len(t) <= Len(s)
  BY RisingFollows
<1>3. Len(s) \in Nat /\ Len(t) \in Nat
  OBVIOUS
<1>4. Len(s) = Len(t)
  BY <1>1, <1>2, <1>3
<1>. QED BY <1>1, <1>4, SeqEqual

(* Two joined rise if each does and the first is below the second,         *)
LEMMA JoinRises ==
  ASSUME NEW S, NEW n \in [S -> Int], NEW s \in Seq(S), NEW t \in Seq(S)
  PROVE  /\ s \o t \in Seq(S) /\ ToSet(s \o t) = ToSet(s) \union ToSet(t)
         /\ Rises(s \o t, n) <=> /\ Rises(s, n) /\ Rises(t, n)
                                 /\ \A x \in ToSet(s), y \in ToSet(t) : n[x] < n[y]
<1>. PICK u : u = s \o t
  OBVIOUS
<1>1. /\ u \in Seq(S) /\ Len(u) = Len(s) + Len(t) /\ Len(s) \in Nat /\ Len(t) \in Nat
      /\ DOMAIN s = 1..Len(s) /\ DOMAIN t = 1..Len(t) /\ DOMAIN u = 1..(Len(s) + Len(t))
      /\ \A i \in 1..Len(s) : u[i] = s[i] /\ s[i] \in S
      /\ \A i \in 1..Len(t) : u[Len(s) + i] = t[i] /\ t[i] \in S
  OBVIOUS
<1>2. \A i \in 1..(Len(s) + Len(t)) :
        \/ i \in 1..Len(s)
        \/ \E j \in 1..Len(t) : i = Len(s) + j
  <2>. SUFFICES ASSUME NEW i \in 1..(Len(s) + Len(t)), i \notin 1..Len(s)
                PROVE  \E j \in 1..Len(t) : i = Len(s) + j
    OBVIOUS
  <2>1. i - Len(s) \in 1..Len(t) /\ i = Len(s) + (i - Len(s))
    BY <1>1
  <2>. QED BY <2>1
<1>3. /\ \A i \in 1..Len(s) : i \in 1..(Len(s) + Len(t))
      /\ \A i \in 1..Len(t) : Len(s) + i \in 1..(Len(s) + Len(t))
  BY <1>1
<1>4. ToSet(u) = ToSet(s) \union ToSet(t)
  <2>1. ToSet(u) = {u[i] : i \in 1..(Len(s) + Len(t))} /\ ToSet(s) = {s[i] : i \in 1..Len(s)}
        /\ ToSet(t) = {t[i] : i \in 1..Len(t)}
    BY <1>1 DEF ToSet
  <2>2. ASSUME NEW x PROVE x \in ToSet(u) => x \in ToSet(s) \union ToSet(t)
    <3>. SUFFICES ASSUME NEW i \in 1..(Len(s) + Len(t)), x = u[i]
                  PROVE  x \in ToSet(s) \union ToSet(t)
      BY <2>1
    <3>. QED BY <1>1, <1>2, <2>1
  <2>3. ASSUME NEW x PROVE x \in ToSet(s) \union ToSet(t) => x \in ToSet(u)
    <3>1. \A i \in 1..Len(s) : s[i] \in ToSet(u)
      BY <1>1, <1>3, <2>1
    <3>2. \A i \in 1..Len(t) : t[i] \in ToSet(u)
      BY <1>1, <1>3, <2>1
    <3>. QED BY <2>1, <3>1, <3>2
  <2>. QED BY <2>2, <2>3
<1>5. Rises(u, n) => /\ Rises(s, n) /\ Rises(t, n)
                     /\ \A x \in ToSet(s), y \in ToSet(t) : n[x] < n[y]
  <2>. SUFFICES ASSUME Rises(u, n)
                PROVE  /\ Rises(s, n) /\ Rises(t, n)
                       /\ \A x \in ToSet(s), y \in ToSet(t) : n[x] < n[y]
    OBVIOUS
  <2>1. Rises(s, n)
    BY <1>1, <1>3 DEF Rises
  <2>2. Rises(t, n)
    <3>. SUFFICES ASSUME NEW i \in 1..Len(t), NEW j \in 1..Len(t), i < j
                  PROVE  n[t[i]] < n[t[j]]
      BY <1>1 DEF Rises
    <3>1. Len(s) + i < Len(s) + j
      BY <1>1
    <3>2. n[u[Len(s) + i]] < n[u[Len(s) + j]]
      BY <1>1, <1>3, <3>1 DEF Rises
    <3>. QED BY <1>1, <3>2
  <2>3. ASSUME NEW i \in 1..Len(s), NEW j \in 1..Len(t) PROVE n[s[i]] < n[t[j]]
    <3>1. i < Len(s) + j
      BY <1>1
    <3>2. n[u[i]] < n[u[Len(s) + j]]
      BY <1>1, <1>3, <3>1 DEF Rises
    <3>. QED BY <1>1, <3>2
  <2>4. ToSet(s) = {s[i] : i \in 1..Len(s)} /\ ToSet(t) = {t[i] : i \in 1..Len(t)}
    BY <1>1 DEF ToSet
  <2>. QED BY <2>1, <2>2, <2>3, <2>4
<1>6. ASSUME Rises(s, n), Rises(t, n), \A x \in ToSet(s), y \in ToSet(t) : n[x] < n[y]
      PROVE  Rises(u, n)
  <2>1. /\ \A i \in 1..Len(s), j \in 1..Len(t) : n[s[i]] < n[t[j]]
        /\ \A i, j \in 1..Len(s) : i < j => n[s[i]] < n[s[j]]
        /\ \A i, j \in 1..Len(t) : i < j => n[t[i]] < n[t[j]]
    BY <1>1, <1>6 DEF ToSet, Rises
  <2>. SUFFICES ASSUME NEW i \in 1..(Len(s) + Len(t)), NEW j \in 1..(Len(s) + Len(t)), i < j
                PROVE  n[u[i]] < n[u[j]]
    BY <1>1 DEF Rises
  <2>2. CASE i \in 1..Len(s) /\ j \in 1..Len(s)
    BY <1>1, <2>1, <2>2
  <2>3. CASE i \in 1..Len(s) /\ j \notin 1..Len(s)
    BY <1>1, <1>2, <2>1, <2>3
  <2>4. CASE i \notin 1..Len(s)
    <3>1. PICK k \in 1..Len(t) : i = Len(s) + k
      BY <1>2, <2>4
    <3>2. j \notin 1..Len(s)
      BY <1>1, <3>1
    <3>3. PICK l \in 1..Len(t) : j = Len(s) + l
      BY <1>2, <3>2
    <3>4. k < l
      BY <1>1, <3>1, <3>3
    <3>. QED BY <1>1, <2>1, <3>1, <3>3, <3>4
  <2>. QED BY <2>2, <2>3, <2>4
<1>. QED BY <1>1, <1>4, <1>5, <1>6

(* The rows chosen as one goes along.                                      *)
Chosen(f, s, T) ==
  f = [i \in 0..Len(s) |->
         IF i = 0 THEN <<>> ELSE IF s[i] \in T THEN Append(f[i - 1], s[i]) ELSE f[i - 1]]

(* Only is what a choice along the whole sequence ends with,              *)
LEMMA OnlyIsChosen ==
  ASSUME NEW s, NEW T
  PROVE  Only(s, T) = (CHOOSE f : Chosen(f, s, T))[Len(s)]
BY DEF Only, Chosen

(* and there is such a choice.                                            *)
LEMMA ChosenExists ==
  ASSUME NEW s, Len(s) \in Nat, NEW T
  PROVE  \E f : Chosen(f, s, T)
<1>. DEFINE Rec(f, i) == IF i = 0 THEN <<>>
                         ELSE IF s[i] \in T THEN Append(f[i - 1], s[i]) ELSE f[i - 1]
            Q == {m \in Nat : \E f : f = [i \in 0..m |-> Rec(f, i)]}
<1>1. 0 \in Q
  <2>1. [i \in 0..0 |-> <<>>] = [i \in 0..0 |-> Rec([j \in 0..0 |-> <<>>], i)]
    OBVIOUS
  <2>. HIDE DEF Rec
  <2>. QED BY <2>1
<1>2. ASSUME NEW m \in Nat, m \in Q PROVE m + 1 \in Q
  <2>1. PICK f : f = [i \in 0..m |-> Rec(f, i)]
    BY <1>2
  <2>. DEFINE h == [i \in 0..(m + 1) |-> Rec(f, i)]
  <2>2. \A i \in 0..m : h[i] = f[i]
    <3>1. \A i \in 0..m : f[i] = Rec(f, i)
      <4>. HIDE DEF Rec
      <4>. QED BY <2>1
    <3>2. \A i \in 0..m : i \in 0..(m + 1)
      OBVIOUS
    <3>. HIDE DEF Rec
    <3>. QED BY <3>1, <3>2
  <2>3. \A i \in 0..(m + 1) : i # 0 => i - 1 \in 0..m
    OBVIOUS
  <2>4. \A i \in 0..(m + 1) : Rec(f, i) = Rec(h, i)
    <3>. HIDE DEF h
    <3>. QED BY <2>2, <2>3
  <2>5. h = [i \in 0..(m + 1) |-> Rec(h, i)]
    <3>1. h = [i \in 0..(m + 1) |-> Rec(f, i)]
      OBVIOUS
    <3>. HIDE DEF h, Rec
    <3>. QED BY <2>4, <3>1
  <2>. HIDE DEF h, Rec
  <2>. QED BY <2>5
<1>3. Len(s) \in Q
  <2>. HIDE DEF Q
  <2>. QED BY <1>1, <1>2, NaturalInduction
<1>. QED BY <1>3 DEF Chosen

(* What is chosen is in the sequence and in the set, and stands as it did. *)
LEMMA OnlyThose ==
  ASSUME NEW S, NEW n \in [S -> Int], NEW s \in Seq(S), NEW T
  PROVE  /\ Only(s, T) \in Seq(S) /\ ToSet(Only(s, T)) = ToSet(s) \intersect T
         /\ Rises(s, n) => Rises(Only(s, T), n)
<1>1. PICK f : f = CHOOSE g : Chosen(g, s, T)
  OBVIOUS
<1>2. Len(s) \in Nat /\ DOMAIN s = 1..Len(s) /\ \A i \in 1..Len(s) : s[i] \in S
  OBVIOUS
<1>3. Chosen(f, s, T)
  BY <1>1, <1>2, ChosenExists
<1>4. Only(s, T) = f[Len(s)]
  BY <1>1, OnlyIsChosen
<1>. DEFINE P(m) == /\ f[m] \in Seq(S)
                    /\ ToSet(f[m]) = {s[i] : i \in 1..m} \intersect T
                    /\ Rises(s, n) => Rises(f[m], n)
            Q == {m \in Nat : m <= Len(s) => P(m)}
<1>5. 0 \in Q
  <2>1. f[0] = <<>>
    BY <1>2, <1>3 DEF Chosen
  <2>2. <<>> \in Seq(S) /\ ToSet(<<>>) = {} /\ Rises(<<>>, n) /\ {s[i] : i \in 1..0} = {}
    BY DEF ToSet, Rises
  <2>3. P(0)
    BY <2>1, <2>2
  <2>. QED BY <2>3
<1>6. ASSUME NEW m \in Nat, m \in Q PROVE m + 1 \in Q
  <2>. SUFFICES ASSUME m + 1 <= Len(s) PROVE P(m + 1)
    OBVIOUS
  <2>0. m + 1 \in 1..Len(s) /\ m + 1 \in 0..Len(s) /\ m + 1 # 0 /\ (m + 1) - 1 = m /\ m <= Len(s)
    BY <1>2
  <2>. PICK e, a, b : e = s[m + 1] /\ a = f[m] /\ b = f[m + 1]
    OBVIOUS
  <2>1. P(m)
    BY <1>6, <2>0
  <2>2. b = IF e \in T THEN Append(a, e) ELSE a
    BY <1>3, <2>0 DEF Chosen
  <2>3. a \in Seq(S) /\ e \in S /\ ToSet(a) = {s[i] : i \in 1..m} \intersect T
    BY <1>2, <2>0, <2>1
  <2>4. {s[i] : i \in 1..(m + 1)} = {s[i] : i \in 1..m} \union {e}
    <3>1. \A i : i \in 1..(m + 1) <=> i \in 1..m \/ i = m + 1
      OBVIOUS
    <3>. QED BY <3>1
  <2>5. CASE e \notin T
    BY <2>1, <2>2, <2>3, <2>4, <2>5
  <2>6. CASE e \in T
    <3>. PICK o : o = <<e>>
      OBVIOUS
    <3>1. b = a \o o /\ o \in Seq(S) /\ ToSet(o) = {e} /\ Rises(o, n)
      <4>1. o \in Seq(S) /\ DOMAIN o = {1} /\ o[1] = e
        BY <2>3
      <4>2. ToSet(o) = {e} /\ Rises(o, n)
        BY <4>1 DEF ToSet, Rises
      <4>3. Append(a, e) = a \o o
        BY <2>3, AppendIsConcat
      <4>4. b = Append(a, e)
        BY <2>2, <2>6
      <4>. QED BY <4>1, <4>2, <4>3, <4>4
    <3>2. /\ b \in Seq(S) /\ ToSet(b) = ToSet(a) \union {e}
          /\ Rises(b, n) <=> /\ Rises(a, n) /\ \A x \in ToSet(a) : n[x] < n[e]
      <4>0. a \in Seq(S) /\ o \in Seq(S)
        BY <2>3, <3>1
      <4>. HIDE DEF P, Q
      <4>1. /\ a \o o \in Seq(S) /\ ToSet(a \o o) = ToSet(a) \union ToSet(o)
            /\ Rises(a \o o, n) <=> /\ Rises(a, n) /\ Rises(o, n)
                                    /\ \A x \in ToSet(a), y \in ToSet(o) : n[x] < n[y]
        <5>1. \A u, v \in Seq(S) :
                /\ u \o v \in Seq(S) /\ ToSet(u \o v) = ToSet(u) \union ToSet(v)
                /\ Rises(u \o v, n) <=> /\ Rises(u, n) /\ Rises(v, n)
                                        /\ \A x \in ToSet(u), y \in ToSet(v) : n[x] < n[y]
          BY JoinRises
        <5>. QED BY <4>0, <5>1
      <4>. QED BY <3>1, <4>1
    <3>3. ToSet(b) = {s[i] : i \in 1..(m + 1)} \intersect T
      BY <2>3, <2>4, <2>6, <3>2
    <3>4. Rises(s, n) => Rises(b, n)
      <4>. SUFFICES ASSUME Rises(s, n), NEW x \in ToSet(a) PROVE n[x] < n[e]
        BY <2>1, <3>2
      <4>1. PICK i \in 1..m : x = s[i]
        BY <2>3
      <4>2. i \in 1..Len(s) /\ i < m + 1
        BY <1>2, <2>0
      <4>. QED BY <1>2, <2>0, <4>1, <4>2 DEF Rises
    <3>. QED BY <3>2, <3>3, <3>4
  <2>. QED BY <2>5, <2>6
<1>7. Len(s) \in Q
  <2>. HIDE DEF Q
  <2>. QED BY <1>2, <1>5, <1>6, NaturalInduction
<1>8. P(Len(s))
  BY <1>2, <1>7
<1>9. ToSet(s) = {s[i] : i \in 1..Len(s)}
  BY <1>2 DEF ToSet
<1>. QED BY <1>4, <1>8, <1>9

-----------------------------------------------------------------------------
(* The order of the numbers, and how many come before one.                 *)
Sooner(number, i, j) == number[i] < number[j] \/ (number[i] = number[j] /\ i < j)
Rank(number, i)      == Cardinality({j \in DOMAIN number : Sooner(number, j, i)})

(* Fewer come before the sooner of two places; of two different places    *)
(* one is the sooner, and the other is not.                               *)
LEMMA RankRises ==
  ASSUME NEW m \in Nat, NEW number \in [1..m -> Int]
  PROVE  /\ \A i \in 1..m : Rank(number, i) \in 0..(m - 1)
         /\ \A i, j \in 1..m : Sooner(number, i, j) => Rank(number, i) < Rank(number, j)
         /\ \A i, j \in 1..m : i # j => Sooner(number, i, j) \/ Sooner(number, j, i)
         /\ \A i, j \in 1..m : ~(Sooner(number, i, j) /\ Sooner(number, j, i))
<1>. DEFINE B(i) == {j \in 1..m : Sooner(number, j, i)}
<1>0. DOMAIN number = 1..m /\ \A i \in 1..m : number[i] \in Int
  OBVIOUS
<1>1. IsFiniteSet(1..m) /\ Cardinality(1..m) = m
  BY FS_Interval
<1>2. ASSUME NEW i \in 1..m
      PROVE  /\ IsFiniteSet(B(i)) /\ Cardinality(B(i)) \in Nat /\ i \notin B(i)
             /\ Rank(number, i) = Cardinality(B(i))
             /\ IsFiniteSet(B(i) \union {i}) /\ Cardinality(B(i) \union {i}) = Cardinality(B(i)) + 1
  <2>1. B(i) \subseteq 1..m
    OBVIOUS
  <2>2. IsFiniteSet(B(i)) /\ Cardinality(B(i)) \in Nat
    BY <1>1, <2>1, FS_Subset, FS_CardinalityType
  <2>3. i \notin B(i)
    BY <1>0 DEF Sooner
  <2>4. Rank(number, i) = Cardinality(B(i))
    BY <1>0 DEF Rank
  <2>. HIDE DEF B
  <2>. QED BY <2>2, <2>3, <2>4, FS_AddElement
<1>3. ASSUME NEW i \in 1..m PROVE Cardinality(B(i)) \in 0..(m - 1)
  <2>1. B(i) \union {i} \subseteq 1..m
    OBVIOUS
  <2>2. Cardinality(B(i) \union {i}) <= m
    BY <1>1, <2>1, FS_Subset
  <2>. PICK c, d : c = Cardinality(B(i)) /\ d = Cardinality(B(i) \union {i})
    OBVIOUS
  <2>. HIDE DEF B
  <2>3. c \in Nat /\ d = c + 1 /\ d <= m
    BY <1>2, <2>2
  <2>4. c \in 0..(m - 1)
    BY <2>3
  <2>. QED BY <2>4
<1>4. ASSUME NEW i \in 1..m, NEW j \in 1..m, Sooner(number, i, j)
      PROVE  Cardinality(B(i)) < Cardinality(B(j))
  <2>1. B(i) \union {i} \subseteq B(j)
    BY <1>0, <1>4 DEF Sooner
  <2>. HIDE DEF B
  <2>2. Cardinality(B(i) \union {i}) <= Cardinality(B(j))
    BY <1>2, <2>1, FS_Subset
  <2>. PICK c, d, e : c = Cardinality(B(i)) /\ d = Cardinality(B(i) \union {i}) /\ e = Cardinality(B(j))
    OBVIOUS
  <2>3. c \in Nat /\ e \in Nat /\ d = c + 1 /\ d <= e
    BY <1>2, <2>2
  <2>4. c < e
    BY <2>3
  <2>. QED BY <2>4
<1>5. /\ \A i, j \in 1..m : i # j => Sooner(number, i, j) \/ Sooner(number, j, i)
      /\ \A i, j \in 1..m : ~(Sooner(number, i, j) /\ Sooner(number, j, i))
  BY <1>0 DEF Sooner
<1>6. \A i \in 1..m : Rank(number, i) = Cardinality(B(i))
  <2>. HIDE DEF B
  <2>. QED BY <1>2
<1>7. \A i \in 1..m : Rank(number, i) \in 0..(m - 1)
  BY <1>3, <1>6
<1>8. \A i, j \in 1..m : Sooner(number, i, j) => Rank(number, i) < Rank(number, j)
  <2>. SUFFICES ASSUME NEW i \in 1..m, NEW j \in 1..m, Sooner(number, i, j)
                PROVE  Rank(number, i) < Rank(number, j)
    OBVIOUS
  <2>1. Cardinality(B(i)) < Cardinality(B(j))
    BY <1>4
  <2>2. Rank(number, i) = Cardinality(B(i)) /\ Rank(number, j) = Cardinality(B(j))
    BY <1>6
  <2>. HIDE DEF B
  <2>. QED BY <2>1, <2>2
<1>. QED BY <1>5, <1>7, <1>8

(* Every place is given once, and in the order of the numbers.             *)
LEMMA ByNumberSorts ==
  ASSUME NEW m \in Nat, NEW number \in [1..m -> Int]
  PROVE  /\ ByNumber(number) \in [1..m -> 1..m]
         /\ \A k, l \in 1..m : k < l => Sooner(number, ByNumber(number)[k], ByNumber(number)[l])
         /\ \A i \in 1..m : \E k \in 1..m : ByNumber(number)[k] = i
<1>. DEFINE D  == 1..m
            at == ByNumber(number)
            f  == [i \in D |-> Rank(number, i) + 1]
<1>0. DOMAIN number = D
  OBVIOUS
<1>1. /\ \A i \in D : Rank(number, i) \in 0..(m - 1)
      /\ \A i, j \in D : Sooner(number, i, j) => Rank(number, i) < Rank(number, j)
      /\ \A i, j \in D : i # j => Sooner(number, i, j) \/ Sooner(number, j, i)
      /\ \A i, j \in D : ~(Sooner(number, i, j) /\ Sooner(number, j, i))
  BY RankRises
<1>2. at = [k \in D |-> CHOOSE i \in D : Rank(number, i) = k - 1]
  BY <1>0 DEF ByNumber, Rank, Sooner
<1>3. \A i \in D : Rank(number, i) \in Int /\ f[i] = Rank(number, i) + 1 /\ f[i] \in D
  <2>. SUFFICES ASSUME NEW i \in D
                PROVE  Rank(number, i) \in Int /\ f[i] = Rank(number, i) + 1 /\ f[i] \in D
    OBVIOUS
  <2>1. PICK r : r = Rank(number, i)
    OBVIOUS
  <2>2. r \in 0..(m - 1)
    BY <1>1, <2>1
  <2>3. r \in Int /\ r + 1 \in 1..m
    BY <2>2
  <2>. QED BY <2>1, <2>3
<1>4. \A i, j \in D : f[i] = f[j] => i = j
  <2>. SUFFICES ASSUME NEW i \in D, NEW j \in D, f[i] = f[j], i # j PROVE FALSE
    OBVIOUS
  <2>1. PICK r, u : r = Rank(number, i) /\ u = Rank(number, j)
    OBVIOUS
  <2>2. r \in Int /\ u \in Int /\ r + 1 = u + 1
    BY <1>3, <2>1
  <2>3. r = u
    BY <2>2
  <2>4. r < u \/ u < r
    BY <1>1, <2>1
  <2>. QED BY <2>2, <2>3, <2>4
<1>5. f \in Surjection(D, D)
  <2>1. f \in [D -> D]
    BY <1>3
  <2>. HIDE DEF f
  <2>2. f \in Injection(D, D)
    BY <1>4, <2>1 DEF Injection, IsInjective
  <2>3. IsFiniteSet(D) /\ Cardinality(D) = m
    BY FS_Interval
  <2>. QED BY <2>2, <2>3, FS_Injection
<1>6. ASSUME NEW k \in D PROVE \E i \in D : Rank(number, i) = k - 1
  <2>1. PICK i \in D : f[i] = k
    <3>. HIDE DEF f
    <3>. QED BY <1>5 DEF Surjection
  <2>2. PICK r : r = Rank(number, i)
    OBVIOUS
  <2>3. r \in Int /\ r + 1 = k
    BY <1>3, <2>1, <2>2
  <2>4. r = k - 1
    BY <2>3
  <2>. QED BY <2>2, <2>4
<1>7. ASSUME NEW k \in D PROVE at[k] \in D /\ Rank(number, at[k]) = k - 1
  <2>1. at[k] = CHOOSE i \in D : Rank(number, i) = k - 1
    BY <1>2
  <2>2. \E i \in D : Rank(number, i) = k - 1
    BY <1>6
  <2>. HIDE DEF at
  <2>. QED BY <2>1, <2>2
<1>8. at \in [D -> D]
  <2>1. at = [k \in D |-> at[k]]
    BY <1>2
  <2>. HIDE DEF at
  <2>. QED BY <1>7, <2>1
<1>9. ASSUME NEW k \in D, NEW l \in D, k < l PROVE Sooner(number, at[k], at[l])
  <2>1. PICK a, b : a = at[k] /\ b = at[l]
    OBVIOUS
  <2>. PICK r, u : r = Rank(number, a) /\ u = Rank(number, b)
    OBVIOUS
  <2>2. a \in D /\ b \in D /\ r = k - 1 /\ u = l - 1
    BY <1>7, <2>1
  <2>3. r \in Int /\ u \in Int /\ r < u
    BY <1>9, <2>2
  <2>5. a # b
    <3>. SUFFICES ASSUME a = b PROVE FALSE
      OBVIOUS
    <3>1. r = u
      OBVIOUS
    <3>. QED BY <2>3, <3>1
  <2>4. Sooner(number, a, b)
    <3>1. Sooner(number, a, b) \/ Sooner(number, b, a)
      BY <1>1, <2>2, <2>5
    <3>2. Sooner(number, b, a) => u < r
      <4>1. Sooner(number, b, a) => Rank(number, b) < Rank(number, a)
        <5>. HIDE DEF D
        <5>. QED BY <1>1, <2>2
      <4>2. r = Rank(number, a) /\ u = Rank(number, b)
        OBVIOUS
      <4>. QED BY <4>1, <4>2, Zenon
    <3>. QED BY <2>3, <3>1, <3>2
  <2>. QED BY <2>1, <2>4
<1>10. ASSUME NEW i \in D PROVE \E k \in D : at[k] = i
  <2>1. PICK r : r = Rank(number, i)
    OBVIOUS
  <2>2. r \in 0..(m - 1)
    BY <1>1, <2>1
  <2>3. r + 1 \in D /\ (r + 1) - 1 = r
    BY <2>2
  <2>4. PICK j : j = at[r + 1]
    OBVIOUS
  <2>5. j \in D /\ Rank(number, j) = r
    BY <1>7, <2>3, <2>4
  <2>6. i = j
    <3>. SUFFICES ASSUME i # j PROVE FALSE
      OBVIOUS
    <3>1. r < r
      BY <1>1, <2>1, <2>5
    <3>. QED BY <2>2, <3>1
  <2>. QED BY <2>3, <2>4, <2>6
<1>. QED BY <1>8, <1>9, <1>10

(* Put in the order of their numbers, all different, the elements rise.    *)
Numbers(number, s, n) ==
  /\ number = [i \in DOMAIN s |-> n[s[i]]]
  /\ \A i, j \in DOMAIN s : i # j => n[s[i]] # n[s[j]]

SortsBy(t, s, number) == t = [k \in DOMAIN ByNumber(number) |-> s[ByNumber(number)[k]]]

(* The elements so put are the same elements, and they rise.              *)
LEMMA SortedRises ==
  ASSUME NEW S, NEW n \in [S -> Int], NEW s \in Seq(S),
         NEW number, Numbers(number, s, n), NEW t, SortsBy(t, s, number)
  PROVE  t \in Seq(S) /\ ToSet(t) = ToSet(s) /\ Rises(t, n)
<1>. PICK at : at = ByNumber(number)
  OBVIOUS
<1>. PICK m : m = Len(s)
  OBVIOUS
<1>. PICK D : D = 1..m
  OBVIOUS
<1>1. m \in Nat /\ DOMAIN s = D /\ (\A i \in D : s[i] \in S /\ n[s[i]] \in Int /\ i \in Int)
  OBVIOUS
<1>2. number \in [1..m -> Int] /\ \A i \in D : number[i] = n[s[i]]
  BY <1>1 DEF Numbers
<1>3. /\ ByNumber(number) \in [1..m -> 1..m]
      /\ \A k, l \in 1..m : k < l => Sooner(number, ByNumber(number)[k], ByNumber(number)[l])
      /\ \A i \in 1..m : \E k \in 1..m : ByNumber(number)[k] = i
  BY <1>1, <1>2, ByNumberSorts
<1>4. /\ at \in [D -> D] /\ DOMAIN at = D
      /\ \A k, l \in D : k < l => Sooner(number, at[k], at[l])
      /\ \A i \in D : \E k \in D : at[k] = i
  BY <1>3
<1>5. t \in [D -> S] /\ DOMAIN t = D /\ \A k \in D : at[k] \in D /\ t[k] = s[at[k]] /\ t[k] \in S
  <2>1. t = [k \in D |-> s[at[k]]]
    BY <1>4 DEF SortsBy
  <2>. QED BY <1>1, <1>4, <2>1
<1>6. t \in Seq(S)
  <2>1. D = 1..m
    OBVIOUS
  <2>. QED BY ONLY <1>1, <1>5, <2>1, SeqDef
<1>7. ToSet(t) = ToSet(s)
  <2>1. ToSet(t) = {t[k] : k \in D} /\ ToSet(s) = {s[k] : k \in D}
    BY <1>1, <1>5 DEF ToSet
  <2>2. \A k \in D : t[k] \in ToSet(s)
    BY ONLY <1>5, <2>1
  <2>3. ASSUME NEW x \in ToSet(s) PROVE x \in ToSet(t)
    <3>1. PICK i \in D : x = s[i]
      BY <2>1
    <3>2. PICK k \in D : at[k] = i
      BY <1>4
    <3>3. t[k] = x
      BY ONLY <1>5, <3>1, <3>2
    <3>. QED BY <2>1, <3>3
  <2>. QED BY ONLY <2>1, <2>2, <2>3
<1>8. ASSUME NEW k \in D, NEW l \in D, k < l PROVE n[t[k]] < n[t[l]]
  <2>. PICK a, b : a = at[k] /\ b = at[l]
    OBVIOUS
  <2>1. a \in D /\ b \in D /\ Sooner(number, a, b) /\ t[k] = s[a] /\ t[l] = s[b]
    BY <1>4, <1>5, <1>8
  <2>. PICK x, y : x = n[s[a]] /\ y = n[s[b]]
    OBVIOUS
  <2>2. x \in Int /\ y \in Int /\ a \in Int /\ b \in Int
    BY ONLY <1>1, <2>1, x = n[s[a]], y = n[s[b]]
  <2>3. x < y \/ (x = y /\ a < b)
    BY <1>2, <2>1 DEF Sooner
  <2>4. a # b => x # y
    BY <1>1, <2>1 DEF Numbers
  <2>5. x < y
    <3>1. a = b => x = y
      OBVIOUS
    <3>. QED BY ONLY <2>2, <2>3, <2>4, <3>1
  <2>. QED BY <2>1, <2>5
<1>9. Rises(t, n)
  BY ONLY <1>5, <1>8 DEF Rises
<1>. QED BY <1>6, <1>7, <1>9

-----------------------------------------------------------------------------
(* The same of rows.                                                      *)

(* Rows chosen, joined, compared and sorted.                               *)
LEMMA RowsOnly ==
  ASSUME NEW u \in Seq(Row), NEW T
  PROVE  /\ Only(u, T) \in Seq(Row) /\ ToSet(Only(u, T)) = ToSet(u) \intersect T
         /\ Numbered(u) => Numbered(Only(u, T))
<1>1. IdOf \in [Row -> Int] /\ (Numbered(u) => Rises(u, IdOf))
  BY NumberedRises
<1>2. /\ Only(u, T) \in Seq(Row) /\ ToSet(Only(u, T)) = ToSet(u) \intersect T
      /\ Rises(u, IdOf) => Rises(Only(u, T), IdOf)
  BY <1>1, OnlyThose
<1>3. Rises(Only(u, T), IdOf) => Numbered(Only(u, T))
  BY <1>2, NumberedRises
<1>. QED BY <1>1, <1>2, <1>3

(* Two joined are numbered if each is and the first is below the second.  *)
LEMMA RowsJoin ==
  ASSUME NEW u \in Seq(Row), NEW v \in Seq(Row)
  PROVE  /\ u \o v \in Seq(Row) /\ ToSet(u \o v) = ToSet(u) \union ToSet(v)
         /\ Numbered(u \o v) <=> /\ Numbered(u) /\ Numbered(v)
                                 /\ \A x \in ToSet(u), y \in ToSet(v) : x.id < y.id
<1>1. IdOf \in [Row -> Int] /\ (Numbered(u) <=> Rises(u, IdOf)) /\ (Numbered(v) <=> Rises(v, IdOf))
  BY NumberedRises
<1>2. /\ u \o v \in Seq(Row) /\ ToSet(u \o v) = ToSet(u) \union ToSet(v)
      /\ Rises(u \o v, IdOf) <=> /\ Rises(u, IdOf) /\ Rises(v, IdOf)
                                 /\ \A x \in ToSet(u), y \in ToSet(v) : IdOf[x] < IdOf[y]
  BY <1>1, JoinRises
<1>3. Rises(u \o v, IdOf) <=> Numbered(u \o v)
  BY <1>2, NumberedRises
<1>4. \A x \in Row : IdOf[x] = x.id
  BY DEF IdOf
<1>5. ToSet(u) \subseteq Row /\ ToSet(v) \subseteq Row
  BY DEF ToSet
<1>6. (\A x \in ToSet(u), y \in ToSet(v) : IdOf[x] < IdOf[y])
        <=> \A x \in ToSet(u), y \in ToSet(v) : x.id < y.id
  BY <1>4, <1>5
<1>. QED BY <1>1, <1>2, <1>3, <1>6

(* Of the same rows there is one numbered sequence.                       *)
LEMMA RowsAgree ==
  ASSUME NEW u \in Seq(Row), NEW v \in Seq(Row), Numbered(u), Numbered(v), ToSet(u) = ToSet(v)
  PROVE  u = v
<1>1. IdOf \in [Row -> Int] /\ Rises(u, IdOf) /\ Rises(v, IdOf)
  BY NumberedRises
<1>. QED BY <1>1, RisingAgree

(* Numbered rows are all different, and so are their numbers.             *)
LEMMA RowsApart ==
  ASSUME NEW u \in Seq(Row), Numbered(u)
  PROVE  /\ ToSet(u) \subseteq Row /\ IsInjective(u)
         /\ \A x, y \in ToSet(u) : x.id = y.id => x = y
<1>1. Len(u) \in Nat /\ DOMAIN u = 1..Len(u) /\ \A i \in 1..Len(u) : u[i] \in Row /\ u[i].id \in Int
  <2>1. \A r \in Row : r.id \in Int
    BY DEF Row
  <2>2. Len(u) \in Nat /\ DOMAIN u = 1..Len(u) /\ \A i \in 1..Len(u) : u[i] \in Row
    OBVIOUS
  <2>. QED BY <2>1, <2>2
<1>2. \A i, j \in 1..Len(u) : u[i].id = u[j].id => i = j
  <2>. SUFFICES ASSUME NEW i \in 1..Len(u), NEW j \in 1..Len(u), u[i].id = u[j].id, i # j
                PROVE  FALSE
    OBVIOUS
  <2>1. i < j \/ j < i
    OBVIOUS
  <2>2. u[i].id < u[j].id \/ u[j].id < u[i].id
    BY <1>1, <2>1 DEF Numbered
  <2>. QED BY <1>1, <2>2
<1>3. IsInjective(u)
  BY <1>1, <1>2 DEF IsInjective
<1>4. ToSet(u) = {u[i] : i \in 1..Len(u)}
  BY <1>1 DEF ToSet
<1>5. ToSet(u) \subseteq Row
  BY <1>1, <1>4
<1>6. ASSUME NEW x \in ToSet(u), NEW y \in ToSet(u), x.id = y.id PROVE x = y
  <2>1. PICK i \in 1..Len(u) : x = u[i]
    BY <1>4
  <2>2. PICK j \in 1..Len(u) : y = u[j]
    BY <1>4
  <2>3. i = j
    BY <1>2, <1>6, <2>1, <2>2
  <2>. QED BY <2>1, <2>2, <2>3
<1>. QED BY <1>3, <1>5, <1>6

(* MergeByOrdinal puts different rows in the order of their numbers       *)
(* (extdistinct.go).                                                      *)
LEMMA RowsSorted ==
  ASSUME NEW u \in Seq(Row), IsInjective(u), \A x, y \in ToSet(u) : x.id = y.id => x = y
  PROVE  /\ MergeByOrdinal(u) \in Seq(Row) /\ ToSet(MergeByOrdinal(u)) = ToSet(u)
         /\ Numbered(MergeByOrdinal(u))
<1>. PICK number : number = [i \in DOMAIN u |-> u[i].id]
  OBVIOUS
<1>1. IdOf \in [Row -> Int] /\ \A r \in Row : IdOf[r] = r.id
  BY DEF IdOf, Row
<1>2. \A i \in DOMAIN u : u[i] \in Row /\ u[i] \in ToSet(u)
  BY DEF ToSet
<1>3. number = [i \in DOMAIN u |-> IdOf[u[i]]]
  BY <1>1, <1>2
<1>4. \A i, j \in DOMAIN u : i # j => IdOf[u[i]] # IdOf[u[j]]
  BY <1>1, <1>2 DEF IsInjective
<1>. PICK at : at = ByNumber(number)
  OBVIOUS
<1>. PICK t : t = [k \in DOMAIN at |-> u[at[k]]]
  OBVIOUS
<1>5. t \in Seq(Row) /\ ToSet(t) = ToSet(u) /\ Rises(t, IdOf)
  <2>1. IdOf \in [Row -> Int]
    BY <1>1
  <2>2. Numbers(number, u, IdOf) /\ SortsBy(t, u, number)
    BY <1>3, <1>4 DEF Numbers, SortsBy
  <2>. QED BY ONLY <2>1, <2>2, u \in Seq(Row), SortedRises
<1>6. Numbered(t)
  BY <1>5, NumberedRises
<1>7. MergeByOrdinal(u) = t
  BY DEF MergeByOrdinal
<1>. QED BY <1>5, <1>6, <1>7

(* Two joined repeat nothing if neither does and they share nothing.       *)
LEMMA JoinApart ==
  ASSUME NEW S, NEW u \in Seq(S), NEW v \in Seq(S), IsInjective(u), IsInjective(v),
         ToSet(u) \intersect ToSet(v) = {}
  PROVE  IsInjective(u \o v)
<1>. PICK w : w = u \o v
  OBVIOUS
<1>1. /\ Len(u) \in Nat /\ Len(v) \in Nat
      /\ DOMAIN u = 1..Len(u) /\ DOMAIN v = 1..Len(v) /\ DOMAIN w = 1..(Len(u) + Len(v))
      /\ \A i \in 1..Len(u) : w[i] = u[i]
      /\ \A i \in 1..Len(v) : w[Len(u) + i] = v[i]
  OBVIOUS
<1>2. \A i \in 1..(Len(u) + Len(v)) : \/ i \in 1..Len(u)
                                      \/ \E j \in 1..Len(v) : i = Len(u) + j
  <2>. SUFFICES ASSUME NEW i \in 1..(Len(u) + Len(v)), i \notin 1..Len(u)
                PROVE  \E j \in 1..Len(v) : i = Len(u) + j
    OBVIOUS
  <2>1. i - Len(u) \in 1..Len(v) /\ i = Len(u) + (i - Len(u))
    BY <1>1
  <2>. QED BY <2>1
<1>3. \A i \in 1..Len(u), j \in 1..Len(v) : u[i] # v[j]
  BY <1>1 DEF ToSet
<1>4. /\ \A i, j \in 1..Len(u) : u[i] = u[j] => i = j
      /\ \A i, j \in 1..Len(v) : v[i] = v[j] => i = j
  BY <1>1 DEF IsInjective
<1>5. ASSUME NEW i \in 1..(Len(u) + Len(v)), NEW j \in 1..(Len(u) + Len(v)), w[i] = w[j]
      PROVE  i = j
  <2>1. CASE i \in 1..Len(u) /\ j \in 1..Len(u)
    BY <1>1, <1>4, <1>5, <2>1
  <2>2. CASE i \in 1..Len(u) /\ j \notin 1..Len(u)
    BY <1>1, <1>2, <1>3, <1>5, <2>2
  <2>3. CASE i \notin 1..Len(u) /\ j \in 1..Len(u)
    BY <1>1, <1>2, <1>3, <1>5, <2>3
  <2>4. CASE i \notin 1..Len(u) /\ j \notin 1..Len(u)
    <3>1. PICK k \in 1..Len(v) : i = Len(u) + k
      BY <1>2, <2>4
    <3>2. PICK l \in 1..Len(v) : j = Len(u) + l
      BY <1>2, <2>4
    <3>3. v[k] = v[l]
      BY <1>1, <1>5, <3>1, <3>2
    <3>4. k = l
      BY <1>4, <3>3
    <3>. QED BY <3>1, <3>2, <3>4
  <2>. QED BY <2>1, <2>2, <2>3, <2>4
<1>6. IsInjective(w)
  BY <1>1, <1>5 DEF IsInjective
<1>. QED BY <1>6

(* Of the same elements, repeating none, two sequences are as long.        *)
LEMMA SameLength ==
  ASSUME NEW S, NEW u \in Seq(S), NEW v \in Seq(S), IsInjective(u), IsInjective(v),
         ToSet(u) = ToSet(v)
  PROVE  Len(u) = Len(v)
<1>1. \A w \in Seq(S) : IsInjective(w) => Cardinality(ToSet(w)) = Len(w)
  <2>. SUFFICES ASSUME NEW w \in Seq(S), IsInjective(w) PROVE Cardinality(ToSet(w)) = Len(w)
    OBVIOUS
  <2>1. Len(w) \in Nat /\ DOMAIN w = 1..Len(w) /\ ToSet(w) = {w[i] : i \in 1..Len(w)}
    BY DEF ToSet
  <2>2. w \in [1..Len(w) -> ToSet(w)]
    <3>1. PICK k \in Nat : w \in [1..k -> S]
      BY SeqDef
    <3>. QED BY <2>1, <3>1
  <2>3. IsFiniteSet(1..Len(w)) /\ Cardinality(1..Len(w)) = Len(w)
    <3>1. \A m \in Nat : IsFiniteSet(1..m) /\ Cardinality(1..m) = m
      BY FS_Interval
    <3>. QED BY <2>1, <3>1
  <2>4. w \in Bijection(1..Len(w), ToSet(w))
    BY <2>1, <2>2 DEF Bijection, Injection, Surjection, IsInjective
  <2>5. ExistsBijection(1..Len(w), ToSet(w))
    BY <2>4 DEF ExistsBijection
  <2>. QED BY <2>3, <2>5, FS_Bijection
<1>. QED BY <1>1

(* Written, rows come after what the file had.                             *)
LEMMA WrittenAdds ==
  ASSUME NEW S, NEW file \in Seq(Seq(S)), NEW rows \in Seq(S)
  PROVE  /\ Written(file, rows) \in Seq(Seq(S))
         /\ FlattenSeq(file) \in Seq(S)
         /\ FlattenSeq(Written(file, rows)) = FlattenSeq(file) \o rows
<1>1. FlattenSeq(file) \in Seq(S) /\ (Len(file) = 0 => FlattenSeq(file) = <<>>)
  <2>1. Len(file) \in 0..Len(file)
    OBVIOUS
  <2>2. /\ FlattenSeq(SubSeq(file, 1, 0)) = <<>>
        /\ FlattenSeq(SubSeq(file, 1, Len(file))) = FlattenSeq(file)
        /\ \A n \in 0..Len(file) : FlattenSeq(SubSeq(file, 1, n)) \in Seq(S)
    BY FlattenFront
  <2>. QED BY <2>1, <2>2
<1>2. CASE rows = <<>>
  BY <1>1, <1>2 DEF Written
<1>3. CASE rows # <<>>
  <2>. PICK t : t = Append(file, rows)
    OBVIOUS
  <2>1. /\ t \in Seq(Seq(S)) /\ Len(t) = Len(file) + 1 /\ Len(file) \in Nat
        /\ (\A i \in 1..Len(file) : t[i] = file[i]) /\ t[Len(t)] = rows
    OBVIOUS
  <2>2. Written(file, rows) = t
    BY <1>3 DEF Written
  <2>3. CASE Len(file) = 0
    <3>1. FlattenSeq(t) = t[1]
      <4>1. Len(t) = 1 /\ t \in Seq(Seq(S))
        BY <2>1, <2>3
      <4>. QED BY <4>1, FlattenOne
    <3>2. t[1] = rows /\ FlattenSeq(file) = <<>> /\ <<>> \o rows = rows
      BY <1>1, <2>1, <2>3
    <3>. QED BY <1>1, <2>1, <2>2, <3>1, <3>2
  <2>4. CASE Len(file) # 0
    <3>1. Len(file) > 0
      BY <2>1, <2>4
    <3>2. FlattenSeq(t) = FlattenSeq(file) \o t[Len(t)]
      BY <2>1, <3>1, FlattenMore
    <3>. QED BY <1>1, <2>1, <2>2, <3>2
  <2>. QED BY <2>3, <2>4
<1>. QED BY <1>2, <1>3

-----------------------------------------------------------------------------
(* The groups of a set of rows.                                           *)

(* The keys of rows, the rows of a key, and the first row of each key.    *)
KeysIn(R)     == {r.key : r \in R}
Same(R, key)  == {r \in R : r.key = key}
Firsts(R)     == {r \in R : ~\E x \in R : x.key = r.key /\ x.id < r.id}

(* Every key has a first row.                                              *)
LEMMA FirstExists ==
  ASSUME NEW R \in SUBSET Row, NEW key \in KeysIn(R)
  PROVE  \E r \in Firsts(R) : r.key = key
<1>. DEFINE T == {r.id : r \in Same(R, key)}
<1>1. \A r \in R : r.id \in Nat
  BY DEF Row
<1>2. T \subseteq Nat /\ T # {}
  BY <1>1 DEF KeysIn, Same
<1>3. PICK m \in T : \A l \in T : m <= l
  BY <1>2, LeastNatural
<1>4. PICK r \in Same(R, key) : r.id = m
  BY <1>3
<1>5. ASSUME NEW x \in R, x.key = r.key PROVE ~(x.id < r.id)
  <2>1. x.id \in T /\ x.id \in Nat /\ r.id \in Nat /\ r.id <= x.id
    BY <1>1, <1>3, <1>4, <1>5 DEF Same
  <2>. QED BY <2>1
<1>. QED BY <1>4, <1>5 DEF Firsts, Same

(* New gives the first rows of the keys that are new.                      *)
LEMMA NewFirsts ==
  ASSUME NEW u \in Seq(Row), NEW keys
  PROVE  /\ New(keys, u) \in Seq(Row)
         /\ ToSet(New(keys, u)) = {r \in Firsts(ToSet(u)) : r.key \notin keys}
         /\ Numbered(u) => Numbered(New(keys, u))
<1>. DEFINE T == {r \in ToSet(u) :
                    r.key \notin keys /\ ~\E x \in ToSet(u) : x.key = r.key /\ x.id < r.id}
<1>1. New(keys, u) = Only(u, T)
  BY DEF New
<1>2. ToSet(u) \intersect T = {r \in Firsts(ToSet(u)) : r.key \notin keys}
  BY DEF Firsts
<1>. HIDE DEF T
<1>3. /\ Only(u, T) \in Seq(Row) /\ ToSet(Only(u, T)) = ToSet(u) \intersect T
      /\ Numbered(u) => Numbered(Only(u, T))
  BY RowsOnly
<1>. QED BY <1>1, <1>2, <1>3

(* The groups gs are those of the rows R, each once.                       *)
Lists(gs, R) ==
  /\ gs \in Seq(Seq(Row)) /\ IsInjective(gs)
  /\ \A g \in ToSet(gs) : Numbered(g) /\ \E key \in KeysIn(R) : ToSet(g) = Same(R, key)
  /\ \A key \in KeysIn(R) : \E g \in ToSet(gs) : ToSet(g) = Same(R, key)

(* Two lists of the groups of the same rows are as long and have the same *)
(* groups.                                                                *)
LEMMA ListsAgree ==
  ASSUME NEW R, NEW gs, NEW hs, Lists(gs, R), Lists(hs, R)
  PROVE  Len(gs) = Len(hs) /\ ToSet(gs) = ToSet(hs)
<1>1. \A a, b : Lists(a, R) /\ Lists(b, R) => ToSet(a) \subseteq ToSet(b)
  <2>. SUFFICES ASSUME NEW a, NEW b, Lists(a, R), Lists(b, R), NEW g \in ToSet(a)
                PROVE  g \in ToSet(b)
    OBVIOUS
  <2>1. PICK key \in KeysIn(R) : ToSet(g) = Same(R, key)
    BY DEF Lists
  <2>2. PICK h \in ToSet(b) : ToSet(h) = Same(R, key)
    BY DEF Lists
  <2>3. Numbered(g) /\ Numbered(h)
    BY DEF Lists
  <2>4. g \in Seq(Row) /\ h \in Seq(Row)
    <3>1. a \in Seq(Seq(Row)) /\ b \in Seq(Seq(Row))
      BY DEF Lists
    <3>. QED BY <3>1 DEF ToSet
  <2>5. g = h
    BY <2>1, <2>2, <2>3, <2>4, RowsAgree
  <2>. QED BY <2>5
<1>2. ToSet(gs) = ToSet(hs)
  BY <1>1
<1>3. gs \in Seq(Seq(Row)) /\ hs \in Seq(Seq(Row)) /\ IsInjective(gs) /\ IsInjective(hs)
  BY DEF Lists
<1>4. Len(gs) = Len(hs)
  BY <1>2, <1>3, SameLength
<1>. QED BY <1>2, <1>4

(* Of rows that share no key, the groups are those of the one and of the   *)
(* other.                                                                  *)
LEMMA ListsJoin ==
  ASSUME NEW A, NEW B, NEW gs, NEW hs, Lists(gs, A), Lists(hs, B),
         KeysIn(A) \intersect KeysIn(B) = {}
  PROVE  Lists(gs \o hs, A \union B)
<1>1. gs \in Seq(Seq(Row)) /\ hs \in Seq(Seq(Row)) /\ IsInjective(gs) /\ IsInjective(hs)
  BY DEF Lists
<1>2. KeysIn(A \union B) = KeysIn(A) \union KeysIn(B)
  BY DEF KeysIn
<1>3. \A key \in KeysIn(A) : Same(A \union B, key) = Same(A, key)
  BY DEF KeysIn, Same
<1>4. \A key \in KeysIn(B) : Same(A \union B, key) = Same(B, key)
  BY DEF KeysIn, Same
<1>5. \A key \in KeysIn(A) : Same(A, key) # {} /\ \A r \in Same(A, key) : r.key = key
  BY DEF KeysIn, Same
<1>6. \A key \in KeysIn(B) : \A r \in Same(B, key) : r.key = key
  BY DEF Same
<1>7. ToSet(gs) \intersect ToSet(hs) = {}
  <2>. SUFFICES ASSUME NEW g \in ToSet(gs), g \in ToSet(hs) PROVE FALSE
    OBVIOUS
  <2>1. PICK a \in KeysIn(A) : ToSet(g) = Same(A, a)
    BY DEF Lists
  <2>2. PICK b \in KeysIn(B) : ToSet(g) = Same(B, b)
    BY DEF Lists
  <2>3. PICK r \in Same(A, a) : r.key = a
    BY <1>5
  <2>4. r.key = b
    BY <1>6, <2>1, <2>2
  <2>. QED BY <2>3, <2>4
<1>8. IsInjective(gs \o hs)
  BY <1>1, <1>7, JoinApart
<1>9. gs \o hs \in Seq(Seq(Row)) /\ ToSet(gs \o hs) = ToSet(gs) \union ToSet(hs)
  <2>1. PICK n : n \in [Seq(Row) -> Int]
    <3>1. [x \in Seq(Row) |-> 0] \in [Seq(Row) -> Int]
      OBVIOUS
    <3>. QED BY <3>1
  <2>2. \A u, v \in Seq(Seq(Row)) :
          u \o v \in Seq(Seq(Row)) /\ ToSet(u \o v) = ToSet(u) \union ToSet(v)
    BY <2>1, JoinRises
  <2>. QED BY <1>1, <2>2
<1>10. ASSUME NEW g \in ToSet(gs \o hs)
       PROVE  Numbered(g) /\ \E key \in KeysIn(A \union B) : ToSet(g) = Same(A \union B, key)
  <2>1. CASE g \in ToSet(gs)
    BY <1>2, <1>3, <2>1 DEF Lists
  <2>2. CASE g \in ToSet(hs)
    BY <1>2, <1>4, <2>2 DEF Lists
  <2>. QED BY <1>9, <2>1, <2>2
<1>11. ASSUME NEW key \in KeysIn(A \union B)
       PROVE  \E g \in ToSet(gs \o hs) : ToSet(g) = Same(A \union B, key)
  <2>1. CASE key \in KeysIn(A)
    <3>1. PICK g \in ToSet(gs) : ToSet(g) = Same(A, key)
      BY <2>1 DEF Lists
    <3>. QED BY <1>3, <1>9, <2>1, <3>1
  <2>2. CASE key \in KeysIn(B)
    <3>1. PICK g \in ToSet(hs) : ToSet(g) = Same(B, key)
      BY <2>2 DEF Lists
    <3>. QED BY <1>4, <1>9, <2>2, <3>1
  <2>. QED BY <1>2, <2>1, <2>2
<1>. QED BY <1>8, <1>9, <1>10, <1>11 DEF Lists

(* A group's first row, and its number.                                    *)
Group   == Seq(Row) \ {<<>>}
FirstId == [g \in Group |-> g[1].id]

(* One group-by that spills nothing lists the groups of its rows, in the  *)
(* order of their first rows (agg.go).                                    *)
LEMMA GroupsOfLists ==
  ASSUME NEW u \in Seq(Row), Numbered(u)
  PROVE  /\ Lists(GroupsOf(u), ToSet(u)) /\ FirstId \in [Group -> Int]
         /\ GroupsOf(u) \in Seq(Group) /\ Rises(GroupsOf(u), FirstId)
<1>. PICK R : R = ToSet(u)
  OBVIOUS
<1>. PICK f : f = New({}, u)
  OBVIOUS
<1>. PICK gs : gs = GroupsOf(u)
  OBVIOUS
<1>1. R \subseteq Row /\ \A x, y \in R : x.id = y.id => x = y
  BY RowsApart
<1>2. f \in Seq(Row) /\ ToSet(f) = Firsts(R) /\ Numbered(f)
  <2>1. ToSet(f) = {r \in Firsts(ToSet(u)) : r.key \notin {}} /\ f \in Seq(Row) /\ Numbered(f)
    BY NewFirsts
  <2>. QED BY <2>1
<1>. PICK m : m = Len(f)
  OBVIOUS
<1>3. m \in Nat /\ DOMAIN f = 1..m /\ \A i \in 1..m : f[i] \in Row /\ f[i] \in Firsts(R)
  BY <1>2 DEF ToSet
<1>4. gs = [g \in 1..m |-> Only(u, {r \in R : r.key = f[g].key})]
  BY <1>3 DEF GroupsOf
<1>5. ASSUME NEW i \in 1..m
      PROVE  gs[i] \in Seq(Row) /\ Numbered(gs[i]) /\ ToSet(gs[i]) = Same(R, f[i].key)
  <2>. PICK T : T = {r \in R : r.key = f[i].key}
    OBVIOUS
  <2>1. gs[i] = Only(u, T)
    BY <1>4
  <2>2. /\ Only(u, T) \in Seq(Row) /\ ToSet(Only(u, T)) = ToSet(u) \intersect T
        /\ Numbered(Only(u, T))
    BY RowsOnly
  <2>3. ToSet(u) \intersect T = Same(R, f[i].key)
    BY DEF Same
  <2>. QED BY <2>1, <2>2, <2>3
<1>6. ASSUME NEW i \in 1..m
      PROVE  gs[i] \in Group /\ gs[i][1] = f[i]
  <2>. PICK g : g = gs[i]
    OBVIOUS
  <2>1. g \in Seq(Row) /\ Numbered(g) /\ ToSet(g) = Same(R, f[i].key)
    BY <1>5
  <2>2. f[i] \in ToSet(g)
    BY <1>3, <2>1 DEF Firsts, Same
  <2>3. PICK j \in 1..Len(g) : g[j] = f[i]
    BY <2>1, <2>2 DEF ToSet
  <2>4. 1 \in 1..Len(g) /\ Len(g) \in Nat /\ DOMAIN g = 1..Len(g) /\ g[1] \in ToSet(g)
    BY <2>1, <2>3 DEF ToSet
  <2>5. g[1] \in R /\ g[1].key = f[i].key
    BY <2>1, <2>4 DEF Same
  <2>6. ~(g[1].id < f[i].id)
    BY <1>3, <2>5 DEF Firsts
  <2>7. j = 1
    <3>. SUFFICES ASSUME j # 1 PROVE FALSE
      OBVIOUS
    <3>1. 1 < j
      BY <2>4
    <3>. QED BY <2>1, <2>3, <2>4, <2>6, <3>1 DEF Numbered
  <2>8. g # <<>>
    BY <2>4
  <2>. QED BY <2>1, <2>3, <2>7, <2>8 DEF Group
<1>7. gs \in Seq(Group) /\ Len(gs) = m /\ DOMAIN gs = 1..m
  <2>1. gs \in [1..m -> Group]
    BY <1>4, <1>6
  <2>. QED BY <1>3, <2>1, SeqDef
<1>8. FirstId \in [Group -> Int]
  <2>1. \A g \in Group : g[1] \in Row
    BY DEF Group
  <2>2. \A r \in Row : r.id \in Int
    BY DEF Row
  <2>. QED BY <2>1, <2>2 DEF FirstId
<1>9. Rises(gs, FirstId)
  <2>1. \A i \in 1..m : FirstId[gs[i]] = f[i].id
    BY <1>6 DEF FirstId
  <2>. QED BY <1>2, <1>3, <1>7, <2>1 DEF Rises, Numbered
<1>10. IsInjective(gs)
  <2>1. \A i, j \in 1..m : f[i] = f[j] => i = j
    BY <1>2, <1>3, RowsApart DEF IsInjective
  <2>. QED BY <1>6, <1>7, <2>1 DEF IsInjective
<1>11. gs \in Seq(Seq(Row))
  BY <1>7 DEF Group
<1>12. ToSet(gs) = {gs[i] : i \in 1..m}
  BY <1>7 DEF ToSet
<1>13. ASSUME NEW g \in ToSet(gs)
       PROVE  Numbered(g) /\ \E key \in KeysIn(R) : ToSet(g) = Same(R, key)
  <2>1. PICK i \in 1..m : g = gs[i]
    BY <1>12
  <2>2. f[i].key \in KeysIn(R)
    BY <1>3 DEF Firsts, KeysIn
  <2>. QED BY <1>5, <2>1, <2>2
<1>14. ASSUME NEW key \in KeysIn(R)
       PROVE  \E g \in ToSet(gs) : ToSet(g) = Same(R, key)
  <2>1. PICK r \in Firsts(R) : r.key = key
    BY <1>1, FirstExists
  <2>2. PICK i \in 1..m : f[i] = r
    BY <1>2, <1>3, <2>1 DEF ToSet
  <2>. QED BY <1>5, <1>12, <2>1, <2>2
<1>. QED BY <1>7, <1>8, <1>9, <1>10, <1>11, <1>13, <1>14 DEF Lists

-----------------------------------------------------------------------------
(* One group-by: its rows, and what it keeps of them.                     *)

(* The rows of the first k batches.                                        *)
ReadBy(batches, k) == ToSet(FlattenSeq(SubSeq(batches, 1, k)))

(* Each batch is numbered, above all those before it.                      *)
LEMMA BatchesFollow ==
  ASSUME NEW batches \in Input, Numbered(FlattenSeq(batches))
  PROVE  /\ ReadBy(batches, 0) = {} /\ ReadBy(batches, Len(batches)) = ToSet(FlattenSeq(batches))
         /\ FlattenSeq(batches) \in Seq(Row)
         /\ \A k \in 1..Len(batches) :
              /\ batches[k] \in Seq(Row) /\ Numbered(batches[k])
              /\ ReadBy(batches, k - 1) \subseteq Row
              /\ ReadBy(batches, k) = ReadBy(batches, k - 1) \union ToSet(batches[k])
              /\ \A x \in ReadBy(batches, k - 1), y \in ToSet(batches[k]) : x.id < y.id
<1>. DEFINE F(k) == FlattenSeq(SubSeq(batches, 1, k))
            n == Len(batches)
            Q == {j \in Nat : j <= n => Numbered(F(n - j))}
<1>1. n \in Nat /\ batches \in Seq(Seq(Row)) /\ \A k \in 1..n : batches[k] \in Seq(Row)
  BY DEF Input
<1>2. /\ F(0) = <<>> /\ F(n) = FlattenSeq(batches)
      /\ \A k \in 1..n : F(k) = F(k - 1) \o batches[k]
      /\ \A k \in 0..n : F(k) \in Seq(Row)
  BY <1>1, FlattenFront
<1>3. ASSUME NEW k \in 1..n
      PROVE  /\ F(k - 1) \in Seq(Row) /\ ToSet(F(k)) = ToSet(F(k - 1)) \union ToSet(batches[k])
             /\ Numbered(F(k)) => /\ Numbered(F(k - 1)) /\ Numbered(batches[k])
                                  /\ \A x \in ToSet(F(k - 1)), y \in ToSet(batches[k]) : x.id < y.id
  <2>1. k - 1 \in 0..n
    BY <1>1
  <2>2. F(k - 1) \in Seq(Row) /\ batches[k] \in Seq(Row) /\ F(k) = F(k - 1) \o batches[k]
    BY <1>1, <1>2, <2>1
  <2>. HIDE DEF F
  <2>3. \A u, v \in Seq(Row) :
          /\ ToSet(u \o v) = ToSet(u) \union ToSet(v)
          /\ Numbered(u \o v) => /\ Numbered(u) /\ Numbered(v)
                                 /\ \A x \in ToSet(u), y \in ToSet(v) : x.id < y.id
    BY RowsJoin
  <2>. QED BY <2>2, <2>3
<1>4. 0 \in Q
  <2>1. n - 0 = n
    BY <1>1
  <2>2. Numbered(F(n - 0))
    BY <1>2, <2>1
  <2>. QED BY <2>2
<1>5. ASSUME NEW j \in Nat, j \in Q PROVE j + 1 \in Q
  <2>. SUFFICES ASSUME j + 1 <= n PROVE Numbered(F(n - (j + 1)))
    OBVIOUS
  <2>. PICK k : k = n - j
    OBVIOUS
  <2>1. k \in 1..n /\ n - (j + 1) = k - 1 /\ j <= n
    BY <1>1
  <2>2. Numbered(F(k))
    BY <1>5, <2>1
  <2>. HIDE DEF F
  <2>. QED BY <1>3, <2>1, <2>2
<1>6. ASSUME NEW k \in 1..n PROVE Numbered(F(k))
  <2>1. Nat \subseteq Q
    <3>. HIDE DEF Q
    <3>. QED BY <1>4, <1>5, NaturalInduction
  <2>2. n - k \in Nat /\ n - k <= n /\ n - (n - k) = k
    BY <1>1
  <2>3. n - k \in Q
    BY <2>1, <2>2
  <2>4. Numbered(F(n - (n - k)))
    <3>. HIDE DEF F
    <3>. QED BY <2>2, <2>3
  <2>. QED BY <2>2, <2>4
<1>7. ReadBy(batches, 0) = {} /\ ReadBy(batches, n) = ToSet(FlattenSeq(batches))
      /\ FlattenSeq(batches) \in Seq(Row)
  <2>1. ToSet(<<>>) = {} /\ n \in 0..n
    BY <1>1 DEF ToSet
  <2>. QED BY <1>2, <2>1 DEF ReadBy
<1>8. \A k \in 0..n : ReadBy(batches, k) = ToSet(F(k))
  BY DEF ReadBy
<1>9. \A k \in 1..n : k \in 0..n /\ k - 1 \in 0..n
  BY <1>1
<1>10. \A u \in Seq(Row) : ToSet(u) \subseteq Row
  BY DEF ToSet
<1>. HIDE DEF F
<1>. QED BY <1>1, <1>3, <1>6, <1>7, <1>8, <1>9, <1>10

-----------------------------------------------------------------------------
(* The states of the group-by, batch by batch.                             *)
Drains(f, q, level, batches) ==
  f = [k \in 0..Len(batches) |->
         IF k = 0 THEN NoGroups(level) ELSE Consume(q, f[k - 1], batches[k])]

(* Drained is what such states end with,                                  *)
LEMMA DrainedIsChosen ==
  ASSUME NEW q, NEW level, NEW batches
  PROVE  Drained(q, level, batches) = (CHOOSE f : Drains(f, q, level, batches))[Len(batches)]
BY DEF Drained, Drains

(* and there are such states.                                             *)
LEMMA DrainExists ==
  ASSUME NEW q, NEW level, NEW batches, Len(batches) \in Nat
  PROVE  \E f : Drains(f, q, level, batches)
<1>. DEFINE Rec(f, k) == IF k = 0 THEN NoGroups(level) ELSE Consume(q, f[k - 1], batches[k])
            Q == {m \in Nat : \E f : f = [k \in 0..m |-> Rec(f, k)]}
<1>1. 0 \in Q
  <2>1. [k \in 0..0 |-> NoGroups(level)] = [k \in 0..0 |-> Rec([j \in 0..0 |-> NoGroups(level)], k)]
    OBVIOUS
  <2>. HIDE DEF Rec
  <2>. QED BY <2>1
<1>2. ASSUME NEW m \in Nat, m \in Q PROVE m + 1 \in Q
  <2>1. PICK f : f = [k \in 0..m |-> Rec(f, k)]
    BY <1>2
  <2>. DEFINE h == [k \in 0..(m + 1) |-> Rec(f, k)]
  <2>2. \A k \in 0..m : h[k] = f[k]
    <3>1. \A k \in 0..m : f[k] = Rec(f, k)
      <4>. HIDE DEF Rec
      <4>. QED BY <2>1
    <3>2. \A k \in 0..m : k \in 0..(m + 1)
      OBVIOUS
    <3>. HIDE DEF Rec
    <3>. QED BY <3>1, <3>2
  <2>3. \A k \in 0..(m + 1) : k # 0 => k - 1 \in 0..m
    OBVIOUS
  <2>4. \A k \in 0..(m + 1) : Rec(f, k) = Rec(h, k)
    <3>. HIDE DEF h
    <3>. QED BY <2>2, <2>3
  <2>5. h = [k \in 0..(m + 1) |-> Rec(h, k)]
    <3>1. h = [k \in 0..(m + 1) |-> Rec(f, k)]
      OBVIOUS
    <3>. HIDE DEF h, Rec
    <3>. QED BY <2>4, <3>1
  <2>. HIDE DEF h, Rec
  <2>. QED BY <2>5
<1>3. Len(batches) \in Q
  <2>. HIDE DEF Q
  <2>. QED BY <1>1, <1>2, NaturalInduction
<1>. QED BY <1>3 DEF Drains

(* What holds when the rows R have come.                                   *)
DrainHolds(q, level, s, R) ==
  /\ s \in [level : {level}, batch : Int, frozen : BOOLEAN, held : Seq(Row),
            files : [Parts -> Input]]
  /\ Numbered(s.held) /\ ToSet(s.held) \subseteq R
  /\ \A p \in Parts :
       /\ Numbered(FlattenSeq(s.files[p]))
       /\ \A r \in ToSet(FlattenSeq(s.files[p])) :
            r \in R /\ r.key \notin KeysOf(s.held) /\ q.hash[level][r.key] = p
  /\ \A r \in R : r \in ToSet(s.held) \/ \E p \in Parts : r \in ToSet(FlattenSeq(s.files[p]))
  /\ ~s.frozen => \A p \in Parts : s.files[p] = <<>>
  /\ level = MaxSpillDepth /\ ~q.alone => ~s.frozen

(* It holds of a group-by that has read nothing.                          *)
LEMMA DrainStarts ==
  ASSUME NEW q, NEW level
  PROVE  DrainHolds(q, level, NoGroups(level), {})
<1>1. FlattenSeq(<<>>) = <<>> /\ ToSet(<<>>) = {} /\ Numbered(<<>>) /\ <<>> \in Seq(Row) /\ <<>> \in Input
  BY DEF FlattenSeq, ToSet, Numbered, Input
<1>. QED BY <1>1 DEF DrainHolds, NoGroups

(* One batch more: the resident keys keep all their rows, and a row of    *)
(* any other key, all of which are later than the freeze, is in the file  *)
(* of its bucket, after those before it (aggconsume.go, extagg.go).       *)
LEMMA ConsumeHolds ==
  ASSUME NEW q, NEW level, \A key \in Keys : q.hash[level][key] \in Parts, q.alone \in BOOLEAN,
         NEW R, NEW s, DrainHolds(q, level, s, R),
         NEW in \in Seq(Row), Numbered(in), \A x \in R, y \in ToSet(in) : x.id < y.id
  PROVE  DrainHolds(q, level, Consume(q, s, in), R \union ToSet(in))
<1>. PICK I : I = ToSet(in)
  OBVIOUS
<1>. PICK t : t = Consume(q, s, in)
  OBVIOUS
<1>. DEFINE C == {r \in I : Resident(s, r)}
            W(p) == {r \in I : ~Resident(s, r) /\ q.hash[s.level][r.key] = p}
            a == Only(in, C)
            b(p) == Only(in, W(p))
            File(p) == FlattenSeq(s.files[p])
<1>0. /\ s \in [level : {level}, batch : Int, frozen : BOOLEAN, held : Seq(Row), files : [Parts -> Input]]
      /\ s.level = level /\ s.batch \in Int /\ s.frozen \in BOOLEAN /\ s.held \in Seq(Row)
      /\ s.files \in [Parts -> Input]
  BY DEF DrainHolds
<1>1. a \in Seq(Row) /\ ToSet(a) = C /\ Numbered(a)
  <2>1. I \intersect C = C
    OBVIOUS
  <2>. HIDE DEF C
  <2>. QED BY <2>1, RowsOnly
<1>2. \A p \in Parts : b(p) \in Seq(Row) /\ ToSet(b(p)) = W(p) /\ Numbered(b(p))
  <2>. SUFFICES ASSUME NEW p \in Parts
                PROVE  b(p) \in Seq(Row) /\ ToSet(b(p)) = W(p) /\ Numbered(b(p))
    OBVIOUS
  <2>1. I \intersect W(p) = W(p)
    OBVIOUS
  <2>. HIDE DEF W
  <2>. QED BY <2>1, RowsOnly
<1>3. /\ t = [level |-> level, batch |-> s.batch + 1, frozen |-> s.frozen \/ Freezes(q, s),
              held |-> s.held \o a, files |-> [p \in Parts |-> Written(s.files[p], b(p))]]
  BY <1>0 DEF Consume, RouteGroups
<1>4. ASSUME NEW p \in Parts
      PROVE  /\ t.files[p] \in Input /\ File(p) \in Seq(Row)
             /\ ToSet(FlattenSeq(t.files[p])) = ToSet(File(p)) \union W(p)
             /\ Numbered(FlattenSeq(t.files[p]))
  <2>1. s.files[p] \in Seq(Seq(Row)) /\ b(p) \in Seq(Row) /\ t.files[p] = Written(s.files[p], b(p))
    BY <1>0, <1>2, <1>3 DEF Input
  <2>2. /\ t.files[p] \in Seq(Seq(Row)) /\ File(p) \in Seq(Row)
        /\ FlattenSeq(t.files[p]) = File(p) \o b(p)
    <3>. HIDE DEF b
    <3>1. \A file \in Seq(Seq(Row)), rows \in Seq(Row) :
            /\ Written(file, rows) \in Seq(Seq(Row)) /\ FlattenSeq(file) \in Seq(Row)
            /\ FlattenSeq(Written(file, rows)) = FlattenSeq(file) \o rows
      BY WrittenAdds
    <3>. QED BY <2>1, <3>1
  <2>3. Numbered(File(p)) /\ Numbered(b(p)) /\ ToSet(b(p)) = W(p) /\ ToSet(File(p)) \subseteq R
    BY <1>2 DEF DrainHolds
  <2>4. \A x \in ToSet(File(p)), y \in ToSet(b(p)) : x.id < y.id
    BY <2>3
  <2>. HIDE DEF File, b, W
  <2>5. /\ ToSet(File(p) \o b(p)) = ToSet(File(p)) \union ToSet(b(p))
        /\ Numbered(File(p) \o b(p))
    BY <2>1, <2>2, <2>3, <2>4, RowsJoin
  <2>. QED BY <2>2, <2>3, <2>5 DEF Input
<1>5. t.held \in Seq(Row) /\ ToSet(t.held) = ToSet(s.held) \union C /\ Numbered(t.held)
  <2>1. Numbered(s.held) /\ ToSet(s.held) \subseteq R /\ \A x \in ToSet(s.held), y \in C : x.id < y.id
    BY DEF DrainHolds
  <2>2. t.held = s.held \o a
    BY <1>3
  <2>. HIDE DEF a, C
  <2>. QED BY <1>0, <1>1, <2>1, <2>2, RowsJoin
<1>6. t \in [level : {level}, batch : Int, frozen : BOOLEAN, held : Seq(Row), files : [Parts -> Input]]
  <2>1. Freezes(q, s) \in BOOLEAN
    BY DEF Freezes
  <2>2. t.files = [p \in Parts |-> Written(s.files[p], b(p))] /\ \A p \in Parts : t.files[p] \in Input
    BY <1>3, <1>4
  <2>3. t.files \in [Parts -> Input]
    BY <2>2
  <2>. QED BY <1>0, <1>3, <1>5, <2>1, <2>3
<1>7. ASSUME ~s.frozen
      PROVE  /\ C = I /\ (\A p \in Parts : W(p) = {} /\ t.files[p] = <<>> /\ ToSet(File(p)) = {})
  <2>1. \A r \in I : Resident(s, r)
    BY <1>7 DEF Resident
  <2>2. \A p \in Parts : s.files[p] = <<>> /\ W(p) = {}
    BY <1>7, <2>1 DEF DrainHolds
  <2>3. \A u \in Seq(Row) : ToSet(u) = {} => u = <<>>
    <3>. SUFFICES ASSUME NEW u \in Seq(Row), u # <<>> PROVE ToSet(u) # {}
      OBVIOUS
    <3>1. 1 \in DOMAIN u
      OBVIOUS
    <3>. QED BY <3>1 DEF ToSet
  <2>4. ASSUME NEW p \in Parts PROVE t.files[p] = <<>> /\ ToSet(File(p)) = {}
    <3>1. b(p) = <<>>
      <4>. HIDE DEF b
      <4>. QED BY <1>2, <2>2, <2>3
    <3>2. t.files[p] = Written(s.files[p], b(p))
      BY <1>3
    <3>3. FlattenSeq(<<>>) = <<>> /\ ToSet(<<>>) = {}
      BY DEF FlattenSeq, ToSet
    <3>. HIDE DEF b
    <3>. QED BY <2>2, <3>1, <3>2, <3>3 DEF Written
  <2>. QED BY <2>1, <2>2, <2>4
<1>8. ASSUME s.frozen
      PROVE  /\ C = {r \in I : r.key \in KeysOf(s.held)}
             /\ KeysOf(t.held) = KeysOf(s.held)
             /\ \A p \in Parts : W(p) = {r \in I : r.key \notin KeysOf(s.held) /\ q.hash[level][r.key] = p}
  <2>1. \A r \in I : Resident(s, r) <=> r.key \in KeysOf(s.held)
    BY <1>8 DEF Resident
  <2>2. C = {r \in I : r.key \in KeysOf(s.held)}
    BY <2>1
  <2>3. KeysOf(t.held) = KeysOf(s.held)
    BY <1>5, <2>2 DEF KeysOf
  <2>. QED BY <1>0, <2>1, <2>2, <2>3
<1>9. ASSUME NEW p \in Parts, NEW r \in ToSet(FlattenSeq(t.files[p]))
      PROVE  r \in R \union I /\ r.key \notin KeysOf(t.held) /\ q.hash[level][r.key] = p
  <2>1. CASE ~s.frozen
    BY <1>4, <1>7, <2>1
  <2>2. CASE s.frozen
    <3>1. CASE r \in ToSet(File(p))
      BY <1>8, <2>2, <3>1 DEF DrainHolds
    <3>2. CASE r \in W(p)
      BY <1>8, <2>2, <3>2
    <3>. HIDE DEF File, W
    <3>. QED BY <1>4, <3>1, <3>2
  <2>. QED BY <1>0, <2>1, <2>2
<1>10. ASSUME NEW r \in R \union I
       PROVE  r \in ToSet(t.held) \/ \E p \in Parts : r \in ToSet(FlattenSeq(t.files[p]))
  <2>1. CASE r \in R
    <3>1. r \in ToSet(s.held) \/ \E p \in Parts : r \in ToSet(File(p))
      BY <2>1 DEF DrainHolds
    <3>. HIDE DEF File, W, C
    <3>. QED BY <1>4, <1>5, <3>1
  <2>2. CASE r \in I /\ Resident(s, r)
    BY <1>5, <2>2
  <2>3. CASE r \in I /\ ~Resident(s, r)
    <3>1. r.key \in Keys
      <4>1. r \in Row
        BY <2>3 DEF ToSet
      <4>. QED BY <4>1 DEF Row
    <3>2. q.hash[level][r.key] \in Parts
      BY <3>1
    <3>3. r \in W(q.hash[level][r.key])
      BY <1>0, <2>3
    <3>. HIDE DEF W
    <3>. QED BY <1>4, <3>2, <3>3
  <2>. QED BY <2>1, <2>2, <2>3
<1>11. ~t.frozen => \A p \in Parts : t.files[p] = <<>>
  <2>1. ~t.frozen => ~s.frozen
    BY <1>0, <1>3
  <2>. QED BY <1>7, <2>1
<1>12. level = MaxSpillDepth /\ ~q.alone => ~t.frozen
  <2>. SUFFICES ASSUME level = MaxSpillDepth, ~q.alone PROVE ~t.frozen
    OBVIOUS
  <2>1. ~s.frozen
    BY DEF DrainHolds
  <2>2. ~Freezes(q, s)
    <3>1. ~(s.level < MaxSpillDepth)
      BY <1>0, KeysAssumption
    <3>. QED BY <3>1 DEF Freezes
  <2>. QED BY <1>3, <2>1, <2>2
<1>13. ToSet(t.held) \subseteq R \union I
  BY <1>5 DEF DrainHolds
<1>. HIDE DEF C, W, a, b, File
<1>. QED BY <1>4, <1>5, <1>6, <1>9, <1>10, <1>11, <1>12, <1>13 DEF DrainHolds

(* It holds of the whole input at its end.                                 *)
LEMMA DrainedHolds ==
  ASSUME NEW q, NEW level, \A key \in Keys : q.hash[level][key] \in Parts, q.alone \in BOOLEAN,
         NEW batches \in Input, Numbered(FlattenSeq(batches))
  PROVE  DrainHolds(q, level, Drained(q, level, batches), ToSet(FlattenSeq(batches)))
<1>. PICK n : n = Len(batches)
  OBVIOUS
<1>0. n \in Nat
  BY DEF Input
<1>1. PICK f : f = CHOOSE g : Drains(g, q, level, batches)
  OBVIOUS
<1>2. Drains(f, q, level, batches)
  BY <1>0, <1>1, DrainExists
<1>3. Drained(q, level, batches) = f[n]
  BY <1>1, DrainedIsChosen
<1>. DEFINE Q == {k \in Nat : k <= n => DrainHolds(q, level, f[k], ReadBy(batches, k))}
<1>4. 0 \in Q
  <2>1. f[0] = NoGroups(level)
    BY <1>0, <1>2 DEF Drains
  <2>2. ReadBy(batches, 0) = {}
    BY BatchesFollow
  <2>3. DrainHolds(q, level, f[0], ReadBy(batches, 0))
    BY <2>1, <2>2, DrainStarts
  <2>. QED BY <2>3
<1>5. ASSUME NEW k \in Nat, k \in Q PROVE k + 1 \in Q
  <2>. SUFFICES ASSUME k + 1 <= n
                PROVE  DrainHolds(q, level, f[k + 1], ReadBy(batches, k + 1))
    OBVIOUS
  <2>1. k + 1 \in 1..n /\ k + 1 \in 0..n /\ k + 1 # 0 /\ (k + 1) - 1 = k /\ k <= n
    BY <1>0
  <2>. PICK in, R : in = batches[k + 1] /\ R = ReadBy(batches, k)
    OBVIOUS
  <2>2. DrainHolds(q, level, f[k], R)
    BY <1>5, <2>1
  <2>3. f[k + 1] = Consume(q, f[k], in)
    BY <1>2, <2>1 DEF Drains
  <2>4. /\ in \in Seq(Row) /\ Numbered(in) /\ ReadBy(batches, k + 1) = R \union ToSet(in)
        /\ \A x \in R, y \in ToSet(in) : x.id < y.id
    BY <2>1, BatchesFollow
  <2>5. DrainHolds(q, level, Consume(q, f[k], in), R \union ToSet(in))
    BY <2>2, <2>4, ConsumeHolds
  <2>. QED BY <2>3, <2>4, <2>5
<1>6. n \in Q
  <2>. HIDE DEF Q
  <2>. QED BY <1>0, <1>4, <1>5, NaturalInduction
<1>7. DrainHolds(q, level, f[n], ReadBy(batches, n))
  BY <1>0, <1>6
<1>8. ReadBy(batches, n) = ToSet(FlattenSeq(batches))
  BY BatchesFollow
<1>. QED BY <1>3, <1>7, <1>8

-----------------------------------------------------------------------------
(* A group-by and those of its files, level by level.                     *)

(* The groups of the i-th file of s, by those c has a level deeper.        *)
FileGroups(c, level, s, i) ==
  CASE s.files[i - 1] = <<>> -> [groups |-> <<>>, refused |-> FALSE]
    [] s.files[i - 1] # <<>> /\ level = MaxSpillDepth -> [groups |-> <<>>, refused |-> TRUE]
    [] OTHER -> c[level + 1][s.files[i - 1]]

(* What is gathered at a level.                                            *)
Gathered(q, c, level, batches) ==
  LET s    == Drained(q, level, batches)
      subs == [i \in 1..NParts |-> FileGroups(c, level, s, i)]
  IN [groups  |-> GroupsOf(s.held) \o FlattenSeq([i \in 1..NParts |-> subs[i].groups]),
      spilled |-> \E p \in Parts : s.files[p] # <<>>,
      refused |-> \E i \in 1..NParts : subs[i].refused]

Collects(q, c) == c = [level \in Levels |-> [batches \in Input |-> Gathered(q, c, level, batches)]]

(* Collected is one of those,                                             *)
LEMMA CollectedIsChosen ==
  ASSUME NEW q
  PROVE  Collected(q) = CHOOSE c : Collects(q, c)
BY DEF Collected, Collects, Gathered, FileGroups

(* and there is one: the levels are defined from the last one up.         *)
LEMMA CollectExists ==
  ASSUME NEW q
  PROVE  \E c : Collects(q, c)
<1>. DEFINE M == MaxSpillDepth
            At(c, level) == [batches \in Input |-> Gathered(q, c, level, batches)]
            Q == {m \in Nat : m <= M => \E c : c = [level \in (M - m)..M |-> At(c, level)]}
<1>0. M \in Nat
  BY KeysAssumption
<1>1. ASSUME NEW c, NEW d, NEW level \in Int, level # M => c[level + 1] = d[level + 1]
      PROVE  At(c, level) = At(d, level)
  <2>1. ASSUME NEW s, NEW i PROVE FileGroups(c, level, s, i) = FileGroups(d, level, s, i)
    <3>1. CASE level = M
      BY <3>1 DEF FileGroups
    <3>2. CASE level # M
      BY <1>1, <3>2 DEF FileGroups
    <3>. QED BY <3>1, <3>2
  <2>2. \A batches \in Input : Gathered(q, c, level, batches) = Gathered(q, d, level, batches)
    BY <2>1 DEF Gathered
  <2>. QED BY <2>2
<1>2. 0 \in Q
  <2>. DEFINE h == [level \in (M - 0)..M |-> At(<<>>, level)]
  <2>1. \A level \in (M - 0)..M : level \in Int /\ level = M
    BY <1>0
  <2>2. \A level \in (M - 0)..M : At(<<>>, level) = At(h, level)
    <3>. HIDE DEF h, At
    <3>. QED BY <1>1, <2>1
  <2>3. h = [level \in (M - 0)..M |-> At(h, level)]
    <3>1. h = [level \in (M - 0)..M |-> At(<<>>, level)]
      OBVIOUS
    <3>. HIDE DEF h, At
    <3>. QED BY <2>2, <3>1
  <2>. HIDE DEF h, At
  <2>. QED BY <2>3
<1>3. ASSUME NEW m \in Nat, m \in Q PROVE m + 1 \in Q
  <2>. SUFFICES ASSUME m + 1 <= M
                PROVE  \E c : c = [level \in (M - (m + 1))..M |-> At(c, level)]
    OBVIOUS
  <2>0. m <= M
    BY <1>0
  <2>1. PICK f : f = [level \in (M - m)..M |-> At(f, level)]
    BY <1>3, <2>0
  <2>. DEFINE h == [level \in (M - (m + 1))..M |-> At(f, level)]
  <2>2. \A level \in (M - m)..M : h[level] = f[level]
    <3>1. \A level \in (M - m)..M : f[level] = At(f, level)
      <4>. HIDE DEF At
      <4>. QED BY <2>1
    <3>2. \A level \in (M - m)..M : level \in (M - (m + 1))..M
      BY <1>0
    <3>3. \A level \in (M - (m + 1))..M : h[level] = At(f, level)
      OBVIOUS
    <3>. HIDE DEF h, At
    <3>. QED BY <3>1, <3>2, <3>3
  <2>3. \A level \in (M - (m + 1))..M : level \in Int /\ (level # M => level + 1 \in (M - m)..M)
    BY <1>0
  <2>4. \A level \in (M - (m + 1))..M : At(f, level) = At(h, level)
    <3>. SUFFICES ASSUME NEW level \in (M - (m + 1))..M PROVE At(f, level) = At(h, level)
      OBVIOUS
    <3>1. level \in Int /\ (level # M => f[level + 1] = h[level + 1])
      <4>. HIDE DEF h
      <4>. QED BY <2>2, <2>3
    <3>. HIDE DEF h, At
    <3>. QED BY <1>1, <3>1
  <2>5. h = [level \in (M - (m + 1))..M |-> At(h, level)]
    <3>1. h = [level \in (M - (m + 1))..M |-> At(f, level)]
      OBVIOUS
    <3>. HIDE DEF h, At
    <3>. QED BY <2>4, <3>1
  <2>. HIDE DEF h, At
  <2>. QED BY <2>5
<1>4. M \in Q
  <2>. HIDE DEF Q
  <2>. QED BY <1>0, <1>2, <1>3, NaturalInduction
<1>5. PICK c : c = [level \in (M - M)..M |-> At(c, level)]
  <2>. HIDE DEF At
  <2>. QED BY <1>0, <1>4
<1>6. (M - M)..M = Levels
  BY <1>0 DEF Levels
<1>. QED BY <1>5, <1>6 DEF Collects

(* At each level, what was collected is what is gathered from the next.    *)
LEMMA CollectedIsGathered ==
  ASSUME NEW q, NEW level \in Levels, NEW batches \in Input
  PROVE  Collected(q)[level][batches] = Gathered(q, Collected(q), level, batches)
<1>. PICK c : c = Collected(q)
  OBVIOUS
<1>1. Collects(q, c)
  BY CollectedIsChosen, CollectExists
<1>2. c[level][batches] = Gathered(q, c, level, batches)
  BY <1>1 DEF Collects
<1>. QED BY <1>2

(* What a group-by of numbered batches is to answer.                       *)
Groups(q, batches, all) ==
  /\ ~q.alone => ~all.refused
  /\ ~all.refused => Lists(all.groups, ToSet(FlattenSeq(batches)))

(* No group of no rows.                                                    *)
LEMMA ListsNone == Lists(<<>>, {})
BY DEF Lists, KeysIn, IsInjective, ToSet

(* The groups of one file after another are those of all their rows, if    *)
(* no key is in two of them.                                               *)
LEMMA ListsFlatten ==
  ASSUME NEW gs \in Seq(Seq(Seq(Row))), NEW F, \A i \in 1..Len(gs) : Lists(gs[i], F[i]),
         \A i, j \in 1..Len(gs) : i # j => KeysIn(F[i]) \intersect KeysIn(F[j]) = {}
  PROVE  Lists(FlattenSeq(gs), UNION {F[i] : i \in 1..Len(gs)})
<1>. PICK n : n = Len(gs)
  OBVIOUS
<1>1. n \in Nat
  OBVIOUS
<1>. DEFINE G(k) == FlattenSeq(SubSeq(gs, 1, k))
            U(k) == UNION {F[i] : i \in 1..k}
            Q == {k \in Nat : k <= n => Lists(G(k), U(k))}
<1>2. G(0) = <<>> /\ G(n) = FlattenSeq(gs) /\ \A k \in 1..n : G(k) = G(k - 1) \o gs[k]
  BY <1>1, FlattenFront
<1>3. 0 \in Q
  <2>1. U(0) = {}
    OBVIOUS
  <2>2. Lists(G(0), U(0))
    <3>. HIDE DEF G, U
    <3>. QED BY <1>2, <2>1, ListsNone
  <2>. QED BY <2>2
<1>4. ASSUME NEW k \in Nat, k \in Q PROVE k + 1 \in Q
  <2>. SUFFICES ASSUME k + 1 <= n PROVE Lists(G(k + 1), U(k + 1))
    OBVIOUS
  <2>1. k + 1 \in 1..n /\ (k + 1) - 1 = k /\ k <= n
    OBVIOUS
  <2>2. Lists(G(k), U(k)) /\ Lists(gs[k + 1], F[k + 1]) /\ G(k + 1) = G(k) \o gs[k + 1]
    BY <1>2, <1>4, <2>1
  <2>3. U(k + 1) = U(k) \union F[k + 1]
    <3>1. \A i : i \in 1..(k + 1) <=> i \in 1..k \/ i = k + 1
      BY ONLY k \in Nat
    <3>. QED BY <3>1
  <2>4. KeysIn(U(k)) \intersect KeysIn(F[k + 1]) = {}
    <3>1. \A i \in 1..k : i \in 1..n /\ i # k + 1
      BY <2>1
    <3>2. \A i \in 1..k : KeysIn(F[i]) \intersect KeysIn(F[k + 1]) = {}
      BY <2>1, <3>1
    <3>3. \A x \in KeysIn(U(k)) : \E i \in 1..k : x \in KeysIn(F[i])
      BY DEF KeysIn
    <3>. HIDE DEF U
    <3>. QED BY <3>2, <3>3
  <2>5. Lists(G(k) \o gs[k + 1], U(k) \union F[k + 1])
    <3>. HIDE DEF G, U
    <3>. QED BY <2>2, <2>4, ListsJoin
  <2>. QED BY <2>2, <2>3, <2>5
<1>5. n \in Q
  <2>. HIDE DEF Q
  <2>1. \A k \in Nat : k \in Q
    BY ONLY <1>3, <1>4, NaturalInduction
  <2>. QED BY ONLY <1>1, <2>1
<1>6. Lists(G(n), U(n))
  BY <1>5
<1>. QED BY <1>2, <1>6

(* A level answers right if the next one does.                             *)
LEMMA GatheredHolds ==
  ASSUME NEW q, NEW c, NEW level \in Levels, \A key \in Keys : q.hash[level][key] \in Parts,
         q.alone \in BOOLEAN, NEW batches \in Input, Numbered(FlattenSeq(batches)),
         level # MaxSpillDepth =>
           \A b \in Input : Numbered(FlattenSeq(b)) => Groups(q, b, c[level + 1][b])
  PROVE  Groups(q, batches, Gathered(q, c, level, batches))
<1>. PICK s : s = Drained(q, level, batches)
  OBVIOUS
<1>. PICK R : R = ToSet(FlattenSeq(batches))
  OBVIOUS
<1>1. DrainHolds(q, level, s, R)
  BY DrainedHolds
<1>. DEFINE sub(i) == FileGroups(c, level, s, i)
<1>. PICK F : F = [i \in 1..NParts |-> ToSet(FlattenSeq(s.files[i - 1]))]
  OBVIOUS
<1>. PICK gs : gs = [i \in 1..NParts |-> sub(i).groups]
  OBVIOUS
<1>. PICK all : all = Gathered(q, c, level, batches)
  OBVIOUS
<1>2. /\ all.groups = GroupsOf(s.held) \o FlattenSeq(gs)
      /\ all.refused <=> \E i \in 1..NParts : sub(i).refused
  BY DEF Gathered
<1>3. NParts \in Nat /\ (\A i \in 1..NParts : i - 1 \in Parts)
      /\ \A p \in Parts : p + 1 \in 1..NParts /\ (p + 1) - 1 = p
  BY KeysAssumption DEF Parts
<1>4. ASSUME NEW i \in 1..NParts
      PROVE  /\ ~q.alone => ~sub(i).refused
             /\ ~sub(i).refused => Lists(gs[i], F[i])
  <2>. PICK file : file = s.files[i - 1]
    OBVIOUS
  <2>0. gs[i] = sub(i).groups /\ F[i] = ToSet(FlattenSeq(file))
    OBVIOUS
  <2>1. CASE file = <<>>
    <3>1. sub(i) = [groups |-> <<>>, refused |-> FALSE]
      BY <2>1 DEF FileGroups
    <3>2. F[i] = {}
      <4>1. FlattenSeq(<<>>) = <<>>
        BY DEF FlattenSeq
      <4>2. ToSet(<<>>) = {}
        BY DEF ToSet
      <4>. HIDE DEF sub
      <4>. QED BY <2>0, <2>1, <4>1, <4>2
    <3>. HIDE DEF sub
    <3>3. gs[i] = <<>> /\ ~sub(i).refused
      BY <2>0, <3>1
    <3>. QED BY <3>2, <3>3, ListsNone
  <2>2. CASE file # <<>> /\ level = MaxSpillDepth
    <3>1. sub(i).refused
      BY <2>2 DEF FileGroups
    <3>2. s.frozen
      BY <1>1, <1>3, <2>2 DEF DrainHolds
    <3>3. q.alone
      BY <1>1, <2>2, <3>2 DEF DrainHolds
    <3>. HIDE DEF sub
    <3>. QED BY <3>1, <3>3
  <2>3. CASE file # <<>> /\ level # MaxSpillDepth
    <3>1. sub(i) = c[level + 1][file]
      BY <2>3 DEF FileGroups
    <3>2. file \in Input /\ Numbered(FlattenSeq(file))
      BY <1>1, <1>3 DEF DrainHolds
    <3>3. Groups(q, file, c[level + 1][file])
      BY <2>3, <3>2
    <3>. HIDE DEF sub
    <3>. QED BY <2>0, <3>1, <3>3 DEF Groups
  <2>. QED BY <2>1, <2>2, <2>3
<1>5. ~q.alone => ~all.refused
  <2>. HIDE DEF sub
  <2>. QED BY <1>2, <1>4
<1>6. ASSUME ~all.refused PROVE Lists(all.groups, R)
  <2>1. \A i \in 1..NParts : Lists(gs[i], F[i])
    <3>. HIDE DEF sub
    <3>. QED BY <1>2, <1>4, <1>6
  <2>2. gs = [i \in 1..NParts |-> gs[i]]
    <3>. HIDE DEF sub
    <3>. QED OBVIOUS
  <2>3. ASSUME NEW i \in 1..NParts, NEW j \in 1..NParts, i # j
        PROVE  KeysIn(F[i]) \intersect KeysIn(F[j]) = {}
    <3>1. \A x \in F[i] : q.hash[level][x.key] = i - 1
      BY <1>1, <1>3 DEF DrainHolds
    <3>2. \A x \in F[j] : q.hash[level][x.key] = j - 1
      BY <1>1, <1>3 DEF DrainHolds
    <3>3. i - 1 # j - 1
      BY <2>3
    <3>. QED BY <3>1, <3>2, <3>3 DEF KeysIn
  <2>4. Lists(FlattenSeq(gs), UNION {F[i] : i \in 1..NParts})
    <3>. HIDE DEF sub
    <3>1. gs \in Seq(Seq(Seq(Row))) /\ Len(gs) = NParts
      <4>1. \A i \in 1..NParts : gs[i] \in Seq(Seq(Row))
        BY <2>1 DEF Lists
      <4>2. gs \in [1..NParts -> Seq(Seq(Row))]
        BY <2>2, <4>1
      <4>. QED BY <1>3, <4>2, SeqDef
    <3>2. /\ \A i \in 1..Len(gs) : Lists(gs[i], F[i])
          /\ \A i, j \in 1..Len(gs) : i # j => KeysIn(F[i]) \intersect KeysIn(F[j]) = {}
      BY <2>1, <2>3, <3>1
    <3>3. Lists(FlattenSeq(gs), UNION {F[i] : i \in 1..Len(gs)})
      <4>1. gs \in Seq(Seq(Seq(Row)))
        BY <3>1
      <4>2. \A i \in 1..Len(gs) : Lists(gs[i], F[i])
        BY <3>2
      <4>3. \A i, j \in 1..Len(gs) : i # j => KeysIn(F[i]) \intersect KeysIn(F[j]) = {}
        BY <3>2
      <4>. QED BY ONLY <4>1, <4>2, <4>3, ListsFlatten
    <3>. QED BY <3>1, <3>3
  <2>. PICK V : V = UNION {F[i] : i \in 1..NParts}
    OBVIOUS
  <2>5. Lists(GroupsOf(s.held), ToSet(s.held))
    <3>1. s.held \in Seq(Row) /\ Numbered(s.held)
      BY <1>1 DEF DrainHolds
    <3>. QED BY <3>1, GroupsOfLists
  <2>6. KeysIn(ToSet(s.held)) \intersect KeysIn(V) = {}
    <3>1. \A i \in 1..NParts : \A x \in F[i] : x.key \notin KeysOf(s.held)
      BY <1>1, <1>3 DEF DrainHolds
    <3>. QED BY <3>1 DEF KeysIn, KeysOf
  <2>7. ToSet(s.held) \union V = R
    <3>1. ToSet(s.held) \subseteq R
      BY <1>1 DEF DrainHolds
    <3>2. \A i \in 1..NParts : F[i] \subseteq R
      BY <1>1, <1>3 DEF DrainHolds
    <3>3. ASSUME NEW r \in R, r \notin ToSet(s.held) PROVE r \in V
      <4>1. PICK p \in Parts : r \in ToSet(FlattenSeq(s.files[p]))
        BY <1>1, <3>3 DEF DrainHolds
      <4>2. r \in F[p + 1]
        BY <1>3, <4>1
      <4>. QED BY <1>3, <4>2
    <3>. QED BY <3>1, <3>2, <3>3
  <2>. HIDE DEF sub
  <2>8. Lists(GroupsOf(s.held) \o FlattenSeq(gs), ToSet(s.held) \union V)
    BY <2>4, <2>5, <2>6, ListsJoin
  <2>. QED BY <1>2, <2>7, <2>8
<1>. QED BY <1>5, <1>6 DEF Groups

(* Every level answers right.                                              *)
LEMMA CollectedHolds ==
  ASSUME NEW q, \A level \in Levels, key \in Keys : q.hash[level][key] \in Parts,
         q.alone \in BOOLEAN, NEW batches \in Input, Numbered(FlattenSeq(batches))
  PROVE  Groups(q, batches, Collected(q)[0][batches])
<1>. DEFINE M == MaxSpillDepth
            Right(level) == \A b \in Input :
                              Numbered(FlattenSeq(b)) => Groups(q, b, Collected(q)[level][b])
            Q == {m \in Nat : m <= M => Right(M - m)}
<1>0. M \in Nat /\ Levels = 0..M
  BY KeysAssumption DEF Levels
<1>1. ASSUME NEW level \in Levels, level # M => Right(level + 1) PROVE Right(level)
  <2>. SUFFICES ASSUME NEW b \in Input, Numbered(FlattenSeq(b))
                PROVE  Groups(q, b, Collected(q)[level][b])
    OBVIOUS
  <2>1. Groups(q, b, Gathered(q, Collected(q), level, b))
    <3>1. \A key \in Keys : q.hash[level][key] \in Parts
      OBVIOUS
    <3>. QED BY <1>1, <3>1, GatheredHolds
  <2>. QED BY <2>1, CollectedIsGathered
<1>2. 0 \in Q
  <2>1. M - 0 = M /\ M \in Levels
    BY <1>0
  <2>2. Right(M - 0)
    <3>. HIDE DEF Right
    <3>. QED BY <1>1, <2>1
  <2>. QED BY <2>2
<1>3. ASSUME NEW m \in Nat, m \in Q PROVE m + 1 \in Q
  <2>. SUFFICES ASSUME m + 1 <= M PROVE Right(M - (m + 1))
    OBVIOUS
  <2>1. M - (m + 1) \in Levels /\ (M - (m + 1)) + 1 = M - m /\ m <= M
    BY <1>0
  <2>2. Right(M - m)
    BY <1>3, <2>1
  <2>. HIDE DEF Right
  <2>. QED BY <1>1, <2>1, <2>2
<1>4. M \in Q
  <2>. HIDE DEF Q
  <2>. QED BY <1>0, <1>2, <1>3, NaturalInduction
<1>5. Right(0)
  <2>1. M - M = 0 /\ M <= M
    BY <1>0
  <2>2. Right(M - M)
    <3>. HIDE DEF Right
    <3>. QED BY <1>4, <2>1
  <2>. HIDE DEF Right
  <2>. QED BY <2>1, <2>2
<1>. QED BY <1>5

-----------------------------------------------------------------------------
(* The order of the groups, and the group-by's theorem.                   *)

(* No two elements of a rising sequence have one number.                   *)
LEMMA RisesApart ==
  ASSUME NEW S, NEW n \in [S -> Int], NEW s \in Seq(S), Rises(s, n)
  PROVE  \A x, y \in ToSet(s) : n[x] = n[y] => x = y
<1>1. DOMAIN s = 1..Len(s) /\ Len(s) \in Nat /\ \A i \in 1..Len(s) : n[s[i]] \in Int
  OBVIOUS
<1>2. ToSet(s) = {s[i] : i \in 1..Len(s)}
  BY <1>1 DEF ToSet
<1>3. ASSUME NEW i \in 1..Len(s), NEW j \in 1..Len(s), n[s[i]] = n[s[j]] PROVE i = j
  <2>. SUFFICES ASSUME i # j PROVE FALSE
    OBVIOUS
  <2>1. i < j \/ j < i
    OBVIOUS
  <2>2. n[s[i]] < n[s[j]] \/ n[s[j]] < n[s[i]]
    BY <1>1, <2>1 DEF Rises
  <2>. QED BY <1>1, <1>3, <2>2
<1>4. ASSUME NEW x \in ToSet(s), NEW y \in ToSet(s), n[x] = n[y] PROVE x = y
  <2>1. PICK i \in 1..Len(s) : x = s[i]
    BY <1>2
  <2>2. PICK j \in 1..Len(s) : y = s[j]
    BY <1>2
  <2>3. i = j
    BY <1>3, <1>4, <2>1, <2>2
  <2>. QED BY <2>1, <2>2, <2>3
<1>. QED BY <1>4

(* By the ordinals of their first rows the groups are in the order in      *)
(* which one group-by that spills nothing has them.                        *)
LEMMA FirstSeenRestores ==
  ASSUME NEW u \in Seq(Row), Numbered(u), NEW gs, Lists(gs, ToSet(u))
  PROVE  FirstSeen(gs) = GroupsOf(u)
<1>. PICK whole : whole = GroupsOf(u)
  OBVIOUS
<1>1. /\ Lists(whole, ToSet(u)) /\ FirstId \in [Group -> Int]
      /\ whole \in Seq(Group) /\ Rises(whole, FirstId)
  BY GroupsOfLists
<1>2. ToSet(gs) = ToSet(whole)
  BY <1>1, ListsAgree
<1>3. gs \in Seq(Group)
  <2>1. gs \in Seq(Seq(Row)) /\ ToSet(whole) \subseteq Group
    BY <1>1 DEF Lists, ToSet
  <2>2. Len(gs) \in Nat /\ DOMAIN gs = 1..Len(gs) /\ \A i \in 1..Len(gs) : gs[i] \in ToSet(gs)
    BY <2>1 DEF ToSet
  <2>3. gs \in [1..Len(gs) -> Group]
    <3>1. PICK k \in Nat : gs \in [1..k -> Seq(Row)]
      BY <2>1, SeqDef
    <3>2. \A i \in 1..Len(gs) : gs[i] \in Group
      BY <1>2, <2>1, <2>2
    <3>. QED BY <2>2, <3>1, <3>2
  <2>. QED BY <2>2, <2>3, SeqDef
<1>. PICK number : number = [g \in DOMAIN gs |-> gs[g][1].id]
  OBVIOUS
<1>4. \A g \in DOMAIN gs : gs[g] \in Group /\ gs[g] \in ToSet(gs)
  BY <1>3 DEF ToSet
<1>5. number = [g \in DOMAIN gs |-> FirstId[gs[g]]]
  BY <1>4 DEF FirstId
<1>6. \A i, j \in DOMAIN gs : i # j => FirstId[gs[i]] # FirstId[gs[j]]
  <2>. SUFFICES ASSUME NEW i \in DOMAIN gs, NEW j \in DOMAIN gs, FirstId[gs[i]] = FirstId[gs[j]]
                PROVE  i = j
    OBVIOUS
  <2>1. \A x, y \in ToSet(whole) : FirstId[x] = FirstId[y] => x = y
    BY <1>1, RisesApart
  <2>2. gs[i] = gs[j]
    BY <1>2, <1>4, <2>1
  <2>. QED BY <2>2 DEF Lists, IsInjective
<1>. PICK t : t = [k \in DOMAIN ByNumber(number) |-> gs[ByNumber(number)[k]]]
  OBVIOUS
<1>7. t \in Seq(Group) /\ ToSet(t) = ToSet(gs) /\ Rises(t, FirstId)
  <2>1. FirstId \in [Group -> Int]
    BY <1>1
  <2>2. Numbers(number, gs, FirstId) /\ SortsBy(t, gs, number)
    BY <1>5, <1>6 DEF Numbers, SortsBy
  <2>. QED BY ONLY <1>3, <2>1, <2>2, SortedRises
<1>8. t = whole
  BY <1>1, <1>2, <1>7, RisingAgree
<1>9. FirstSeen(gs) = t
  BY DEF FirstSeen
<1>. QED BY <1>8, <1>9

(* A group-by of numbered batches answers right.                           *)
LEMMA GroupedExact ==
  ASSUME NEW q, \A level \in Levels, key \in Keys : q.hash[level][key] \in Parts,
         q.alone \in BOOLEAN, q.ordered \in BOOLEAN,
         NEW batches \in Input, Numbered(FlattenSeq(batches))
  PROVE  LET all   == Grouped(q, batches)
             whole == GroupsOf(FlattenSeq(batches))
         IN  /\ ~q.alone => ~all.refused
             /\ ~all.refused =>
                  /\ Len(all.groups) = Len(whole) /\ ToSet(all.groups) = ToSet(whole)
                  /\ q.ordered \/ ~all.spilled => all.groups = whole
<1>. PICK u : u = FlattenSeq(batches)
  OBVIOUS
<1>. PICK got : got = Collected(q)[0][batches]
  OBVIOUS
<1>. PICK all : all = Grouped(q, batches)
  OBVIOUS
<1>. PICK s : s = Drained(q, 0, batches)
  OBVIOUS
<1>0. 0 \in Levels
  BY KeysAssumption DEF Levels
<1>1. u \in Seq(Row) /\ Numbered(u)
  BY BatchesFollow
<1>2. Groups(q, batches, got)
  BY CollectedHolds
<1>3. got = Gathered(q, Collected(q), 0, batches)
  BY <1>0, CollectedIsGathered
<1>4. all = IF q.ordered /\ got.spilled THEN [got EXCEPT !.groups = FirstSeen(@)] ELSE got
  BY DEF Grouped
<1>5. /\ all.refused = got.refused /\ all.spilled = got.spilled
      /\ all.groups = IF q.ordered /\ got.spilled THEN FirstSeen(got.groups) ELSE got.groups
  BY <1>3, <1>4 DEF Gathered
<1>6. ASSUME ~got.refused
      PROVE  /\ Len(got.groups) = Len(GroupsOf(u)) /\ ToSet(got.groups) = ToSet(GroupsOf(u))
             /\ FirstSeen(got.groups) = GroupsOf(u)
  <2>1. Lists(got.groups, ToSet(u))
    BY <1>2, <1>6 DEF Groups
  <2>2. Lists(GroupsOf(u), ToSet(u))
    BY <1>1, GroupsOfLists
  <2>3. Len(got.groups) = Len(GroupsOf(u)) /\ ToSet(got.groups) = ToSet(GroupsOf(u))
    BY <2>1, <2>2, ListsAgree
  <2>4. FirstSeen(got.groups) = GroupsOf(u)
    BY <1>1, <2>1, FirstSeenRestores
  <2>. QED BY <2>3, <2>4
<1>7. ASSUME ~got.spilled PROVE got.groups = GroupsOf(u)
  <2>1. \A p \in Parts : s.files[p] = <<>>
    BY <1>3, <1>7 DEF Gathered
  <2>2. DrainHolds(q, 0, s, ToSet(u))
    <3>1. \A key \in Keys : q.hash[0][key] \in Parts
      BY <1>0
    <3>. QED BY <3>1, DrainedHolds
  <2>3. s.held = u
    <3>1. s.held \in Seq(Row) /\ Numbered(s.held) /\ ToSet(s.held) \subseteq ToSet(u)
      BY <2>2 DEF DrainHolds
    <3>2. FlattenSeq(<<>>) = <<>>
      BY DEF FlattenSeq
    <3>3. ToSet(<<>>) = {}
      BY DEF ToSet
    <3>4. ToSet(u) \subseteq ToSet(s.held)
      BY <2>1, <2>2, <3>2, <3>3 DEF DrainHolds
    <3>5. ToSet(s.held) = ToSet(u)
      BY <3>1, <3>4
    <3>. QED BY <1>1, <3>1, <3>5, RowsAgree
  <2>. PICK c : c = Collected(q)
    OBVIOUS
  <2>. DEFINE sub(i) == FileGroups(c, 0, s, i)
  <2>. PICK gs : gs = [i \in 1..NParts |-> sub(i).groups]
    OBVIOUS
  <2>4. got.groups = GroupsOf(s.held) \o FlattenSeq(gs)
    <3>1. got = Gathered(q, c, 0, batches)
      BY <1>3
    <3>2. s = Drained(q, 0, batches)
      OBVIOUS
    <3>3. gs = [i \in 1..NParts |-> sub(i).groups]
      OBVIOUS
    <3>. QED BY ONLY <3>1, <3>2, <3>3 DEF Gathered
  <2>5. \A i \in 1..NParts : gs[i] = <<>>
    <3>1. \A i \in 1..NParts : i - 1 \in Parts
      BY KeysAssumption DEF Parts
    <3>. QED BY <2>1, <3>1 DEF FileGroups
  <2>6. FlattenSeq(gs) = <<>>
    <3>1. NParts \in Nat
      BY KeysAssumption
    <3>2. gs \in [1..NParts -> Seq(Seq(Row))]
      <4>1. \A i \in 1..NParts : gs[i] \in Seq(Seq(Row))
        <5>1. <<>> \in Seq(Seq(Row))
          OBVIOUS
        <5>. HIDE DEF sub
        <5>. QED BY <2>5, <5>1
      <4>. HIDE DEF sub
      <4>. QED BY <4>1
    <3>. HIDE DEF sub
    <3>3. gs \in Seq(Seq(Seq(Row))) /\ Len(gs) = NParts
      BY <3>1, <3>2, SeqDef
    <3>4. \A i \in 1..Len(gs) : Lists(gs[i], [j \in 1..NParts |-> {}][i])
      BY <2>5, <3>3, ListsNone
    <3>5. \A i, j \in 1..Len(gs) : i # j =>
            KeysIn([k \in 1..NParts |-> {}][i]) \intersect KeysIn([k \in 1..NParts |-> {}][j]) = {}
      BY <3>3 DEF KeysIn
    <3>6. Lists(FlattenSeq(gs), UNION {[j \in 1..NParts |-> {}][i] : i \in 1..Len(gs)})
      <4>. PICK F : F = [j \in 1..NParts |-> {}]
        OBVIOUS
      <4>1. \A i \in 1..Len(gs) : Lists(gs[i], F[i])
        BY <3>4
      <4>2. \A i, j \in 1..Len(gs) : i # j => KeysIn(F[i]) \intersect KeysIn(F[j]) = {}
        BY <3>5
      <4>3. gs \in Seq(Seq(Seq(Row)))
        BY <3>3
      <4>4. Lists(FlattenSeq(gs), UNION {F[i] : i \in 1..Len(gs)})
        BY ONLY <4>1, <4>2, <4>3, ListsFlatten
      <4>. QED BY <4>4
    <3>7. Lists(FlattenSeq(gs), {})
      <4>1. UNION {[j \in 1..NParts |-> {}][i] : i \in 1..Len(gs)} = {}
        BY <3>3
      <4>. QED BY <3>6, <4>1
    <3>8. Len(FlattenSeq(gs)) = Len(<<>>) /\ FlattenSeq(gs) \in Seq(Seq(Row))
      <4>1. Len(FlattenSeq(gs)) = Len(<<>>)
        BY <3>7, ListsNone, ListsAgree
      <4>. QED BY <3>7, <4>1 DEF Lists
    <3>. QED BY <3>8
  <2>7. GroupsOf(u) \in Seq(Group)
    BY <1>1, GroupsOfLists
  <2>. HIDE DEF sub
  <2>. PICK w : w = GroupsOf(u)
    OBVIOUS
  <2>8. got.groups = w \o <<>>
    BY <2>3, <2>4, <2>6
  <2>9. w \o <<>> = w
    BY <2>7
  <2>. QED BY <2>8, <2>9
<1>8. ~q.alone => ~all.refused
  BY <1>2, <1>5 DEF Groups
<1>9. ~all.refused => Len(all.groups) = Len(GroupsOf(u)) /\ ToSet(all.groups) = ToSet(GroupsOf(u))
  BY <1>5, <1>6
<1>10. ~all.refused /\ (q.ordered \/ ~all.spilled) => all.groups = GroupsOf(u)
  BY <1>5, <1>6, <1>7
<1>. QED BY <1>8, <1>9, <1>10

(* The answer is what its operator answers to the question.               *)
Posed ==
  answer # NoAnswer =>
    \/ op = "groups" /\ \E x \in Groupings : question = x /\ answer = Grouped(x.q, x.batches)
    \/ op = "unique" /\ \E x \in Uniques : question = x /\ answer = Uniqued(x.q)[0][x.batches]

(* An answer is to a question of its own operator (agg.go, ops2.go).      *)
LEMMA PosedHolds == KeysSpec => []Posed
<1>1. KeysInit => Posed
  BY DEF KeysInit, Posed
<1>2. Posed /\ [KeysNext]_vars => Posed'
  BY DEF Posed, KeysNext, AnswerGroups, AnswerUnique, vars
<1>. QED BY <1>1, <1>2, PTL DEF KeysSpec

(* A group-by gives each key one group of all its rows in the order of    *)
(* the input, however its keys were parted, in the order the groups first *)
(* appeared when that is asked or nothing spilled, and is refused only if *)
(* the query alone is over its limit: for any batches, hash, number of    *)
(* buckets, depth and course of the budget (extagg.go, aggconsume.go).    *)
THEOREM GroupsExact == KeysSpec => []GroupsAreExact
<1>1. Posed => GroupsAreExact
  <2>. SUFFICES ASSUME Posed, op = "groups", answer # NoAnswer PROVE GroupsAreExact
    BY DEF GroupsAreExact
  <2>1. PICK x \in Groupings : question = x /\ answer = Grouped(x.q, x.batches)
    BY DEF Posed
  <2>2. Asked(x) /\ x.q.ordered \in BOOLEAN
    BY KeysAssumption
  <2>3. /\ x.batches \in Input /\ Numbered(FlattenSeq(x.batches)) /\ x.q.alone \in BOOLEAN
        /\ \A level \in Levels, key \in Keys : x.q.hash[level][key] \in Parts
    BY <2>2 DEF Asked
  <2>. PICK q, batches : q = x.q /\ batches = x.batches
    OBVIOUS
  <2>4. LET all   == Grouped(q, batches)
            whole == GroupsOf(FlattenSeq(batches))
        IN  /\ ~q.alone => ~all.refused
            /\ ~all.refused =>
                 /\ Len(all.groups) = Len(whole) /\ ToSet(all.groups) = ToSet(whole)
                 /\ q.ordered \/ ~all.spilled => all.groups = whole
    BY <2>2, <2>3, GroupedExact
  <2>. QED BY <2>1, <2>4 DEF GroupsAreExact
<1>. QED BY <1>1, PosedHolds, PTL

-----------------------------------------------------------------------------
(* One unique: its rows, and what it keeps of them.                       *)

(* The states of the unique, batch by batch.                               *)
Pulls(f, q, level, batches) ==
  f = [k \in 0..Len(batches) |->
         IF k = 0 THEN NoRows(level) ELSE Pull(q, f[k - 1], batches[k])]

(* Pulled is what such states end with,                                   *)
LEMMA PulledIsChosen ==
  ASSUME NEW q, NEW level, NEW batches
  PROVE  Pulled(q, level, batches) = (CHOOSE f : Pulls(f, q, level, batches))[Len(batches)]
BY DEF Pulled, Pulls

(* and there are such states.                                             *)
LEMMA PullExists ==
  ASSUME NEW q, NEW level, NEW batches, Len(batches) \in Nat
  PROVE  \E f : Pulls(f, q, level, batches)
<1>. DEFINE Rec(f, k) == IF k = 0 THEN NoRows(level) ELSE Pull(q, f[k - 1], batches[k])
            Q == {m \in Nat : \E f : f = [k \in 0..m |-> Rec(f, k)]}
<1>1. 0 \in Q
  <2>1. [k \in 0..0 |-> NoRows(level)] = [k \in 0..0 |-> Rec([j \in 0..0 |-> NoRows(level)], k)]
    OBVIOUS
  <2>. HIDE DEF Rec
  <2>. QED BY <2>1
<1>2. ASSUME NEW m \in Nat, m \in Q PROVE m + 1 \in Q
  <2>1. PICK f : f = [k \in 0..m |-> Rec(f, k)]
    BY <1>2
  <2>. DEFINE h == [k \in 0..(m + 1) |-> Rec(f, k)]
  <2>2. \A k \in 0..m : h[k] = f[k]
    <3>1. \A k \in 0..m : f[k] = Rec(f, k)
      <4>. HIDE DEF Rec
      <4>. QED BY <2>1
    <3>2. \A k \in 0..m : k \in 0..(m + 1)
      OBVIOUS
    <3>. HIDE DEF Rec
    <3>. QED BY <3>1, <3>2
  <2>3. \A k \in 0..(m + 1) : k # 0 => k - 1 \in 0..m
    OBVIOUS
  <2>4. \A k \in 0..(m + 1) : Rec(f, k) = Rec(h, k)
    <3>. HIDE DEF h
    <3>. QED BY <2>2, <2>3
  <2>5. h = [k \in 0..(m + 1) |-> Rec(h, k)]
    <3>1. h = [k \in 0..(m + 1) |-> Rec(f, k)]
      OBVIOUS
    <3>. HIDE DEF h, Rec
    <3>. QED BY <2>4, <3>1
  <2>. HIDE DEF h, Rec
  <2>. QED BY <2>5
<1>3. Len(batches) \in Q
  <2>. HIDE DEF Q
  <2>. QED BY <1>1, <1>2, NaturalInduction
<1>. QED BY <1>3 DEF Pulls

(* A state of the unique, of its parts.                                    *)
State(level, batch, frozen, refused, keys, out, files) ==
  [level |-> level, batch |-> batch, frozen |-> frozen, refused |-> refused, keys |-> keys,
   out |-> out, files |-> files]

(* What holds when the rows R have come, unless it was refused.            *)
PullHolds(q, level, s, R) ==
  /\ ~q.alone => ~s.refused
  /\ ~s.refused =>
       /\ s \in [level : {level}, batch : Int, frozen : BOOLEAN, refused : BOOLEAN, keys : SUBSET Keys,
                 out : Seq(Row), files : [Parts -> Input]]
       /\ s.keys = KeysOf(s.out) /\ Numbered(s.out) /\ ToSet(s.out) \subseteq Firsts(R)
       /\ \A p \in Parts :
            /\ Numbered(FlattenSeq(s.files[p]))
            /\ \A r \in ToSet(FlattenSeq(s.files[p])) :
                 /\ r \in R /\ r.key \notin s.keys /\ q.hash[level][r.key] = p
                 /\ \A x \in ToSet(s.out) : x.id < r.id
       /\ \A r \in R : r.key \in s.keys \/ \E p \in Parts : r \in ToSet(FlattenSeq(s.files[p]))
       /\ ~s.frozen => \A p \in Parts : s.files[p] = <<>>
       /\ level = MaxSpillDepth => ~s.frozen

(* It holds of a unique that has read nothing.                            *)
LEMMA PullStarts ==
  ASSUME NEW q, NEW level
  PROVE  PullHolds(q, level, NoRows(level), {})
<1>1. FlattenSeq(<<>>) = <<>> /\ <<>> \in Seq(Row) /\ <<>> \in Input
  BY DEF FlattenSeq, Input
<1>2. ToSet(<<>>) = {} /\ Numbered(<<>>) /\ KeysOf(<<>>) = {}
  BY DEF ToSet, Numbered, KeysOf
<1>. QED BY <1>1, <1>2 DEF PullHolds, NoRows, Firsts

(* A batch that is routed.                                                 *)
LEMMA PullRoutes ==
  ASSUME NEW q, NEW level, \A key \in Keys : q.hash[level][key] \in Parts,
         NEW R \in SUBSET Row, NEW s, PullHolds(q, level, s, R), ~s.refused, s.frozen,
         NEW in \in Seq(Row), Numbered(in), \A x \in R, y \in ToSet(in) : x.id < y.id
  PROVE  PullHolds(q, level, Pull(q, s, in), R \union ToSet(in))
<1>. PICK I : I = ToSet(in)
  OBVIOUS
<1>. PICK t : t = Pull(q, s, in)
  OBVIOUS
<1>. DEFINE W(p) == {r \in I : r.key \notin s.keys /\ q.hash[s.level][r.key] = p}
            b(p) == Only(in, W(p))
            File(p) == FlattenSeq(s.files[p])
<1>0. /\ s \in [level : {level}, batch : Int, frozen : BOOLEAN, refused : BOOLEAN, keys : SUBSET Keys,
                out : Seq(Row), files : [Parts -> Input]]
      /\ s.level = level /\ s.batch \in Int /\ s.frozen = TRUE /\ s.refused = FALSE /\ s.out \in Seq(Row)
      /\ s.files \in [Parts -> Input] /\ s.keys \in SUBSET Keys
  BY DEF PullHolds
<1>1. /\ s.keys = KeysOf(s.out) /\ Numbered(s.out) /\ ToSet(s.out) \subseteq Firsts(R)
      /\ \A p \in Parts :
           /\ Numbered(File(p))
           /\ \A r \in ToSet(File(p)) :
                /\ r \in R /\ r.key \notin s.keys /\ q.hash[level][r.key] = p
                /\ \A x \in ToSet(s.out) : x.id < r.id
      /\ \A r \in R : r.key \in s.keys \/ \E p \in Parts : r \in ToSet(File(p))
      /\ level # MaxSpillDepth
  BY DEF PullHolds
<1>2. \A p \in Parts : b(p) \in Seq(Row) /\ ToSet(b(p)) = W(p) /\ Numbered(b(p))
  <2>. SUFFICES ASSUME NEW p \in Parts
                PROVE  b(p) \in Seq(Row) /\ ToSet(b(p)) = W(p) /\ Numbered(b(p))
    OBVIOUS
  <2>1. I \intersect W(p) = W(p)
    OBVIOUS
  <2>. HIDE DEF W
  <2>. QED BY <2>1, RowsOnly
<1>3. t = [level |-> level, batch |-> s.batch + 1, frozen |-> TRUE, refused |-> FALSE, keys |-> s.keys,
           out |-> s.out, files |-> [p \in Parts |-> Written(s.files[p], b(p))]]
  BY <1>0 DEF Pull, RouteRows
<1>4. ASSUME NEW p \in Parts
      PROVE  /\ t.files[p] \in Input /\ File(p) \in Seq(Row)
             /\ ToSet(FlattenSeq(t.files[p])) = ToSet(File(p)) \union W(p)
             /\ Numbered(FlattenSeq(t.files[p]))
  <2>1. s.files[p] \in Seq(Seq(Row)) /\ b(p) \in Seq(Row) /\ t.files[p] = Written(s.files[p], b(p))
    BY <1>0, <1>2, <1>3 DEF Input
  <2>2. /\ t.files[p] \in Seq(Seq(Row)) /\ File(p) \in Seq(Row)
        /\ FlattenSeq(t.files[p]) = File(p) \o b(p)
    <3>. HIDE DEF b
    <3>1. \A file \in Seq(Seq(Row)), rows \in Seq(Row) :
            /\ Written(file, rows) \in Seq(Seq(Row)) /\ FlattenSeq(file) \in Seq(Row)
            /\ FlattenSeq(Written(file, rows)) = FlattenSeq(file) \o rows
      BY WrittenAdds
    <3>. QED BY <2>1, <3>1
  <2>. HIDE DEF File, b
  <2>3. Numbered(File(p)) /\ Numbered(b(p)) /\ ToSet(b(p)) = W(p) /\ ToSet(File(p)) \subseteq R
    BY <1>1, <1>2
  <2>4. \A x \in ToSet(File(p)), y \in ToSet(b(p)) : x.id < y.id
    BY <2>3
  <2>. HIDE DEF W
  <2>5. /\ ToSet(File(p) \o b(p)) = ToSet(File(p)) \union ToSet(b(p))
        /\ Numbered(File(p) \o b(p))
    BY <2>1, <2>2, <2>3, <2>4, RowsJoin
  <2>. QED BY <2>2, <2>3, <2>5 DEF Input
<1>5. t \in [level : {level}, batch : Int, frozen : BOOLEAN, refused : BOOLEAN, keys : SUBSET Keys,
             out : Seq(Row), files : [Parts -> Input]]
  <2>1. t.files = [p \in Parts |-> Written(s.files[p], b(p))] /\ \A p \in Parts : t.files[p] \in Input
    BY <1>3, <1>4
  <2>2. t.files \in [Parts -> Input]
    BY <2>1
  <2>. QED BY <1>0, <1>3, <2>2
<1>6. ToSet(t.out) \subseteq Firsts(R \union I)
  <2>1. ASSUME NEW r \in Firsts(R) PROVE r \in Firsts(R \union I)
    <3>1. r \in R /\ r.id \in Int
      BY DEF Firsts, Row
    <3>2. \A x \in I : r.id < x.id /\ x.id \in Int
      <4>1. \A x \in I : x \in Row
        BY DEF ToSet
      <4>. QED BY <3>1, <4>1 DEF Row
    <3>3. \A x \in I : ~(x.id < r.id)
      BY <3>1, <3>2
    <3>. QED BY <3>1, <3>3 DEF Firsts
  <2>2. t.out = s.out
    BY <1>3
  <2>3. ToSet(s.out) \subseteq Firsts(R)
    BY <1>1
  <2>. QED BY ONLY <2>1, <2>2, <2>3
<1>7. ASSUME NEW p \in Parts, NEW r \in ToSet(FlattenSeq(t.files[p]))
      PROVE  /\ r \in R \union I /\ r.key \notin t.keys /\ q.hash[level][r.key] = p
             /\ \A x \in ToSet(t.out) : x.id < r.id
  <2>1. CASE r \in ToSet(File(p))
    BY <1>1, <1>3, <2>1
  <2>2. CASE r \in W(p)
    <3>1. \A x \in ToSet(s.out) : x \in R
      BY <1>1 DEF Firsts
    <3>. QED BY <1>0, <1>3, <2>2, <3>1
  <2>. HIDE DEF File, W
  <2>. QED BY <1>4, <2>1, <2>2
<1>8. ASSUME NEW r \in R \union I
      PROVE  r.key \in t.keys \/ \E p \in Parts : r \in ToSet(FlattenSeq(t.files[p]))
  <2>0. t.keys = s.keys
    BY <1>3
  <2>1. CASE r \in R
    <3>1. r.key \in s.keys \/ \E p \in Parts : r \in ToSet(File(p))
      BY <1>1, <2>1
    <3>. HIDE DEF File, W
    <3>. QED BY <1>4, <2>0, <3>1
  <2>2. CASE r \in I /\ r.key \notin s.keys
    <3>1. r.key \in Keys
      <4>1. r \in Row
        BY <2>2 DEF ToSet
      <4>. QED BY <4>1 DEF Row
    <3>2. q.hash[level][r.key] \in Parts
      BY <3>1
    <3>3. r \in W(q.hash[level][r.key])
      BY <1>0, <2>2
    <3>. HIDE DEF W
    <3>. QED BY <1>4, <3>2, <3>3
  <2>. QED BY <2>0, <2>1, <2>2
<1>9. t.frozen = TRUE /\ t.refused = FALSE /\ t.keys = KeysOf(t.out) /\ Numbered(t.out)
  BY <1>1, <1>3
<1>. HIDE DEF W, b, File
<1>. QED BY <1>1, <1>4, <1>5, <1>6, <1>7, <1>8, <1>9 DEF PullHolds

(* A batch whose new keys are given out.                                   *)
LEMMA PullGives ==
  ASSUME NEW q, NEW level, level \in Levels, q.alone \in BOOLEAN,
         NEW R \in SUBSET Row, NEW s, PullHolds(q, level, s, R), ~s.refused, ~s.frozen,
         NEW in \in Seq(Row), Numbered(in), \A x \in R, y \in ToSet(in) : x.id < y.id
  PROVE  PullHolds(q, level, Pull(q, s, in), R \union ToSet(in))
<1>. PICK I : I = ToSet(in)
  OBVIOUS
<1>. PICK t : t = Pull(q, s, in)
  OBVIOUS
<1>. PICK new : new = New(s.keys, in)
  OBVIOUS
<1>. PICK keys : keys = s.keys \union KeysOf(new)
  OBVIOUS
<1>0. /\ s \in [level : {level}, batch : Int, frozen : BOOLEAN, refused : BOOLEAN, keys : SUBSET Keys,
                out : Seq(Row), files : [Parts -> Input]]
      /\ s.level = level /\ s.batch \in Int /\ s.frozen = FALSE /\ s.refused = FALSE /\ s.out \in Seq(Row)
      /\ s.files \in [Parts -> Input] /\ s.keys \in SUBSET Keys
  BY DEF PullHolds
<1>1. /\ s.keys = KeysOf(s.out) /\ Numbered(s.out) /\ ToSet(s.out) \subseteq Firsts(R)
      /\ \A p \in Parts : s.files[p] = <<>>
  BY DEF PullHolds
<1>2. \A r \in R : r.key \in s.keys
  <2>1. \A r \in R : r.key \in s.keys \/ \E p \in Parts : r \in ToSet(FlattenSeq(s.files[p]))
    BY DEF PullHolds
  <2>2. FlattenSeq(<<>>) = <<>>
    BY DEF FlattenSeq
  <2>3. ToSet(<<>>) = {}
    BY DEF ToSet
  <2>. QED BY <1>1, <2>1, <2>2, <2>3
<1>3. I \subseteq Row
  BY DEF ToSet
<1>4. new \in Seq(Row) /\ Numbered(new) /\ ToSet(new) = {r \in Firsts(I) : r.key \notin s.keys}
  BY NewFirsts
<1>5. keys \in SUBSET Keys /\ KeysOf(s.out \o new) = keys
  <2>1. ToSet(s.out \o new) = ToSet(s.out) \union ToSet(new)
    BY <1>0, <1>4, RowsJoin
  <2>2. KeysOf(s.out \o new) = KeysOf(s.out) \union KeysOf(new)
    BY <2>1 DEF KeysOf
  <2>3. KeysOf(new) \subseteq Keys
    <3>1. ToSet(new) \subseteq Row
      BY <1>3, <1>4 DEF Firsts
    <3>. QED BY <3>1 DEF KeysOf, Row
  <2>. QED BY <1>0, <1>1, <2>2, <2>3
<1>. PICK e : e = [s EXCEPT !.keys = keys]
  OBVIOUS
<1>. PICK o : o = OverBudget(q, e)
  OBVIOUS
<1>. PICK batch, out, files : batch = s.batch /\ out = s.out /\ files = s.files
  OBVIOUS
<1>6. e = State(level, batch, FALSE, FALSE, keys, out, files)
  <2>. PICK old : old = s.keys
    OBVIOUS
  <2>1. s = State(level, batch, FALSE, FALSE, old, out, files)
    BY <1>0 DEF State
  <2>2. e = [s EXCEPT !.keys = keys]
    OBVIOUS
  <2>. QED BY ONLY <2>1, <2>2 DEF State
<1>7. PICK a \in BOOLEAN, b \in BOOLEAN :
        /\ o = State(level, batch, a, b, keys, out, files)
        /\ (a => level < MaxSpillDepth) /\ (b => q.alone)
  <2>0. e.level = level
    BY ONLY <1>6 DEF State
  <2>1. CASE <<e.level, e.batch>> \notin q.over
    <3>1. o = State(level, batch, FALSE, FALSE, keys, out, files)
      BY <1>6, <2>1 DEF OverBudget
    <3>. QED BY <3>1
  <2>2. CASE <<e.level, e.batch>> \in q.over /\ e.keys # {} /\ e.level < MaxSpillDepth
    <3>1. o = [e EXCEPT !.frozen = TRUE]
      BY <2>2 DEF OverBudget
    <3>2. o = State(level, batch, TRUE, FALSE, keys, out, files)
      BY ONLY <1>6, <3>1 DEF State
    <3>. QED BY <2>0, <2>2, <3>2
  <2>3. CASE <<e.level, e.batch>> \in q.over /\ ~(e.keys # {} /\ e.level < MaxSpillDepth)
    <3>1. o = [e EXCEPT !.refused = q.alone]
      BY <2>3 DEF OverBudget
    <3>2. o = State(level, batch, FALSE, q.alone, keys, out, files)
      BY ONLY <1>6, <3>1 DEF State
    <3>. QED BY <3>2
  <2>. QED BY <2>1, <2>2, <2>3
<1>8. t = [o EXCEPT !.out = IF o.refused THEN @ ELSE @ \o new, !.batch = @ + 1]
  <2>1. [s EXCEPT !.keys = @ \union KeysOf(new)] = e
    BY <1>0
  <2>. QED BY <1>0, <2>1 DEF Pull
<1>9. CASE o.refused
  <2>1. o.refused = b /\ o.out = out
    BY ONLY <1>7 DEF State
  <2>2. t = [o EXCEPT !.out = out, !.batch = o.batch + 1]
    BY <1>8, <1>9, <2>1
  <2>3. t = State(level, o.batch + 1, a, b, keys, out, files)
    <3>. PICK u : u = [o EXCEPT !.out = out]
      OBVIOUS
    <3>0. u = [o EXCEPT !.out = out]
      OBVIOUS
    <3>1. u = State(level, batch, a, b, keys, out, files)
      BY ONLY <1>7, <3>0 DEF State
    <3>2. t = [u EXCEPT !.batch = o.batch + 1]
      BY ONLY <2>2, <3>0
    <3>. QED BY ONLY <3>1, <3>2 DEF State
  <2>4. t.refused /\ q.alone
    BY <1>7, <1>9, <2>1, <2>3 DEF State
  <2>. QED BY <2>4 DEF PullHolds
<1>10. CASE ~o.refused
  <2>1. t = [level |-> level, batch |-> s.batch + 1, frozen |-> a, refused |-> FALSE, keys |-> keys,
             out |-> s.out \o new, files |-> s.files]
    <3>1. o = State(level, batch, a, b, keys, out, files)
      BY <1>7
    <3>2. o.refused = b /\ o.out = out /\ o.batch = batch
      BY ONLY <3>1 DEF State
    <3>3. t = [o EXCEPT !.out = out \o new, !.batch = batch + 1]
      BY <1>8, <1>10, <3>2
    <3>4. t = State(level, batch + 1, a, b, keys, out \o new, files)
      <4>. PICK u : u = [o EXCEPT !.out = out \o new]
        OBVIOUS
      <4>0. u = [o EXCEPT !.out = out \o new]
        OBVIOUS
      <4>1. u = State(level, batch, a, b, keys, out \o new, files)
        BY ONLY <3>1, <4>0 DEF State
      <4>2. t = [u EXCEPT !.batch = batch + 1]
        BY ONLY <3>3, <4>0
      <4>. QED BY ONLY <4>1, <4>2 DEF State
    <3>. QED BY <1>7, <1>10, <3>2, <3>4 DEF State
  <2>2. /\ s.out \o new \in Seq(Row) /\ ToSet(s.out \o new) = ToSet(s.out) \union ToSet(new)
        /\ Numbered(s.out \o new)
    <3>1. ToSet(s.out) \subseteq R /\ ToSet(new) \subseteq I
      BY <1>1, <1>4 DEF Firsts
    <3>2. \A x \in ToSet(s.out), y \in ToSet(new) : x.id < y.id
      BY <3>1
    <3>. QED BY <1>0, <1>1, <1>4, <3>2, RowsJoin
  <2>3. t \in [level : {level}, batch : Int, frozen : BOOLEAN, refused : BOOLEAN, keys : SUBSET Keys,
               out : Seq(Row), files : [Parts -> Input]]
    BY <1>0, <1>5, <1>7, <2>1, <2>2
  <2>4. ToSet(t.out) \subseteq Firsts(R \union I)
    <3>1. ASSUME NEW r \in Firsts(R) PROVE r \in Firsts(R \union I)
      <4>1. r \in R /\ r.id \in Int
        BY DEF Firsts, Row
      <4>2. \A x \in I : r.id < x.id /\ x.id \in Int
        BY <1>3, <4>1 DEF Row
      <4>3. \A x \in I : ~(x.id < r.id)
        BY <4>1, <4>2
      <4>. QED BY <4>1, <4>3 DEF Firsts
    <3>2. ASSUME NEW r \in Firsts(I), r.key \notin s.keys PROVE r \in Firsts(R \union I)
      <4>1. \A x \in R : x.key # r.key
        BY <1>2, <3>2
      <4>. QED BY <4>1 DEF Firsts
    <3>3. ToSet(t.out) = ToSet(s.out) \union ToSet(new)
      BY <2>1, <2>2
    <3>4. ToSet(s.out) \subseteq Firsts(R) /\ ToSet(new) = {r \in Firsts(I) : r.key \notin s.keys}
      BY <1>1, <1>4
    <3>. QED BY ONLY <3>1, <3>2, <3>3, <3>4
  <2>5. ASSUME NEW r \in R \union I PROVE r.key \in t.keys
    <3>1. CASE r.key \in s.keys
      BY <2>1, <3>1
    <3>2. CASE r.key \notin s.keys
      <4>1. r \in I /\ r.key \in KeysIn(I)
        BY <1>2, <3>2 DEF KeysIn
      <4>2. PICK x \in Firsts(I) : x.key = r.key
        BY <1>3, <4>1, FirstExists
      <4>3. x \in ToSet(new)
        BY <1>4, <3>2, <4>2
      <4>. QED BY <2>1, <4>2, <4>3 DEF KeysOf
    <3>. QED BY <3>1, <3>2
  <2>6. \A p \in Parts : t.files[p] = <<>>
    BY <1>1, <2>1
  <2>7. FlattenSeq(<<>>) = <<>>
    BY DEF FlattenSeq
  <2>8. ToSet(<<>>) = {} /\ Numbered(<<>>)
    BY DEF ToSet, Numbered
  <2>9. level = MaxSpillDepth => ~t.frozen
    <3>1. level = MaxSpillDepth => ~(level < MaxSpillDepth)
      BY KeysAssumption
    <3>. QED BY <1>7, <2>1, <3>1
  <2>10. t.keys = KeysOf(t.out) /\ Numbered(t.out) /\ ~t.refused
    BY <1>5, <2>1, <2>2
  <2>. QED BY <2>3, <2>4, <2>5, <2>6, <2>7, <2>8, <2>9, <2>10 DEF PullHolds
<1>. QED BY <1>9, <1>10

(* It holds of the whole input at its end.                                *)
LEMMA PulledHolds ==
  ASSUME NEW q, NEW level \in Levels, \A key \in Keys : q.hash[level][key] \in Parts,
         q.alone \in BOOLEAN, NEW batches \in Input, Numbered(FlattenSeq(batches))
  PROVE  PullHolds(q, level, Pulled(q, level, batches), ToSet(FlattenSeq(batches)))
<1>. PICK n : n = Len(batches)
  OBVIOUS
<1>0. n \in Nat
  BY DEF Input
<1>1. PICK f : f = CHOOSE g : Pulls(g, q, level, batches)
  OBVIOUS
<1>2. Pulls(f, q, level, batches)
  BY <1>0, <1>1, PullExists
<1>3. Pulled(q, level, batches) = f[n]
  BY <1>1, PulledIsChosen
<1>. DEFINE Q == {k \in Nat : k <= n => PullHolds(q, level, f[k], ReadBy(batches, k))}
<1>4. 0 \in Q
  <2>1. f[0] = NoRows(level)
    BY <1>0, <1>2 DEF Pulls
  <2>2. ReadBy(batches, 0) = {}
    BY BatchesFollow
  <2>3. PullHolds(q, level, f[0], ReadBy(batches, 0))
    BY <2>1, <2>2, PullStarts
  <2>. QED BY <2>3
<1>5. ASSUME NEW k \in Nat, k \in Q PROVE k + 1 \in Q
  <2>. SUFFICES ASSUME k + 1 <= n
                PROVE  PullHolds(q, level, f[k + 1], ReadBy(batches, k + 1))
    OBVIOUS
  <2>1. k + 1 \in 1..n /\ k + 1 \in 0..n /\ k + 1 # 0 /\ (k + 1) - 1 = k /\ k <= n
    BY <1>0
  <2>. PICK in, R, s : in = batches[k + 1] /\ R = ReadBy(batches, k) /\ s = f[k]
    OBVIOUS
  <2>2. PullHolds(q, level, s, R)
    BY <1>5, <2>1
  <2>3. f[k + 1] = Pull(q, s, in)
    BY <1>2, <2>1 DEF Pulls
  <2>4. /\ in \in Seq(Row) /\ Numbered(in) /\ ReadBy(batches, k + 1) = R \union ToSet(in)
        /\ R \in SUBSET Row /\ \A x \in R, y \in ToSet(in) : x.id < y.id
    BY <2>1, BatchesFollow
  <2>5. PullHolds(q, level, Pull(q, s, in), R \union ToSet(in))
    <3>1. CASE s.refused
      <4>1. Pull(q, s, in) = s
        BY <3>1 DEF Pull
      <4>2. PullHolds(q, level, s, R \union ToSet(in))
        BY <2>2, <3>1 DEF PullHolds
      <4>. QED BY <4>1, <4>2
    <3>2. CASE ~s.refused /\ s.frozen
      BY <2>2, <2>4, <3>2, PullRoutes
    <3>3. CASE ~s.refused /\ ~s.frozen
      BY <2>2, <2>4, <3>3, PullGives
    <3>. QED BY <3>1, <3>2, <3>3
  <2>. QED BY <2>3, <2>4, <2>5
<1>6. n \in Q
  <2>. HIDE DEF Q
  <2>. QED BY <1>0, <1>4, <1>5, NaturalInduction
<1>7. PullHolds(q, level, f[n], ReadBy(batches, n))
  BY <1>0, <1>6
<1>8. ReadBy(batches, n) = ToSet(FlattenSeq(batches))
  BY BatchesFollow
<1>. QED BY <1>3, <1>7, <1>8

(* At the last level nothing is written, whatever is asked.                *)
LEMMA LastLevelKeeps ==
  ASSUME NEW q, NEW batches \in Input
  PROVE  \A p \in Parts : Pulled(q, MaxSpillDepth, batches).files[p] = <<>>
<1>. PICK n, M : n = Len(batches) /\ M = MaxSpillDepth
  OBVIOUS
<1>0. n \in Nat /\ ~(M < M)
  BY KeysAssumption DEF Input
<1>1. PICK f : f = CHOOSE g : Pulls(g, q, M, batches)
  OBVIOUS
<1>2. Pulls(f, q, M, batches)
  BY <1>0, <1>1, PullExists
<1>3. Pulled(q, M, batches) = f[n]
  BY <1>1, PulledIsChosen
<1>. DEFINE Keeps(s) ==
              \E batch, refused, keys, out :
                s = State(M, batch, FALSE, refused, keys, out, [p \in Parts |-> <<>>])
            Q == {k \in Nat : k <= n => Keeps(f[k])}
<1>4. 0 \in Q
  <2>1. f[0] = NoRows(M)
    BY <1>0, <1>2 DEF Pulls
  <2>2. Keeps(f[0])
    BY <2>1 DEF NoRows, State
  <2>. QED BY <2>2
<1>5. ASSUME NEW k \in Nat, k \in Q PROVE k + 1 \in Q
  <2>. SUFFICES ASSUME k + 1 <= n PROVE Keeps(f[k + 1])
    <3>. HIDE DEF Keeps
    <3>. QED OBVIOUS
  <2>1. k + 1 \in 0..n /\ k + 1 # 0 /\ (k + 1) - 1 = k /\ k <= n
    BY <1>0
  <2>. PICK s, t, in : s = f[k] /\ t = f[k + 1] /\ in = batches[k + 1]
    OBVIOUS
  <2>2. t = Pull(q, s, in)
    BY <1>2, <2>1 DEF Pulls
  <2>3. Keeps(s)
    BY <1>5, <2>1
  <2>4. CASE s.refused
    <3>1. t = s
      BY <2>2, <2>4 DEF Pull
    <3>. HIDE DEF Keeps
    <3>. QED BY <2>3, <3>1
  <2>5. CASE ~s.refused
    <3>. PICK new : new = New(s.keys, in)
      OBVIOUS
    <3>. PICK e : e = [s EXCEPT !.keys = @ \union KeysOf(new)]
      OBVIOUS
    <3>. PICK o : o = OverBudget(q, e)
      OBVIOUS
    <3>. PICK none : none = [p \in Parts |-> <<>>]
      OBVIOUS
    <3>1. PICK batch, refused, keys, out : s = State(M, batch, FALSE, refused, keys, out, none)
      BY <2>3
    <3>2. ~s.frozen
      BY ONLY <3>1 DEF State
    <3>3. t = [o EXCEPT !.out = IF o.refused THEN @ ELSE @ \o new, !.batch = @ + 1]
      <4>. HIDE DEF Keeps
      <4>. QED BY <2>2, <2>5, <3>2 DEF Pull
    <3>4. PICK held : e = State(M, batch, FALSE, refused, held, out, none)
      <4>1. e = State(M, batch, FALSE, refused, s.keys \union KeysOf(new), out, none)
        <5>1. e = [s EXCEPT !.keys = s.keys \union KeysOf(new)]
          OBVIOUS
        <5>. QED BY ONLY <3>1, <5>1 DEF State
      <4>. QED BY <4>1
    <3>5. PICK over : o = State(M, batch, FALSE, over, held, out, none)
      <4>1. e.level = M
        BY ONLY <3>4 DEF State
      <4>2. o = e \/ o = [e EXCEPT !.refused = q.alone]
        BY <1>0, <4>1 DEF OverBudget
      <4>. PICK u, r : u = [e EXCEPT !.refused = r] /\ r = q.alone
        OBVIOUS
      <4>0. u = [e EXCEPT !.refused = r] /\ r = q.alone
        OBVIOUS
      <4>3. u = State(M, batch, FALSE, r, held, out, none)
        BY ONLY <3>4, <4>0 DEF State
      <4>4. o = State(M, batch, FALSE, refused, held, out, none)
            \/ o = State(M, batch, FALSE, r, held, out, none)
        BY ONLY <3>4, <4>0, <4>2, <4>3
      <4>. QED BY <4>4
    <3>. PICK given, at : given = (IF o.refused THEN o.out ELSE o.out \o new) /\ at = o.batch + 1
      OBVIOUS
    <3>6. t = [o EXCEPT !.out = given, !.batch = at]
      <4>. HIDE DEF Keeps
      <4>. QED BY <3>3
    <3>7. t = State(M, at, FALSE, over, held, given, none)
      <4>. PICK u : u = [o EXCEPT !.out = given]
        OBVIOUS
      <4>0. u = [o EXCEPT !.out = given]
        OBVIOUS
      <4>1. u = State(M, batch, FALSE, over, held, given, none)
        BY ONLY <3>5, <4>0 DEF State
      <4>2. t = [u EXCEPT !.batch = at]
        BY ONLY <3>6, <4>0
      <4>. QED BY ONLY <4>1, <4>2 DEF State
    <3>8. Keeps(t)
      BY ONLY <3>7, none = [p \in Parts |-> <<>>]
    <3>. HIDE DEF Keeps
    <3>. QED BY <3>8
  <2>. QED BY <2>4, <2>5
<1>6. n \in Q
  <2>. HIDE DEF Q
  <2>. QED BY <1>0, <1>4, <1>5, NaturalInduction
<1>7. Keeps(f[n])
  <2>1. n <= n
    BY <1>0
  <2>. HIDE DEF Keeps
  <2>. QED BY <1>6, <2>1
<1>. PICK s : s = f[n]
  OBVIOUS
<1>8. s.files = [p \in Parts |-> <<>>]
  <2>1. PICK batch, refused, keys, out :
          s = State(M, batch, FALSE, refused, keys, out, [p \in Parts |-> <<>>])
    BY <1>7
  <2>. QED BY ONLY <2>1 DEF State
<1>. QED BY <1>3, <1>8

-----------------------------------------------------------------------------
(* A unique and those of its files, and the unique's theorem.             *)

(* The rows of the i-th file of s, by those c has a level deeper.          *)
FileRows(c, level, s, i) ==
  IF s.files[i - 1] = <<>> THEN [rows |-> <<>>, refused |-> FALSE]
  ELSE c[level + 1][s.files[i - 1]]

(* What is given out at a level.                                           *)
Rejoin(s, subs) ==
  [rows    |-> s.out \o MergeByOrdinal(FlattenSeq([i \in 1..NParts |-> subs[i].rows])),
   refused |-> s.refused \/ \E i \in 1..NParts : subs[i].refused]

Rejoined(q, c, level, batches) ==
  LET s == Pulled(q, level, batches)
  IN  Rejoin(s, [i \in 1..NParts |-> FileRows(c, level, s, i)])

Dedups(q, c) == c = [level \in Levels |-> [batches \in Input |-> Rejoined(q, c, level, batches)]]

(* Uniqued is one of those,                                               *)
LEMMA UniquedIsChosen ==
  ASSUME NEW q
  PROVE  Uniqued(q) = CHOOSE c : Dedups(q, c)
BY DEF Uniqued, Dedups, Rejoined, Rejoin, FileRows

(* and there is one.                                                      *)
LEMMA UniqueExists ==
  ASSUME NEW q
  PROVE  \E c : Dedups(q, c)
<1>. DEFINE M == MaxSpillDepth
            At(c, level) == [batches \in Input |-> Rejoined(q, c, level, batches)]
            Q == {m \in Nat : m <= M => \E c : c = [level \in (M - m)..M |-> At(c, level)]}
<1>0. M \in Nat
  BY KeysAssumption
<1>1. ASSUME NEW c, NEW d, NEW level \in Int, level # M => c[level + 1] = d[level + 1]
      PROVE  At(c, level) = At(d, level)
  <2>1. ASSUME NEW batches \in Input PROVE Rejoined(q, c, level, batches) = Rejoined(q, d, level, batches)
    <3>. PICK s : s = Pulled(q, level, batches)
      OBVIOUS
    <3>1. ASSUME NEW i \in 1..NParts PROVE FileRows(c, level, s, i) = FileRows(d, level, s, i)
      <4>1. CASE level = M
        <5>1. i - 1 \in Parts
          BY KeysAssumption DEF Parts
        <5>2. s.files[i - 1] = <<>>
          BY <4>1, <5>1, LastLevelKeeps
        <5>. QED BY <5>2 DEF FileRows
      <4>2. CASE level # M
        BY <1>1, <4>2 DEF FileRows
      <4>. QED BY <4>1, <4>2
    <3>2. [i \in 1..NParts |-> FileRows(c, level, s, i)] = [i \in 1..NParts |-> FileRows(d, level, s, i)]
      BY <3>1
    <3>3. \A e : Rejoined(q, e, level, batches) = Rejoin(s, [i \in 1..NParts |-> FileRows(e, level, s, i)])
      BY DEF Rejoined
    <3>. QED BY <3>2, <3>3
  <2>. QED BY <2>1
<1>2. 0 \in Q
  <2>. DEFINE h == [level \in (M - 0)..M |-> At(<<>>, level)]
  <2>1. \A level \in (M - 0)..M : level \in Int /\ level = M
    BY <1>0
  <2>2. \A level \in (M - 0)..M : At(<<>>, level) = At(h, level)
    <3>. HIDE DEF h, At
    <3>. QED BY <1>1, <2>1
  <2>3. h = [level \in (M - 0)..M |-> At(h, level)]
    <3>1. h = [level \in (M - 0)..M |-> At(<<>>, level)]
      OBVIOUS
    <3>. HIDE DEF h, At
    <3>. QED BY <2>2, <3>1
  <2>. HIDE DEF h, At
  <2>. QED BY <2>3
<1>3. ASSUME NEW m \in Nat, m \in Q PROVE m + 1 \in Q
  <2>. SUFFICES ASSUME m + 1 <= M
                PROVE  \E c : c = [level \in (M - (m + 1))..M |-> At(c, level)]
    OBVIOUS
  <2>0. m <= M
    BY <1>0
  <2>1. PICK f : f = [level \in (M - m)..M |-> At(f, level)]
    BY <1>3, <2>0
  <2>. DEFINE h == [level \in (M - (m + 1))..M |-> At(f, level)]
  <2>2. \A level \in (M - m)..M : h[level] = f[level]
    <3>1. \A level \in (M - m)..M : f[level] = At(f, level)
      <4>. HIDE DEF At
      <4>. QED BY <2>1
    <3>2. \A level \in (M - m)..M : level \in (M - (m + 1))..M
      BY <1>0
    <3>3. \A level \in (M - (m + 1))..M : h[level] = At(f, level)
      OBVIOUS
    <3>. HIDE DEF h, At
    <3>. QED BY <3>1, <3>2, <3>3
  <2>3. \A level \in (M - (m + 1))..M : level \in Int /\ (level # M => level + 1 \in (M - m)..M)
    BY <1>0
  <2>4. \A level \in (M - (m + 1))..M : At(f, level) = At(h, level)
    <3>. SUFFICES ASSUME NEW level \in (M - (m + 1))..M PROVE At(f, level) = At(h, level)
      OBVIOUS
    <3>1. level \in Int /\ (level # M => f[level + 1] = h[level + 1])
      <4>. HIDE DEF h
      <4>. QED BY <2>2, <2>3
    <3>. HIDE DEF h, At
    <3>. QED BY <1>1, <3>1
  <2>5. h = [level \in (M - (m + 1))..M |-> At(h, level)]
    <3>1. h = [level \in (M - (m + 1))..M |-> At(f, level)]
      OBVIOUS
    <3>. HIDE DEF h, At
    <3>. QED BY <2>4, <3>1
  <2>. HIDE DEF h, At
  <2>. QED BY <2>5
<1>4. M \in Q
  <2>. HIDE DEF Q
  <2>. QED BY <1>0, <1>2, <1>3, NaturalInduction
<1>5. PICK c : c = [level \in (M - M)..M |-> At(c, level)]
  <2>. HIDE DEF At
  <2>. QED BY <1>0, <1>4
<1>6. (M - M)..M = Levels
  BY <1>0 DEF Levels
<1>. QED BY <1>5, <1>6 DEF Dedups

(* At each level, what is given out is rejoined from the next.             *)
LEMMA UniquedIsRejoined ==
  ASSUME NEW q, NEW level \in Levels, NEW batches \in Input
  PROVE  Uniqued(q)[level][batches] = Rejoined(q, Uniqued(q), level, batches)
<1>. PICK c : c = Uniqued(q)
  OBVIOUS
<1>1. Dedups(q, c)
  BY UniquedIsChosen, UniqueExists
<1>2. c[level][batches] = Rejoined(q, c, level, batches)
  BY <1>1 DEF Dedups
<1>. QED BY <1>2

(* What a unique of numbered batches is to answer.                         *)
Gives(rows, R) == rows \in Seq(Row) /\ Numbered(rows) /\ ToSet(rows) = Firsts(R)

Uniquely(q, batches, all) ==
  /\ ~q.alone => ~all.refused
  /\ ~all.refused => Gives(all.rows, ToSet(FlattenSeq(batches)))

(* Sequences of different rows, joined.                                    *)
LEMMA ApartFlatten ==
  ASSUME NEW gs \in Seq(Seq(Row)), NEW F, \A i \in 1..Len(gs) : IsInjective(gs[i]) /\ ToSet(gs[i]) = F[i],
         \A i, j \in 1..Len(gs) : i # j => F[i] \intersect F[j] = {}
  PROVE  /\ FlattenSeq(gs) \in Seq(Row) /\ IsInjective(FlattenSeq(gs))
         /\ ToSet(FlattenSeq(gs)) = UNION {F[i] : i \in 1..Len(gs)}
<1>. PICK n : n = Len(gs)
  OBVIOUS
<1>1. n \in Nat
  OBVIOUS
<1>. DEFINE G(k) == FlattenSeq(SubSeq(gs, 1, k))
            U(k) == UNION {F[i] : i \in 1..k}
            P(k) == G(k) \in Seq(Row) /\ IsInjective(G(k)) /\ ToSet(G(k)) = U(k)
            Q == {k \in Nat : k <= n => P(k)}
<1>2. G(0) = <<>> /\ G(n) = FlattenSeq(gs) /\ \A k \in 1..n : G(k) = G(k - 1) \o gs[k]
  BY <1>1, FlattenFront
<1>3. 0 \in Q
  <2>1. U(0) = {}
    OBVIOUS
  <2>2. <<>> \in Seq(Row) /\ IsInjective(<<>>) /\ ToSet(<<>>) = {}
    BY DEF IsInjective, ToSet
  <2>3. P(0)
    <3>. HIDE DEF G, U
    <3>. QED BY <1>2, <2>1, <2>2
  <2>. QED BY <2>3
<1>4. ASSUME NEW k \in Nat, k \in Q PROVE k + 1 \in Q
  <2>. SUFFICES ASSUME k + 1 <= n PROVE P(k + 1)
    OBVIOUS
  <2>1. k + 1 \in 1..n /\ (k + 1) - 1 = k /\ k <= n
    OBVIOUS
  <2>. PICK u, v : u = G(k) /\ v = gs[k + 1]
    OBVIOUS
  <2>2. P(k)
    BY <1>4, <2>1
  <2>3. u \in Seq(Row) /\ IsInjective(u) /\ ToSet(u) = U(k)
    <3>. HIDE DEF G, U
    <3>. QED BY <2>2
  <2>4. v \in Seq(Row) /\ IsInjective(v) /\ ToSet(v) = F[k + 1]
    BY <2>1
  <2>5. G(k + 1) = u \o v
    <3>. HIDE DEF G, U
    <3>. QED BY <1>2, <2>1
  <2>6. U(k + 1) = U(k) \union F[k + 1]
    <3>1. \A i : i \in 1..(k + 1) <=> i \in 1..k \/ i = k + 1
      OBVIOUS
    <3>. QED BY <3>1
  <2>7. U(k) \intersect F[k + 1] = {}
    <3>1. \A i \in 1..k : i \in 1..n /\ i # k + 1
      BY <2>1
    <3>2. \A i \in 1..k : F[i] \intersect F[k + 1] = {}
      BY <2>1, <3>1
    <3>. QED BY <3>2
  <2>. HIDE DEF G, U
  <2>8. IsInjective(u \o v)
    BY <2>3, <2>4, <2>7, JoinApart
  <2>9. u \o v \in Seq(Row) /\ ToSet(u \o v) = ToSet(u) \union ToSet(v)
    BY <2>3, <2>4, RowsJoin
  <2>. QED BY <2>3, <2>4, <2>5, <2>6, <2>8, <2>9
<1>5. n \in Q
  <2>. HIDE DEF Q
  <2>. QED BY <1>1, <1>3, <1>4, NaturalInduction
<1>6. P(n)
  BY <1>5
<1>. QED BY <1>2, <1>6

(* A level answers right if the next one does.                             *)
LEMMA RejoinedHolds ==
  ASSUME NEW q, NEW c, NEW level \in Levels, \A key \in Keys : q.hash[level][key] \in Parts,
         q.alone \in BOOLEAN, NEW batches \in Input, Numbered(FlattenSeq(batches)),
         level # MaxSpillDepth =>
           \A b \in Input : Numbered(FlattenSeq(b)) => Uniquely(q, b, c[level + 1][b])
  PROVE  Uniquely(q, batches, Rejoined(q, c, level, batches))
<1>. PICK s : s = Pulled(q, level, batches)
  OBVIOUS
<1>. PICK R : R = ToSet(FlattenSeq(batches))
  OBVIOUS
<1>1. PullHolds(q, level, s, R)
  BY PulledHolds
<1>2. R \subseteq Row /\ \A x, y \in R : x.id = y.id => x = y
  <2>1. FlattenSeq(batches) \in Seq(Row)
    BY BatchesFollow
  <2>. QED BY <2>1, RowsApart
<1>. DEFINE sub(i) == FileRows(c, level, s, i)
            File(p) == ToSet(FlattenSeq(s.files[p]))
<1>. PICK F : F = [i \in 1..NParts |-> Firsts(File(i - 1))]
  OBVIOUS
<1>. PICK gs : gs = [i \in 1..NParts |-> sub(i).rows]
  OBVIOUS
<1>. PICK all : all = Rejoined(q, c, level, batches)
  OBVIOUS
<1>3. /\ all.rows = s.out \o MergeByOrdinal(FlattenSeq(gs))
      /\ all.refused <=> s.refused \/ \E i \in 1..NParts : sub(i).refused
  <2>. PICK subs : subs = [i \in 1..NParts |-> sub(i)]
    OBVIOUS
  <2>1. all = Rejoin(s, subs)
    BY DEF Rejoined
  <2>2. gs = [i \in 1..NParts |-> subs[i].rows] /\ \A i \in 1..NParts : subs[i] = sub(i)
    OBVIOUS
  <2>. HIDE DEF sub
  <2>. QED BY ONLY <2>1, <2>2 DEF Rejoin
<1>4. NParts \in Nat /\ (\A i \in 1..NParts : i - 1 \in Parts)
      /\ \A p \in Parts : p + 1 \in 1..NParts /\ (p + 1) - 1 = p
  BY KeysAssumption DEF Parts
<1>5. ASSUME ~s.refused, NEW i \in 1..NParts
      PROVE  /\ ~q.alone => ~sub(i).refused
             /\ ~sub(i).refused => Gives(gs[i], File(i - 1))
  <2>. PICK file : file = s.files[i - 1]
    OBVIOUS
  <2>0. gs[i] = sub(i).rows /\ File(i - 1) = ToSet(FlattenSeq(file))
    OBVIOUS
  <2>1. CASE file = <<>>
    <3>1. sub(i) = [rows |-> <<>>, refused |-> FALSE]
      BY <2>1 DEF FileRows
    <3>2. FlattenSeq(<<>>) = <<>>
      BY DEF FlattenSeq
    <3>3. ToSet(<<>>) = {} /\ Numbered(<<>>) /\ <<>> \in Seq(Row)
      BY DEF ToSet, Numbered
    <3>. HIDE DEF sub, File
    <3>4. File(i - 1) = {} /\ gs[i] = <<>> /\ ~sub(i).refused
      BY <2>0, <2>1, <3>1, <3>2, <3>3
    <3>. QED BY <3>3, <3>4 DEF Gives, Firsts
  <2>2. CASE file # <<>>
    <3>1. sub(i) = c[level + 1][file]
      BY <2>2 DEF FileRows
    <3>2. file \in Input /\ Numbered(FlattenSeq(file)) /\ level # MaxSpillDepth
      BY <1>1, <1>4, <1>5, <2>2 DEF PullHolds
    <3>3. Uniquely(q, file, c[level + 1][file])
      BY <3>2
    <3>. HIDE DEF sub, File
    <3>. QED BY <2>0, <3>1, <3>3 DEF Uniquely
  <2>. QED BY <2>1, <2>2
<1>6. ~q.alone => ~all.refused
  <2>1. ~q.alone => ~s.refused
    BY <1>1 DEF PullHolds
  <2>. HIDE DEF sub, File
  <2>. QED BY <1>3, <1>5, <2>1
<1>7. ASSUME ~all.refused PROVE Gives(all.rows, R)
  <2>0. ~s.refused
    <3>. HIDE DEF sub, File
    <3>. QED BY <1>3, <1>7
  <2>1. \A i \in 1..NParts : Gives(gs[i], File(i - 1))
    <3>. HIDE DEF sub, File
    <3>. QED BY <1>3, <1>5, <1>7, <2>0
  <2>2. /\ s.out \in Seq(Row) /\ s.keys = KeysOf(s.out) /\ Numbered(s.out) /\ ToSet(s.out) \subseteq Firsts(R)
        /\ \A p \in Parts : \A r \in File(p) :
             /\ r \in R /\ r.key \notin s.keys /\ q.hash[level][r.key] = p
             /\ \A x \in ToSet(s.out) : x.id < r.id
        /\ \A r \in R : r.key \in s.keys \/ \E p \in Parts : r \in File(p)
    BY <1>1, <2>0 DEF PullHolds
  <2>. HIDE DEF sub, File
  <2>3. gs \in Seq(Seq(Row)) /\ Len(gs) = NParts
    <3>1. \A i \in 1..NParts : gs[i] \in Seq(Row)
      BY <2>1 DEF Gives
    <3>2. gs \in [1..NParts -> Seq(Row)]
      BY <3>1
    <3>. QED BY ONLY <1>4, <3>2, SeqDef
  <2>4. ASSUME NEW i \in 1..NParts
        PROVE  /\ IsInjective(gs[i]) /\ ToSet(gs[i]) = F[i] /\ i - 1 \in Parts
               /\ F[i] = Firsts(File(i - 1)) /\ F[i] \subseteq File(i - 1) /\ F[i] \subseteq R
    <3>1. gs[i] \in Seq(Row) /\ Numbered(gs[i]) /\ ToSet(gs[i]) = Firsts(File(i - 1))
      BY <2>1 DEF Gives
    <3>2. IsInjective(gs[i])
      BY <3>1, RowsApart
    <3>3. Firsts(File(i - 1)) \subseteq File(i - 1)
      BY DEF Firsts
    <3>. QED BY <1>4, <2>2, <3>1, <3>2, <3>3
  <2>5. ASSUME NEW i \in 1..NParts, NEW j \in 1..NParts, i # j
        PROVE  F[i] \intersect F[j] = {}
    <3>1. \A x \in F[i] : q.hash[level][x.key] = i - 1
      BY <2>2, <2>4
    <3>2. \A x \in F[j] : q.hash[level][x.key] = j - 1
      BY <2>2, <2>4
    <3>3. i - 1 # j - 1
      BY <2>5
    <3>. QED BY ONLY <3>1, <3>2, <3>3
  <2>. PICK V, flat : V = UNION {F[i] : i \in 1..NParts} /\ flat = FlattenSeq(gs)
    OBVIOUS
  <2>6. flat \in Seq(Row) /\ IsInjective(flat) /\ ToSet(flat) = V
    <3>1. gs \in Seq(Seq(Row))
      BY <2>3
    <3>2. \A i \in 1..Len(gs) : IsInjective(gs[i]) /\ ToSet(gs[i]) = F[i]
      BY <2>3, <2>4
    <3>3. \A i, j \in 1..Len(gs) : i # j => F[i] \intersect F[j] = {}
      BY <2>3, <2>5
    <3>4. /\ FlattenSeq(gs) \in Seq(Row) /\ IsInjective(FlattenSeq(gs))
          /\ ToSet(FlattenSeq(gs)) = UNION {F[i] : i \in 1..Len(gs)}
      BY ONLY <3>1, <3>2, <3>3, ApartFlatten
    <3>. QED BY <2>3, <3>4
  <2>7. V \subseteq R
    BY <2>4
  <2>. PICK merged : merged = MergeByOrdinal(flat)
    OBVIOUS
  <2>8. merged \in Seq(Row) /\ ToSet(merged) = V /\ Numbered(merged)
    <3>1. \A x, y \in ToSet(flat) : x.id = y.id => x = y
      BY <1>2, <2>6, <2>7
    <3>. QED BY <2>6, <3>1, RowsSorted
  <2>9. /\ s.out \o merged \in Seq(Row) /\ Numbered(s.out \o merged)
        /\ ToSet(s.out \o merged) = ToSet(s.out) \union V
    <3>1. \A x \in ToSet(s.out), y \in ToSet(merged) : x.id < y.id
      BY <2>2, <2>4, <2>8
    <3>. PICK out : out = s.out
      OBVIOUS
    <3>2. out \in Seq(Row) /\ Numbered(out)
      BY <2>2
    <3>3. merged \in Seq(Row) /\ Numbered(merged) /\ ToSet(merged) = V
      BY <2>8
    <3>4. \A x \in ToSet(out), y \in ToSet(merged) : x.id < y.id
      BY <3>1
    <3>5. /\ out \o merged \in Seq(Row) /\ Numbered(out \o merged)
          /\ ToSet(out \o merged) = ToSet(out) \union ToSet(merged)
      BY ONLY <3>2, <3>3, <3>4, RowsJoin
    <3>. QED BY <3>3, <3>5
  <2>10. ASSUME NEW r \in V PROVE r \in Firsts(R)
    <3>1. PICK i \in 1..NParts : r \in F[i]
      OBVIOUS
    <3>2. r \in File(i - 1) /\ i - 1 \in Parts /\ r \in R
      BY <2>4, <3>1
    <3>3. ASSUME NEW x \in R, x.key = r.key PROVE ~(x.id < r.id)
      <4>1. PICK p \in Parts : x \in File(p)
        BY <2>2, <3>2, <3>3
      <4>2. p = i - 1
        BY <2>2, <3>2, <3>3, <4>1
      <4>. QED BY <2>4, <3>1, <3>3, <4>1, <4>2 DEF Firsts
    <3>. QED BY <3>2, <3>3 DEF Firsts
  <2>11. ASSUME NEW r \in Firsts(R) PROVE r \in ToSet(s.out) \union V
    <3>0. r \in R /\ r.id \in Int
      BY <1>2 DEF Firsts, Row
    <3>1. CASE r.key \in s.keys
      <4>1. PICK o \in ToSet(s.out) : o.key = r.key
        BY <2>2, <3>1 DEF KeysOf
      <4>2. o \in Firsts(R) /\ o \in R /\ o.id \in Int
        BY <1>2, <2>2 DEF Firsts, Row
      <4>3. ~(o.id < r.id) /\ ~(r.id < o.id)
        BY <3>0, <4>1, <4>2 DEF Firsts
      <4>4. o.id = r.id
        BY ONLY <3>0, <4>2, <4>3
      <4>. QED BY <1>2, <3>0, <4>2, <4>4
    <3>2. CASE r.key \notin s.keys
      <4>1. PICK p \in Parts : r \in File(p)
        BY <2>2, <3>0, <3>2
      <4>2. File(p) \subseteq R
        BY <2>2
      <4>3. r \in Firsts(File(p))
        BY <4>1, <4>2 DEF Firsts
      <4>4. p + 1 \in 1..NParts /\ F[p + 1] = Firsts(File(p))
        <5>1. p + 1 \in 1..NParts /\ (p + 1) - 1 = p
          BY <1>4
        <5>. QED BY <2>4, <5>1
      <4>. QED BY <4>3, <4>4
    <3>. QED BY <3>1, <3>2
  <2>12. ToSet(s.out) \union V = Firsts(R)
    BY <2>2, <2>10, <2>11
  <2>13. all.rows = s.out \o merged
    BY <1>3
  <2>. QED BY <2>9, <2>12, <2>13 DEF Gives
<1>. QED BY <1>6, <1>7 DEF Uniquely

(* Every level answers right.                                              *)
LEMMA UniquedHolds ==
  ASSUME NEW q, \A level \in Levels, key \in Keys : q.hash[level][key] \in Parts,
         q.alone \in BOOLEAN, NEW batches \in Input, Numbered(FlattenSeq(batches))
  PROVE  Uniquely(q, batches, Uniqued(q)[0][batches])
<1>. DEFINE M == MaxSpillDepth
            Right(level) == \A b \in Input :
                              Numbered(FlattenSeq(b)) => Uniquely(q, b, Uniqued(q)[level][b])
            Q == {m \in Nat : m <= M => Right(M - m)}
<1>0. M \in Nat /\ Levels = 0..M
  BY KeysAssumption DEF Levels
<1>1. ASSUME NEW level \in Levels, level # M => Right(level + 1) PROVE Right(level)
  <2>. SUFFICES ASSUME NEW b \in Input, Numbered(FlattenSeq(b))
                PROVE  Uniquely(q, b, Uniqued(q)[level][b])
    OBVIOUS
  <2>1. Uniquely(q, b, Rejoined(q, Uniqued(q), level, b))
    <3>1. \A key \in Keys : q.hash[level][key] \in Parts
      OBVIOUS
    <3>. QED BY <1>1, <3>1, RejoinedHolds
  <2>. QED BY <2>1, UniquedIsRejoined
<1>2. 0 \in Q
  <2>1. M - 0 = M /\ M \in Levels
    BY <1>0
  <2>2. Right(M - 0)
    <3>. HIDE DEF Right
    <3>. QED BY <1>1, <2>1
  <2>. QED BY <2>2
<1>3. ASSUME NEW m \in Nat, m \in Q PROVE m + 1 \in Q
  <2>. SUFFICES ASSUME m + 1 <= M PROVE Right(M - (m + 1))
    OBVIOUS
  <2>1. M - (m + 1) \in Levels /\ (M - (m + 1)) + 1 = M - m /\ m <= M
    BY <1>0
  <2>2. Right(M - m)
    BY <1>3, <2>1
  <2>. HIDE DEF Right
  <2>. QED BY <1>1, <2>1, <2>2
<1>4. M \in Q
  <2>. HIDE DEF Q
  <2>. QED BY <1>0, <1>2, <1>3, NaturalInduction
<1>5. Right(0)
  <2>1. M - M = 0 /\ M <= M
    BY <1>0
  <2>2. Right(M - M)
    <3>. HIDE DEF Right
    <3>. QED BY <1>4, <2>1
  <2>. HIDE DEF Right
  <2>. QED BY <2>1, <2>2
<1>. QED BY <1>5

(* A unique gives the first row of each key in the order of the input,    *)
(* whenever it froze, and is refused only if the query alone is over its  *)
(* limit: for any batches, hash, number of buckets, depth and course of   *)
(* the budget (ops2.go, extdistinct.go).                                  *)
THEOREM FirstsExact == KeysSpec => []FirstsAreExact
<1>1. Posed => FirstsAreExact
  <2>. SUFFICES ASSUME Posed, op = "unique", answer # NoAnswer PROVE FirstsAreExact
    BY DEF FirstsAreExact
  <2>1. PICK x \in Uniques : question = x /\ answer = Uniqued(x.q)[0][x.batches]
    BY DEF Posed
  <2>. PICK q, batches : q = x.q /\ batches = x.batches
    OBVIOUS
  <2>2. /\ batches \in Input /\ Numbered(FlattenSeq(batches)) /\ q.alone \in BOOLEAN
        /\ \A level \in Levels, key \in Keys : q.hash[level][key] \in Parts
    BY KeysAssumption DEF Asked
  <2>3. Uniquely(q, batches, answer)
    BY <2>1, <2>2, UniquedHolds
  <2>. PICK u : u = FlattenSeq(batches)
    OBVIOUS
  <2>4. u \in Seq(Row) /\ Numbered(u)
    BY <2>2, BatchesFollow
  <2>5. New({}, u) \in Seq(Row) /\ Numbered(New({}, u)) /\ ToSet(New({}, u)) = Firsts(ToSet(u))
    <3>1. {r \in Firsts(ToSet(u)) : r.key \notin {}} = Firsts(ToSet(u))
      OBVIOUS
    <3>. QED BY <2>4, <3>1, NewFirsts
  <2>6. ~answer.refused => answer.rows = New({}, u)
    <3>1. ~answer.refused => Gives(answer.rows, ToSet(u))
      BY <2>3 DEF Uniquely
    <3>. QED BY <2>5, <3>1, RowsAgree DEF Gives
  <2>7. ~q.alone => ~answer.refused
    BY <2>3 DEF Uniquely
  <2>. QED BY <2>1, <2>6, <2>7 DEF FirstsAreExact
<1>. QED BY <1>1, PosedHolds, PTL

(* Whatever is asked of either, for any input, hash, number of buckets,    *)
(* depth and course of the budget, it is answered as if nothing spilled    *)
(* (extagg.go, extdistinct.go).                                            *)
THEOREM KeysExact == KeysSpec => []KeysAreExact
<1>1. GroupsAreExact /\ FirstsAreExact => KeysAreExact
  BY DEF KeysAreExact
<1>. QED BY GroupsExact, FirstsExact, <1>1, PTL

-----------------------------------------------------------------------------
(* Sequences and the sets of their elements.                               *)

(* A sequence is one of its elements.                                      *)
LEMMA SeqOverSet ==
  ASSUME NEW S, NEW u \in Seq(S)
  PROVE  u \in Seq(ToSet(u)) /\ ToSet(u) \subseteq S
<1>. PICK T, m : T = ToSet(u) /\ m = Len(u)
  OBVIOUS
<1>1. m \in Nat /\ DOMAIN u = 1..m /\ u \in [1..m -> S]
  OBVIOUS
<1>2. \A i \in 1..m : u[i] \in T
  BY <1>1 DEF ToSet
<1>3. u \in [1..m -> T]
  BY ONLY <1>1, <1>2
<1>4. u \in Seq(T)
  BY ONLY <1>1, <1>3, SeqDef
<1>5. T \subseteq S
  BY <1>1 DEF ToSet
<1>. QED BY <1>4, <1>5

-----------------------------------------------------------------------------
(* Rising sequences, one of whose elements the other keeps.                *)

(* What is the i-th of some stands no sooner than i-th among more.         *)
LEMMA RisingDeep ==
  ASSUME NEW S, NEW n \in [S -> Int], NEW s \in Seq(S), NEW t \in Seq(S),
         Rises(s, n), Rises(t, n), ToSet(s) \subseteq ToSet(t)
  PROVE  \A i \in 1..Len(s), j \in 1..Len(t) : t[j] = s[i] => i <= j
<1>0. /\ Len(s) \in Nat /\ Len(t) \in Nat /\ DOMAIN s = 1..Len(s) /\ DOMAIN t = 1..Len(t)
      /\ \A i \in 1..Len(s) : s[i] \in S /\ n[s[i]] \in Int /\ \E j \in 1..Len(t) : t[j] = s[i]
      /\ \A i \in 1..Len(t) : t[i] \in S /\ n[t[i]] \in Int
  <2>1. Len(s) \in Nat /\ Len(t) \in Nat /\ DOMAIN s = 1..Len(s) /\ DOMAIN t = 1..Len(t)
    OBVIOUS
  <2>2. \A i \in 1..Len(s) : s[i] \in S /\ n[s[i]] \in Int
    OBVIOUS
  <2>3. \A i \in 1..Len(t) : t[i] \in S /\ n[t[i]] \in Int
    OBVIOUS
  <2>4. \A i \in 1..Len(s) : \E j \in 1..Len(t) : t[j] = s[i]
    BY <2>1 DEF ToSet
  <2>. QED BY <2>1, <2>2, <2>3, <2>4
<1>. DEFINE Q == {m \in Nat : m \in 1..Len(s) => \A j \in 1..Len(t) : t[j] = s[m] => m <= j}
<1>1. 0 \in Q
  OBVIOUS
<1>2. ASSUME NEW m \in Nat, m \in Q PROVE m + 1 \in Q
  <2>. SUFFICES ASSUME m + 1 \in 1..Len(s), NEW j \in 1..Len(t), t[j] = s[m + 1]
                PROVE  m + 1 <= j
    OBVIOUS
  <2>1. CASE m = 0
    BY <2>1
  <2>2. CASE m # 0
    <3>1. m \in 1..Len(s)
      BY <1>0, <2>2
    <3>2. PICK k \in 1..Len(t) : t[k] = s[m]
      BY <1>0, <3>1
    <3>3. m <= k
      BY <1>2, <3>1, <3>2
    <3>4. n[t[k]] < n[t[j]]
      <4>1. m < m + 1
        OBVIOUS
      <4>2. n[s[m]] < n[s[m + 1]]
        BY <1>0, <3>1, <4>1 DEF Rises
      <4>. QED BY <3>2, <4>2
    <3>5. k < j
      <4>. SUFFICES ASSUME ~(k < j) PROVE FALSE
        OBVIOUS
      <4>1. k = j \/ j < k
        OBVIOUS
      <4>2. n[t[j]] < n[t[k]] \/ t[j] = t[k]
        BY <1>0, <4>1 DEF Rises
      <4>. QED BY <1>0, <3>4, <4>2
    <3>. QED BY <3>3, <3>5
  <2>. QED BY <2>1, <2>2
<1>3. Nat \subseteq Q
  <2>. HIDE DEF Q
  <2>. QED BY <1>1, <1>2, NaturalInduction
<1>. QED BY <1>0, <1>3

(* Of A, K keeps the first l: an element it does not keep has l of them    *)
(* before it.  Of 0 it keeps all.                                          *)
Keeps(n, l, K, A) ==
  /\ K \subseteq A
  /\ l = 0 => K = A
  /\ \A x \in A \ K : \E u \in Seq(K) :
       Rises(u, n) /\ Len(u) = l /\ \A i \in 1..l : n[u[i]] < n[x]

(* The first l of a rising sequence, or all of them.                       *)
FirstOf(l, s) == IF l = 0 \/ Len(s) <= l THEN s ELSE SubSeq(s, 1, l)

(* The first l of the elements kept are the first l of all.                *)
LEMMA KeptAgree ==
  ASSUME NEW S, NEW n \in [S -> Int], NEW s \in Seq(S), NEW t \in Seq(S), NEW l \in Nat,
         Rises(s, n), Rises(t, n), Keeps(n, l, ToSet(s), ToSet(t))
  PROVE  FirstOf(l, s) = FirstOf(l, t)
<1>. DEFINE K == ToSet(s)
            A == ToSet(t)
<1>0. /\ Len(s) \in Nat /\ Len(t) \in Nat /\ DOMAIN s = 1..Len(s) /\ DOMAIN t = 1..Len(t)
      /\ \A i \in 1..Len(s) : s[i] \in S /\ n[s[i]] \in Int
      /\ \A i \in 1..Len(t) : t[i] \in S /\ n[t[i]] \in Int
      /\ K \subseteq S /\ A \subseteq S /\ K \subseteq A
  <2>1. Len(s) \in Nat /\ Len(t) \in Nat /\ DOMAIN s = 1..Len(s) /\ DOMAIN t = 1..Len(t)
    OBVIOUS
  <2>2. \A i \in 1..Len(s) : s[i] \in S /\ n[s[i]] \in Int
    OBVIOUS
  <2>3. \A i \in 1..Len(t) : t[i] \in S /\ n[t[i]] \in Int
    OBVIOUS
  <2>4. K \subseteq S /\ A \subseteq S
    BY <2>1, <2>2, <2>3 DEF ToSet
  <2>. QED BY <2>1, <2>2, <2>3, <2>4 DEF Keeps
<1>1. CASE l = 0
  <2>1. K = A
    BY <1>1 DEF Keeps
  <2>2. s = t
    BY <2>1, RisingAgree
  <2>. QED BY <2>2
<1>2. CASE l # 0
  <2>1. \A i \in 1..Len(s), j \in 1..Len(t) : t[j] = s[i] => i <= j
    BY <1>0, RisingDeep
  <2>2. ASSUME NEW k \in 1..Len(t), k <= l PROVE t[k] \in K
    <3>. SUFFICES ASSUME t[k] \notin K PROVE FALSE
      OBVIOUS
    <3>1. t[k] \in A
      BY <1>0 DEF ToSet
    <3>2. PICK u \in Seq(K) : Rises(u, n) /\ Len(u) = l /\ \A i \in 1..l : n[u[i]] < n[t[k]]
      BY <3>1 DEF Keeps
    <3>3. u \in Seq(S) /\ ToSet(u) \subseteq A /\ l \in 1..l /\ u[l] \in K /\ DOMAIN u = 1..l
      <4>1. \A i \in 1..Len(u) : u[i] \in K
        OBVIOUS
      <4>2. DOMAIN u = 1..Len(u)
        OBVIOUS
      <4>3. u \in Seq(S)
        BY <1>0, SeqMonotonic
      <4>. HIDE DEF K, A
      <4>. QED BY <1>0, <1>2, <3>2, <4>1, <4>2, <4>3 DEF ToSet
    <3>4. PICK j \in 1..Len(t) : t[j] = u[l]
      BY <1>0, <3>3 DEF ToSet
    <3>5. l <= j
      BY <3>2, <3>3, <3>4, RisingDeep
    <3>6. n[t[j]] < n[t[k]]
      BY <3>2, <3>3, <3>4
    <3>7. k = j \/ k < j
      BY <2>2, <3>5
    <3>8. t[k] = t[j] \/ n[t[k]] < n[t[j]]
      BY <1>0, <3>7 DEF Rises
    <3>. QED BY <1>0, <3>6, <3>8
  <2>3. ASSUME NEW k \in 1..Len(t), k <= l PROVE k \in 1..Len(s) /\ s[k] = t[k]
    <3>. PICK u : u = SubSeq(t, 1, k)
      OBVIOUS
    <3>1. u \in Seq(S) /\ Len(u) = k /\ DOMAIN u = 1..k /\ \A i \in 1..k : u[i] = t[i]
      BY <1>0
    <3>2. Rises(u, n)
      BY <1>0, <3>1 DEF Rises
    <3>3. ToSet(u) \subseteq K
      <4>1. \A i \in 1..k : i \in 1..Len(t) /\ i <= l
        BY <1>0, <2>3
      <4>2. \A i \in 1..k : t[i] \in K
        BY <2>2, <4>1
      <4>. HIDE DEF K
      <4>. QED BY <3>1, <4>2 DEF ToSet
    <3>4. \A i \in 1..Len(u), j \in 1..Len(s) : s[j] = u[i] => i <= j
      BY <3>1, <3>2, <3>3, RisingDeep
    <3>5. PICK j \in 1..Len(s) : s[j] = t[k]
      BY <1>0, <2>2, <2>3 DEF ToSet
    <3>6. k <= j
      <4>1. k \in 1..Len(u) /\ u[k] = t[k]
        BY <1>0, <3>1
      <4>. QED BY <3>4, <3>5, <4>1
    <3>7. k \in 1..Len(s)
      BY <1>0, <3>6
    <3>8. PICK m \in 1..Len(t) : t[m] = s[k]
      <4>1. s[k] \in K
        BY <1>0, <3>7 DEF ToSet
      <4>. HIDE DEF K
      <4>. QED BY <1>0, <4>1 DEF ToSet
    <3>9. k <= m
      BY <2>1, <3>7, <3>8
    <3>10. j = k \/ n[s[k]] < n[s[j]]
      <4>1. j = k \/ k < j
        BY <1>0, <3>6, <3>7
      <4>. QED BY <1>0, <3>7, <4>1 DEF Rises
    <3>11. m = k \/ n[t[k]] < n[t[m]]
      <4>1. m = k \/ k < m
        BY <1>0, <3>9
      <4>. QED BY <1>0, <4>1 DEF Rises
    <3>. QED BY <1>0, <3>5, <3>7, <3>8, <3>10, <3>11
  <2>4. CASE Len(t) <= l
    <3>1. \A k \in 1..Len(t) : t[k] \in K
      BY <1>0, <2>2, <2>4
    <3>2. A \subseteq K
      <4>. HIDE DEF K
      <4>. QED BY <1>0, <3>1 DEF ToSet
    <3>3. ToSet(s) = ToSet(t)
      BY <1>0, <3>2
    <3>4. s = t
      BY <3>3, RisingAgree
    <3>. QED BY <3>4
  <2>5. CASE Len(t) > l
    <3>1. \A k \in 1..l : k \in 1..Len(t) /\ k <= l
      BY <1>0, <2>5
    <3>2. \A k \in 1..l : k \in 1..Len(s) /\ s[k] = t[k]
      BY <2>3, <3>1
    <3>3. l \in 1..Len(s)
      BY <1>2, <3>2
    <3>. PICK u, v : u = SubSeq(s, 1, l) /\ v = SubSeq(t, 1, l)
      OBVIOUS
    <3>4. u \in Seq(S) /\ Len(u) = l /\ \A k \in 1..l : u[k] = s[k]
      BY <1>0, <3>2
    <3>5. v \in Seq(S) /\ Len(v) = l /\ \A k \in 1..l : v[k] = t[k]
      BY <1>0, <3>1
    <3>6. u = v
      BY <3>2, <3>4, <3>5, SeqEqual
    <3>7. Len(s) <= l => s = u
      <4>1. Len(s) <= l => Len(s) = l
        <5>1. \A a \in Nat : l \in 1..a /\ a <= l => a = l
          OBVIOUS
        <5>. QED BY <1>0, <3>3, <5>1
      <4>2. Len(s) = l => s = u
        BY <3>4, SeqEqual
      <4>. QED BY <4>1, <4>2
    <3>8. FirstOf(l, s) = u
      BY <1>2, <3>7 DEF FirstOf
    <3>9. FirstOf(l, t) = v
      BY <1>0, <1>2, <2>5 DEF FirstOf
    <3>. QED BY <3>6, <3>8, <3>9
  <2>. QED BY <1>0, <2>4, <2>5
<1>. QED BY <1>1, <1>2

(* The first l of a rising sequence are a rising sequence, and the rest    *)
(* come after all of them.                                                 *)
LEMMA FirstRises ==
  ASSUME NEW S, NEW n \in [S -> Int], NEW s \in Seq(S), NEW l \in Nat, Rises(s, n)
  PROVE  /\ FirstOf(l, s) \in Seq(S) /\ Rises(FirstOf(l, s), n)
         /\ Keeps(n, l, ToSet(FirstOf(l, s)), ToSet(s))
<1>0. /\ Len(s) \in Nat /\ DOMAIN s = 1..Len(s)
      /\ \A i \in 1..Len(s) : s[i] \in S /\ n[s[i]] \in Int
  OBVIOUS
<1>1. CASE l = 0 \/ Len(s) <= l
  <2>1. FirstOf(l, s) = s
    BY <1>1 DEF FirstOf
  <2>. QED BY <2>1 DEF Keeps
<1>2. CASE l # 0 /\ Len(s) > l
  <2>. PICK u : u = SubSeq(s, 1, l)
    OBVIOUS
  <2>1. FirstOf(l, s) = u
    BY <1>0, <1>2 DEF FirstOf
  <2>2. /\ u \in Seq(S) /\ Len(u) = l /\ DOMAIN u = 1..l
        /\ \A i \in 1..l : i \in 1..Len(s) /\ u[i] = s[i]
    BY <1>0, <1>2
  <2>3. Rises(u, n)
    BY <1>0, <2>2 DEF Rises
  <2>4. ToSet(u) \subseteq ToSet(s)
    BY <1>0, <2>2 DEF ToSet
  <2>5. u \in Seq(ToSet(u))
    BY <2>2, SeqOverSet
  <2>6. ASSUME NEW x \in ToSet(s) \ ToSet(u) PROVE \A i \in 1..l : n[u[i]] < n[x]
    <3>1. PICK j \in 1..Len(s) : s[j] = x
      BY <1>0 DEF ToSet
    <3>2. ~(j <= l)
      <4>. SUFFICES ASSUME j <= l PROVE FALSE
        OBVIOUS
      <4>1. j \in 1..l
        BY <1>0
      <4>2. u[j] = x /\ j \in DOMAIN u
        BY <2>2, <3>1, <4>1
      <4>. QED BY <4>2 DEF ToSet
    <3>3. \A i \in 1..l : i < j
      BY <1>0, <3>2
    <3>4. \A i \in 1..l : n[s[i]] < n[s[j]]
      BY <1>0, <2>2, <3>3 DEF Rises
    <3>. QED BY <2>2, <3>1, <3>4
  <2>. QED BY <1>2, <2>1, <2>2, <2>3, <2>4, <2>5, <2>6 DEF Keeps
<1>. QED BY <1>0, <1>1, <1>2

(* All are kept of all, and of more all that come are.                     *)
LEMMA KeepsMore ==
  ASSUME NEW n, NEW l, NEW K, NEW A, NEW I, Keeps(n, l, K, A)
  PROVE  Keeps(n, l, A, A) /\ Keeps(n, l, K \union I, A \union I)
<1>1. Keeps(n, l, A, A)
  BY DEF Keeps
<1>2. ASSUME NEW x \in (A \union I) \ (K \union I)
      PROVE  \E u \in Seq(K \union I) :
               Rises(u, n) /\ Len(u) = l /\ \A i \in 1..l : n[u[i]] < n[x]
  <2>1. PICK u \in Seq(K) : Rises(u, n) /\ Len(u) = l /\ \A i \in 1..l : n[u[i]] < n[x]
    BY DEF Keeps
  <2>2. u \in Seq(K \union I)
    BY SeqMonotonic
  <2>. QED BY <2>1, <2>2
<1>. QED BY <1>1, <1>2 DEF Keeps

(* What keeps the first l of what keeps the first l does, of a part H of   *)
(* it too.                                                                 *)
LEMMA KeepsFewer ==
  ASSUME NEW S, NEW n \in [S -> Int], NEW l \in Nat, NEW M, NEW H, NEW G, NEW A \in SUBSET S,
         Keeps(n, l, M \union H, A), Keeps(n, l, G, H)
  PROVE  Keeps(n, l, M \union G, A)
<1>0. M \union H \subseteq A /\ G \subseteq H /\ (l = 0 => M \union H = A /\ G = H)
  BY DEF Keeps
<1>1. ASSUME NEW x \in H \ G
      PROVE  \E u \in Seq(M \union G) :
               Rises(u, n) /\ Len(u) = l /\ \A i \in 1..l : n[u[i]] < n[x]
  <2>1. PICK u \in Seq(G) : Rises(u, n) /\ Len(u) = l /\ \A i \in 1..l : n[u[i]] < n[x]
    BY DEF Keeps
  <2>2. u \in Seq(M \union G)
    BY SeqMonotonic
  <2>. QED BY <2>1, <2>2
<1>2. ASSUME NEW x \in A \ (M \union H)
      PROVE  \E u \in Seq(M \union G) :
               Rises(u, n) /\ Len(u) = l /\ \A i \in 1..l : n[u[i]] < n[x]
  <2>1. PICK u \in Seq(M \union H) : Rises(u, n) /\ Len(u) = l /\ \A i \in 1..l : n[u[i]] < n[x]
    BY DEF Keeps
  <2>2. \A i \in 1..l : u[i] \in M \union H
    BY <2>1
  <2>3. CASE \A i \in 1..l : u[i] \in M \union G
    <3>1. u \in [1..l -> M \union G]
      BY <2>1, <2>3
    <3>2. u \in Seq(M \union G)
      BY <3>1, SeqDef
    <3>. QED BY <2>1, <3>2
  <2>4. CASE \E i \in 1..l : u[i] \notin M \union G
    <3>1. PICK i \in 1..l : u[i] \notin M \union G
      BY <2>4
    <3>2. u[i] \in H \ G /\ u[i] \in S /\ x \in S
      BY <1>0, <2>2, <3>1
    <3>3. PICK v \in Seq(M \union G) :
            Rises(v, n) /\ Len(v) = l /\ \A j \in 1..l : n[v[j]] < n[u[i]]
      BY <1>1, <3>2
    <3>4. \A j \in 1..l : v[j] \in S
      <4>1. \A j \in 1..l : v[j] \in M \union G
        BY <3>3
      <4>. QED BY <1>0, <4>1
    <3>5. \A j \in 1..l : n[v[j]] < n[x]
      BY <2>1, <3>2, <3>3, <3>4
    <3>. QED BY <3>3, <3>5
  <2>. QED BY <2>3, <2>4
<1>3. M \union G \subseteq A /\ (l = 0 => M \union G = A)
  BY <1>0
<1>4. ASSUME NEW x \in A \ (M \union G)
      PROVE  \E u \in Seq(M \union G) :
               Rises(u, n) /\ Len(u) = l /\ \A i \in 1..l : n[u[i]] < n[x]
  BY <1>1, <1>2
<1>. QED BY <1>3, <1>4 DEF Keeps
-----------------------------------------------------------------------------
(* The order of rows: by their keys, and of equal keys by their places.    *)

Directed(q) == q.descending \in BOOLEAN /\ q.nullsLast \in BOOLEAN

Precedes(q, a, b) ==
  Before(q, a.key, b.key) \/ (~Before(q, b.key, a.key) /\ a.id < b.id)

(* It is an order, and of two rows with numbers of their own one precedes. *)
LEMMA PrecedesOrders ==
  ASSUME NEW q, Directed(q)
  PROVE  /\ \A a \in KeyedRow : ~Precedes(q, a, a)
         /\ \A a, b, c \in KeyedRow : Precedes(q, a, b) /\ Precedes(q, b, c) => Precedes(q, a, c)
         /\ \A a, b \in KeyedRow : a.id # b.id => Precedes(q, a, b) \/ Precedes(q, b, a)
<1>. DEFINE Key == Int \union {NullKey}
<1>0. NullKey \notin Int /\ \A a \in KeyedRow : a.key \in Key /\ a.id \in Int
  BY OrderAssumption DEF KeyedRow
<1>1. \A x \in Key : ~Before(q, x, x)
  BY <1>0 DEF Before
<1>2. \A x, y, z \in Key : Before(q, x, y) /\ Before(q, y, z) => Before(q, x, z)
  BY <1>0 DEF Before, Directed
<1>3. \A x, y, z \in Key : ~Before(q, x, y) /\ ~Before(q, y, z) => ~Before(q, x, z)
  BY <1>0 DEF Before, Directed
<1>4. \A x, y \in Key : Before(q, x, y) => ~Before(q, y, x)
  BY <1>0 DEF Before, Directed
<1>. HIDE DEF Key
<1>5. \A a \in KeyedRow : ~Precedes(q, a, a)
  BY <1>0, <1>1 DEF Precedes
<1>6. ASSUME NEW a \in KeyedRow, NEW b \in KeyedRow, NEW c \in KeyedRow,
             Precedes(q, a, b), Precedes(q, b, c)
      PROVE  Precedes(q, a, c)
  <2>1. /\ Before(q, a.key, b.key) \/ (~Before(q, b.key, a.key) /\ a.id < b.id)
        /\ Before(q, b.key, c.key) \/ (~Before(q, c.key, b.key) /\ b.id < c.id)
    BY <1>6 DEF Precedes
  <2>2. ~Before(q, c.key, a.key)
    BY <1>0, <1>3, <1>4, <2>1
  <2>3. Before(q, a.key, c.key) \/ a.id < c.id
    <3>1. CASE Before(q, a.key, b.key)
      <4>1. ~Before(q, c.key, b.key)
        BY <1>0, <1>4, <2>1
      <4>2. ~Before(q, a.key, c.key) => ~Before(q, a.key, b.key)
        BY <1>0, <1>3, <4>1
      <4>. QED BY <3>1, <4>2
    <3>2. CASE Before(q, b.key, c.key)
      <4>1. ~Before(q, b.key, a.key)
        BY <1>0, <1>4, <2>1
      <4>2. ~Before(q, a.key, c.key) => ~Before(q, b.key, c.key)
        BY <1>0, <1>3, <4>1
      <4>. QED BY <3>2, <4>2
    <3>3. CASE a.id < b.id /\ b.id < c.id
      BY <1>0, <3>3
    <3>. QED BY <2>1, <3>1, <3>2, <3>3
  <2>. QED BY <2>2, <2>3 DEF Precedes
<1>7. \A a, b \in KeyedRow : a.id # b.id => Precedes(q, a, b) \/ Precedes(q, b, a)
  <2>. SUFFICES ASSUME NEW a \in KeyedRow, NEW b \in KeyedRow, a.id # b.id
                PROVE  Precedes(q, a, b) \/ Precedes(q, b, a)
    OBVIOUS
  <2>1. a.id < b.id \/ b.id < a.id
    BY <1>0
  <2>. QED BY <2>1 DEF Precedes
<1>. QED BY <1>5, <1>6, <1>7

(* Numbers that are in the order of the rows of X.                         *)
Embeds(q, X, n) ==
  /\ n \in [X -> Nat]
  /\ X \subseteq KeyedRow
  /\ \A r, x \in X : Precedes(q, r, x) <=> n[r] < n[x]
  /\ \A r, x \in X : r.id = x.id => r = x

(* How many precede it is such a number.                                   *)
LEMMA EmbeddingExists ==
  ASSUME NEW q, Directed(q), NEW X \in SUBSET KeyedRow, IsFiniteSet(X),
         \A r, x \in X : r.id = x.id => r = x
  PROVE  \E n : Embeds(q, X, n)
<1>. DEFINE B(r) == {x \in X : Precedes(q, x, r)}
            n == [r \in X |-> Cardinality(B(r))]
<1>1. ASSUME NEW r \in X
      PROVE  /\ IsFiniteSet(B(r)) /\ Cardinality(B(r)) \in Nat /\ r \notin B(r)
             /\ IsFiniteSet(B(r) \union {r}) /\ Cardinality(B(r) \union {r}) = Cardinality(B(r)) + 1
  <2>1. B(r) \subseteq X
    OBVIOUS
  <2>2. IsFiniteSet(B(r)) /\ Cardinality(B(r)) \in Nat
    BY <2>1, FS_Subset, FS_CardinalityType
  <2>3. r \notin B(r)
    BY PrecedesOrders
  <2>. HIDE DEF B
  <2>. QED BY <2>2, <2>3, FS_AddElement
<1>2. ASSUME NEW r \in X, NEW x \in X, Precedes(q, r, x) PROVE Cardinality(B(r)) < Cardinality(B(x))
  <2>1. B(r) \union {r} \subseteq B(x)
    <3>1. \A y \in B(r) : Precedes(q, y, r) /\ y \in KeyedRow /\ y \in X
      OBVIOUS
    <3>2. \A y \in B(r) : Precedes(q, y, x)
      <4>. HIDE DEF B
      <4>. QED BY <1>2, <3>1, PrecedesOrders
    <3>. QED BY <1>2, <3>2
  <2>. HIDE DEF B
  <2>2. Cardinality(B(r) \union {r}) <= Cardinality(B(x))
    BY <1>1, <2>1, FS_Subset
  <2>. PICK c, d, e : c = Cardinality(B(r)) /\ d = Cardinality(B(r) \union {r}) /\ e = Cardinality(B(x))
    OBVIOUS
  <2>3. c \in Nat /\ e \in Nat /\ d = c + 1 /\ d <= e
    BY <1>1, <2>2
  <2>4. c < e
    BY <2>3
  <2>. QED BY <2>4
<1>3. \A r \in X : n[r] = Cardinality(B(r)) /\ n[r] \in Nat
  <2>. SUFFICES ASSUME NEW r \in X PROVE n[r] = Cardinality(B(r)) /\ n[r] \in Nat
    OBVIOUS
  <2>1. n[r] = Cardinality(B(r))
    OBVIOUS
  <2>2. Cardinality(B(r)) \in Nat
    <3>. HIDE DEF B
    <3>. QED BY <1>1
  <2>. HIDE DEF B, n
  <2>. QED BY <2>1, <2>2
<1>4. n \in [X -> Nat]
  <2>. HIDE DEF B
  <2>. QED BY <1>3
<1>. HIDE DEF n, B
<1>5. ASSUME NEW r \in X, NEW x \in X PROVE Precedes(q, r, x) <=> n[r] < n[x]
  <2>1. Precedes(q, r, x) => n[r] < n[x]
    BY <1>2, <1>3
  <2>2. Precedes(q, x, r) => n[x] < n[r]
    BY <1>2, <1>3
  <2>3. r # x => Precedes(q, r, x) \/ Precedes(q, x, r)
    BY PrecedesOrders
  <2>4. n[r] \in Int /\ n[x] \in Int
    BY <1>3
  <2>. QED BY <2>1, <2>2, <2>3, <2>4
<1>. QED BY <1>4, <1>5 DEF Embeds

(* Rows of equal keys that stand in the order of their numbers.            *)
Stable(q, rows) ==
  \A i, j \in DOMAIN rows :
    i < j => \/ rows[i].id < rows[j].id
             \/ Before(q, rows[i].key, rows[j].key) \/ Before(q, rows[j].key, rows[i].key)

(* Put in order they are the same rows, and rise.                          *)
LEMMA SortedIsRising ==
  ASSUME NEW q, Directed(q), NEW X, NEW n, Embeds(q, X, n), NEW rows \in Seq(X), Stable(q, rows),
         \A i, j \in DOMAIN rows : i # j => rows[i] # rows[j]
  PROVE  /\ Sorted(q, rows) \in Seq(X) /\ Rises(Sorted(q, rows), n)
         /\ ToSet(Sorted(q, rows)) = ToSet(rows)
<1>. PICK D, number, t : D = DOMAIN rows /\ number = [i \in DOMAIN rows |-> n[rows[i]]] /\ t = Sorted(q, rows)
  OBVIOUS
<1>. DEFINE Soon(i, j) == \/ Before(q, rows[i].key, rows[j].key)
                          \/ ~Before(q, rows[j].key, rows[i].key) /\ i < j
<1>0. /\ n \in [X -> Int] /\ X \subseteq KeyedRow /\ Len(rows) \in Nat /\ D = 1..Len(rows)
      /\ \A i \in D : rows[i] \in X /\ rows[i] \in KeyedRow /\ n[rows[i]] \in Int
                      /\ rows[i].id \in Int /\ i \in Int /\ number[i] = n[rows[i]]
      /\ DOMAIN number = D
  <2>1. n \in [X -> Int] /\ X \subseteq KeyedRow
    BY DEF Embeds
  <2>2. Len(rows) \in Nat /\ D = 1..Len(rows) /\ \A i \in D : rows[i] \in X
    OBVIOUS
  <2>3. \A r \in KeyedRow : r.id \in Int
    BY DEF KeyedRow
  <2>4. \A i \in D : rows[i] \in KeyedRow /\ n[rows[i]] \in Int /\ i \in Int
    BY ONLY <2>1, <2>2
  <2>5. DOMAIN number = D /\ \A i \in D : number[i] = n[rows[i]]
    OBVIOUS
  <2>. QED BY ONLY <2>1, <2>2, <2>3, <2>4, <2>5
<1>1. ASSUME NEW i \in D, NEW j \in D, i # j PROVE number[i] # number[j]
  <2>1. rows[i] # rows[j]
    BY <1>1
  <2>2. rows[i].id # rows[j].id
    BY <1>0, <2>1 DEF Embeds
  <2>3. Precedes(q, rows[i], rows[j]) \/ Precedes(q, rows[j], rows[i])
    BY <1>0, <2>2, PrecedesOrders
  <2>4. n[rows[i]] < n[rows[j]] \/ n[rows[j]] < n[rows[i]]
    BY <1>0, <2>3 DEF Embeds
  <2>. QED BY <1>0, <2>4
<1>2. ASSUME NEW i \in D, NEW j \in D PROVE Soon(i, j) <=> Sooner(number, i, j)
  <2>1. CASE i = j
    <3>1. ~Precedes(q, rows[i], rows[i])
      BY <1>0, PrecedesOrders
    <3>2. ~Before(q, rows[i].key, rows[i].key)
      BY <3>1 DEF Precedes
    <3>. QED BY <1>0, <2>1, <3>2 DEF Sooner
  <2>2. CASE i # j
    <3>1. Soon(i, j) <=> Precedes(q, rows[i], rows[j])
      <4>1. i < j \/ j < i
        BY <1>0, <2>2
      <4>2. rows[i].id \in Int /\ rows[j].id \in Int /\ i \in Int /\ j \in Int
        BY <1>0
      <4>3. i < j => \/ rows[i].id < rows[j].id
                     \/ Before(q, rows[i].key, rows[j].key) \/ Before(q, rows[j].key, rows[i].key)
        BY DEF Stable
      <4>4. j < i => \/ rows[j].id < rows[i].id
                     \/ Before(q, rows[j].key, rows[i].key) \/ Before(q, rows[i].key, rows[j].key)
        BY DEF Stable
      <4>. QED BY <4>1, <4>2, <4>3, <4>4 DEF Precedes
    <3>2. Precedes(q, rows[i], rows[j]) <=> n[rows[i]] < n[rows[j]]
      BY <1>0 DEF Embeds
    <3>3. number[i] # number[j]
      BY <1>1, <2>2
    <3>. HIDE DEF Soon
    <3>. QED BY <1>0, <3>1, <3>2, <3>3 DEF Sooner
  <2>. QED BY <2>1, <2>2
<1>3. t = [k \in D |-> rows[CHOOSE i \in D : Cardinality({j \in D : Soon(j, i)}) = k - 1]]
  BY DEF Sorted
<1>4. \A i \in D : {j \in D : Soon(j, i)} = {j \in D : Sooner(number, j, i)}
  <2>. HIDE DEF Soon
  <2>. QED BY <1>2
<1>5. ASSUME NEW k
      PROVE  (CHOOSE i \in D : Cardinality({j \in D : Soon(j, i)}) = k - 1)
               = (CHOOSE i \in D : Cardinality({j \in D : Sooner(number, j, i)}) = k - 1)
  <2>1. \A i : (i \in D /\ Cardinality({j \in D : Soon(j, i)}) = k - 1)
                 <=> (i \in D /\ Cardinality({j \in D : Sooner(number, j, i)}) = k - 1)
    BY <1>4
  <2>. HIDE DEF Soon
  <2>. QED BY <2>1
<1>6. ByNumber(number) = [k \in D |-> CHOOSE i \in D : Cardinality({j \in D : Sooner(number, j, i)}) = k - 1]
  BY <1>0 DEF ByNumber, Sooner
<1>7. SortsBy(t, rows, number)
  <2>1. DOMAIN ByNumber(number) = D
    BY <1>6
  <2>2. \A k \in D : rows[ByNumber(number)[k]]
                       = rows[CHOOSE i \in D : Cardinality({j \in D : Soon(j, i)}) = k - 1]
    <3>. SUFFICES ASSUME NEW k \in D
                  PROVE  rows[ByNumber(number)[k]]
                           = rows[CHOOSE i \in D : Cardinality({j \in D : Soon(j, i)}) = k - 1]
      OBVIOUS
    <3>1. ByNumber(number)[k] = CHOOSE i \in D : Cardinality({j \in D : Sooner(number, j, i)}) = k - 1
      BY <1>6
    <3>. HIDE DEF Soon
    <3>. QED BY <1>5, <3>1
  <2>3. [k \in DOMAIN ByNumber(number) |-> rows[ByNumber(number)[k]]]
          = [k \in D |-> rows[ByNumber(number)[k]]]
    BY ONLY <2>1
  <2>4. [k \in D |-> rows[ByNumber(number)[k]]]
          = [k \in D |-> rows[CHOOSE i \in D : Cardinality({j \in D : Soon(j, i)}) = k - 1]]
    <3>. HIDE DEF Soon
    <3>. QED BY ONLY <2>2
  <2>. HIDE DEF Soon
  <2>. QED BY ONLY <1>3, <2>3, <2>4 DEF SortsBy
<1>8. Numbers(number, rows, n)
  BY <1>0, <1>1 DEF Numbers
<1>. QED BY <1>0, <1>7, <1>8, SortedRises
-----------------------------------------------------------------------------
(* Runs, and their merge.                                                  *)

(* Runs that rise, each of later rows than those before it.                *)
RunsHold(X, n, runs) ==
  /\ runs \in Seq(Seq(X))
  /\ \A i \in 1..Len(runs) : Rises(runs[i], n)
  /\ \A i, j \in 1..Len(runs) : i < j => \A x \in ToSet(runs[i]), y \in ToSet(runs[j]) : x.id < y.id

RowsIn(runs) == UNION {ToSet(runs[i]) : i \in 1..Len(runs)}

(* The row popped is the least of all the runs.                            *)
LEMMA LeastIsLeast ==
  ASSUME NEW q, Directed(q), NEW X, NEW n, Embeds(q, X, n), NEW runs, RunsHold(X, n, runs),
         NEW k \in 1..Len(runs), runs[k] # <<>>, NEW i, i = Least(q, runs)
  PROVE  /\ i \in 1..Len(runs) /\ runs[i] # <<>>
         /\ \A j \in 1..Len(runs) : runs[j] # <<>> /\ j # i => n[runs[i][1]] < n[runs[j][1]]
<1>. PICK m : m = Len(runs)
  OBVIOUS
<1>. DEFINE D == 1..m
            Full == {j \in D : runs[j] # <<>>}
            h == [j \in Full |-> runs[j][1]]
            Wins(w) == /\ runs[w] # <<>>
                       /\ \A j \in D \ {w} : runs[j] # <<>> =>
                            ~Before(q, runs[j][1].key, runs[w][1].key)
                            /\ (j < w => Before(q, runs[w][1].key, runs[j][1].key))
<1>0. /\ n \in [X -> Nat] /\ X \subseteq KeyedRow /\ runs \in Seq(Seq(X)) /\ m \in Nat
      /\ DOMAIN runs = D /\ k \in Full
      /\ \A j \in Full : runs[j][1] = h[j] /\ h[j] \in X /\ h[j] \in KeyedRow /\ n[h[j]] \in Nat
                         /\ h[j] \in ToSet(runs[j]) /\ h[j].id \in Int
  <2>1. n \in [X -> Nat] /\ X \subseteq KeyedRow /\ runs \in Seq(Seq(X))
    BY DEF Embeds, RunsHold
  <2>2. m \in Nat /\ DOMAIN runs = D /\ k \in Full /\ \A j \in D : runs[j] \in Seq(X)
    BY <2>1
  <2>3. \A s \in Seq(X) : s # <<>> => s[1] \in X /\ s[1] \in ToSet(s)
    <3>1. \A s \in Seq(X) : s # <<>> => 1 \in DOMAIN s
      OBVIOUS
    <3>. QED BY <3>1 DEF ToSet
  <2>4. \A j \in Full : runs[j][1] = h[j] /\ h[j] \in X /\ h[j] \in ToSet(runs[j])
    BY <2>2, <2>3
  <2>5. \A r \in KeyedRow : r.id \in Int
    BY DEF KeyedRow
  <2>. HIDE DEF h
  <2>. QED BY <2>1, <2>2, <2>4, <2>5
<1>. HIDE DEF h
<1>1. ASSUME NEW a \in Full, NEW b \in Full, a < b PROVE h[a].id < h[b].id
  BY <1>0, <1>1 DEF RunsHold
<1>2. ASSUME NEW a \in Full, NEW b \in Full, a # b
      PROVE  n[h[a]] < n[h[b]] <=> /\ ~Before(q, h[b].key, h[a].key)
                                   /\ b < a => Before(q, h[a].key, h[b].key)
  <2>1. n[h[a]] < n[h[b]] <=> Precedes(q, h[a], h[b])
    BY <1>0 DEF Embeds
  <2>2. h[a].id < h[b].id <=> a < b
    <3>1. a \in Int /\ b \in Int /\ (a < b \/ b < a)
      BY <1>0, <1>2
    <3>2. h[a].id \in Int /\ h[b].id \in Int
      BY <1>0
    <3>3. b < a => h[b].id < h[a].id
      BY <1>1
    <3>. QED BY <1>1, <3>1, <3>2, <3>3
  <2>3. Before(q, h[a].key, h[b].key) => ~Before(q, h[b].key, h[a].key)
    <3>1. \A r \in KeyedRow : r.key \in Int \union {NullKey}
      BY DEF KeyedRow
    <3>2. h[a].key \in Int \union {NullKey} /\ h[b].key \in Int \union {NullKey}
      BY <1>0, <3>1
    <3>. QED BY <3>2, OrderAssumption DEF Before, Directed
  <2>4. a \in Int /\ b \in Int
    BY <1>0
  <2>. QED BY <1>2, <2>1, <2>2, <2>3, <2>4 DEF Precedes
<1>3. PICK w \in Full : \A j \in Full : n[h[w]] <= n[h[j]]
  <2>. DEFINE T == {n[h[j]] : j \in Full}
  <2>1. T \subseteq Nat /\ T # {}
    BY <1>0
  <2>2. PICK v \in T : \A u \in T : v <= u
    <3>. HIDE DEF T
    <3>. QED BY <2>1, LeastNatural
  <2>. QED BY <2>2
<1>4. \A j \in Full : j # w => n[h[w]] < n[h[j]]
  <2>. SUFFICES ASSUME NEW j \in Full, j # w PROVE n[h[w]] < n[h[j]]
    OBVIOUS
  <2>1. n[h[w]] \in Nat /\ n[h[j]] \in Nat /\ n[h[w]] <= n[h[j]]
    BY <1>0, <1>3
  <2>2. h[w].id # h[j].id
    <3>1. w < j \/ j < w
      BY <1>0
    <3>. QED BY <1>0, <1>1, <3>1
  <2>3. Precedes(q, h[w], h[j]) \/ Precedes(q, h[j], h[w])
    BY <1>0, <2>2, PrecedesOrders
  <2>4. n[h[w]] < n[h[j]] \/ n[h[j]] < n[h[w]]
    BY <1>0, <2>3 DEF Embeds
  <2>. QED BY <2>1, <2>4
<1>5. w \in D /\ Wins(w)
  <2>1. \A j \in D \ {w} : runs[j] # <<>> =>
          ~Before(q, h[j].key, h[w].key) /\ (j < w => Before(q, h[w].key, h[j].key))
    BY <1>2, <1>4
  <2>. QED BY <1>0, <2>1
<1>6. i = CHOOSE x \in D : Wins(x)
  BY <1>0 DEF Least
<1>7. i \in D /\ Wins(i)
  <2>. HIDE DEF Wins, D
  <2>. QED BY <1>5, <1>6
<1>8. i \in Full
  BY <1>7
<1>9. \A j \in Full : j # i => n[h[i]] < n[h[j]]
  <2>. SUFFICES ASSUME NEW j \in Full, j # i PROVE n[h[i]] < n[h[j]]
    OBVIOUS
  <2>1. ~Before(q, h[j].key, h[i].key) /\ (j < i => Before(q, h[i].key, h[j].key))
    BY <1>0, <1>7, <1>8
  <2>. QED BY <1>2, <1>8, <2>1
<1>. QED BY <1>0, <1>7, <1>8, <1>9

(* Without its first element a rising sequence rises, above that one.      *)
LEMMA TailRises ==
  ASSUME NEW S, NEW n \in [S -> Int], NEW s \in Seq(S), s # <<>>, Rises(s, n)
  PROVE  /\ Tail(s) \in Seq(S) /\ Rises(Tail(s), n) /\ s[1] \in S
         /\ ToSet(s) = ToSet(Tail(s)) \union {s[1]}
         /\ \A y \in ToSet(Tail(s)) : n[s[1]] < n[y]
         /\ \A y \in ToSet(s) : n[s[1]] <= n[y]
<1>. PICK t, m : t = Tail(s) /\ m = Len(s)
  OBVIOUS
<1>0. m \in Nat /\ m >= 1 /\ DOMAIN s = 1..m /\ \A i \in 1..m : s[i] \in S /\ n[s[i]] \in Int
  OBVIOUS
<1>1. t \in Seq(S) /\ Len(t) = m - 1 /\ DOMAIN t = 1..(m - 1) /\ \A i \in 1..(m - 1) : t[i] = s[i + 1]
  OBVIOUS
<1>2. \A i \in 1..(m - 1) : i + 1 \in 1..m /\ 1 < i + 1
  BY <1>0
<1>3. \A i, j \in 1..m : i < j => n[s[i]] < n[s[j]]
  BY <1>0 DEF Rises
<1>4. Rises(t, n)
  <2>1. \A i, j \in 1..(m - 1) : i < j => i + 1 < j + 1
    OBVIOUS
  <2>2. \A i, j \in 1..(m - 1) : i < j => n[t[i]] < n[t[j]]
    BY ONLY <1>1, <1>2, <1>3, <2>1
  <2>. QED BY <1>1, <2>2 DEF Rises
<1>5. 1 \in 1..m
  BY <1>0
<1>6. \A i \in 1..m : i = 1 \/ (i - 1 \in 1..(m - 1) /\ (i - 1) + 1 = i)
  BY <1>0
<1>7. ToSet(s) = {s[i] : i \in 1..m} /\ ToSet(t) = {t[i] : i \in 1..(m - 1)}
  BY <1>0, <1>1 DEF ToSet
<1>8. ToSet(s) = ToSet(t) \union {s[1]}
  <2>1. \A i \in 1..m : s[i] \in ToSet(t) \union {s[1]}
    <3>. SUFFICES ASSUME NEW i \in 1..m, i # 1 PROVE s[i] \in ToSet(t)
      OBVIOUS
    <3>1. i - 1 \in 1..(m - 1) /\ t[i - 1] = s[i]
      BY <1>1, <1>6
    <3>. QED BY <1>7, <3>1
  <2>2. \A i \in 1..(m - 1) : t[i] \in ToSet(s)
    BY <1>1, <1>2, <1>7
  <2>3. s[1] \in ToSet(s)
    BY <1>5, <1>7
  <2>. QED BY ONLY <1>7, <2>1, <2>2, <2>3
<1>9. \A y \in ToSet(t) : n[s[1]] < n[y]
  <2>1. \A i \in 1..(m - 1) : n[s[1]] < n[t[i]]
    BY ONLY <1>1, <1>2, <1>3, <1>5
  <2>. QED BY <1>7, <2>1
<1>10. \A y \in ToSet(s) : n[s[1]] <= n[y]
  <2>1. n[s[1]] \in Int /\ \A y \in ToSet(t) : n[y] \in Int
    BY <1>0, <1>1, <1>5, <1>7
  <2>. QED BY <1>8, <1>9, <2>1
<1>. QED BY <1>0, <1>1, <1>4, <1>5, <1>8, <1>9, <1>10

(* One above all of them, and they rise with it.                           *)
LEMMA AppendRises ==
  ASSUME NEW S, NEW n \in [S -> Int], NEW s \in Seq(S), NEW r \in S, Rises(s, n),
         \A x \in ToSet(s) : n[x] < n[r]
  PROVE  /\ Append(s, r) \in Seq(S) /\ Rises(Append(s, r), n)
         /\ ToSet(Append(s, r)) = ToSet(s) \union {r} /\ Len(Append(s, r)) = Len(s) + 1
<1>. PICK t, m : t = Append(s, r) /\ m = Len(s)
  OBVIOUS
<1>1. /\ m \in Nat /\ DOMAIN s = 1..m /\ t \in Seq(S) /\ Len(t) = m + 1 /\ DOMAIN t = 1..(m + 1)
      /\ (\A i \in 1..m : t[i] = s[i] /\ i \in 1..(m + 1)) /\ t[m + 1] = r /\ m + 1 \in 1..(m + 1)
  OBVIOUS
<1>2. \A i \in 1..(m + 1) : i \in 1..m \/ i = m + 1
  BY <1>1
<1>3. ToSet(s) = {s[i] : i \in 1..m} /\ ToSet(t) = {t[i] : i \in 1..(m + 1)}
  BY <1>1 DEF ToSet
<1>4. ToSet(t) = ToSet(s) \union {r}
  BY ONLY <1>1, <1>2, <1>3
<1>5. \A i, j \in 1..(m + 1) : i < j => i \in 1..m
  BY <1>1
<1>6. \A i, j \in 1..m : i < j => n[s[i]] < n[s[j]]
  BY <1>1 DEF Rises
<1>7. \A i \in 1..m : n[s[i]] < n[r]
  BY <1>3
<1>8. \A i, j \in 1..(m + 1) : i < j => n[t[i]] < n[t[j]]
  BY ONLY <1>1, <1>2, <1>5, <1>6, <1>7
<1>. QED BY <1>1, <1>4, <1>8 DEF Rises

(* What holds once k rows are popped, or all of them.                      *)
PopHolds(X, n, runs, s, k) ==
  /\ RunsHold(X, n, s.runs)
  /\ s.out \in Seq(X) /\ Rises(s.out, n)
  /\ ToSet(s.out) \union RowsIn(s.runs) = RowsIn(runs)
  /\ \A x \in ToSet(s.out), y \in RowsIn(s.runs) : n[x] < n[y]
  /\ Len(s.out) = k \/ RowsIn(s.runs) = {}

(* A pop keeps it, and takes one row more (Merger.Pop).                    *)
LEMMA PopStep ==
  ASSUME NEW q, Directed(q), NEW X, NEW n, Embeds(q, X, n), NEW runs, NEW k \in Nat,
         NEW s, PopHolds(X, n, runs, s, k)
  PROVE  PopHolds(X, n, runs, Pop(q, s), k + 1)
<1>. PICK rs, m : rs = s.runs /\ m = Len(rs)
  OBVIOUS
<1>0. /\ n \in [X -> Nat] /\ n \in [X -> Int] /\ rs \in Seq(Seq(X)) /\ m \in Nat /\ DOMAIN rs = 1..m
      /\ \A j \in 1..m : rs[j] \in Seq(X) /\ Rises(rs[j], n)
  BY DEF Embeds, PopHolds, RunsHold
<1>1. CASE \A j \in 1..m : rs[j] = <<>>
  <2>1. Pop(q, s) = s
    BY <1>0, <1>1 DEF Pop
  <2>2. RowsIn(rs) = {}
    BY <1>1 DEF RowsIn, ToSet
  <2>. QED BY <2>1, <2>2 DEF PopHolds
<1>2. CASE \E j \in 1..m : rs[j] # <<>>
  <2>. PICK i, u, r : i = Least(q, rs) /\ u = rs[i] /\ r = u[1]
    OBVIOUS
  <2>1. /\ i \in 1..m /\ u # <<>>
        /\ \A j \in 1..m : rs[j] # <<>> /\ j # i => n[r] < n[rs[j][1]]
    BY <1>2, LeastIsLeast DEF PopHolds
  <2>. PICK rt : rt = [rs EXCEPT ![i] = Tail(u)]
    OBVIOUS
  <2>2. Pop(q, s) = [runs |-> rt, out |-> Append(s.out, r)]
    BY <1>0, <2>1 DEF Pop
  <2>3. /\ Tail(u) \in Seq(X) /\ Rises(Tail(u), n) /\ r \in X
        /\ ToSet(u) = ToSet(Tail(u)) \union {r}
        /\ \A y \in ToSet(Tail(u)) : n[r] < n[y]
    BY <1>0, <2>1, TailRises
  <2>4. /\ rt \in Seq(Seq(X)) /\ Len(rt) = m /\ rt[i] = Tail(u)
        /\ \A j \in 1..m : j # i => rt[j] = rs[j]
    BY <1>0, <2>1, <2>3
  <2>5. \A j \in 1..m : ToSet(rt[j]) \subseteq ToSet(rs[j]) /\ Rises(rt[j], n)
    BY <1>0, <2>3, <2>4
  <2>6. RunsHold(X, n, rt)
    <3>1. \A a, b \in 1..m : a < b => \A x \in ToSet(rt[a]), y \in ToSet(rt[b]) : x.id < y.id
      <4>1. RunsHold(X, n, rs)
        BY DEF PopHolds
      <4>2. \A a, b \in 1..m : a < b => \A x \in ToSet(rs[a]), y \in ToSet(rs[b]) : x.id < y.id
        BY <4>1 DEF RunsHold
      <4>3. \A j \in 1..m : ToSet(rt[j]) \subseteq ToSet(rs[j])
        BY <2>5
      <4>. SUFFICES ASSUME NEW a \in 1..m, NEW b \in 1..m, a < b,
                           NEW x \in ToSet(rt[a]), NEW y \in ToSet(rt[b])
                    PROVE  x.id < y.id
        OBVIOUS
      <4>4. x \in ToSet(rs[a]) /\ y \in ToSet(rs[b])
        BY <4>3
      <4>. QED BY <4>2, <4>4
    <3>. QED BY <2>4, <2>5, <3>1 DEF RunsHold
  <2>7. RowsIn(rs) = RowsIn(rt) \union {r}
    <3>1. RowsIn(rs) = UNION {ToSet(rs[j]) : j \in 1..m} /\ RowsIn(rt) = UNION {ToSet(rt[j]) : j \in 1..m}
      BY <2>4 DEF RowsIn
    <3>2. r \in ToSet(rs[i])
      BY <2>3
    <3>3. \A j \in 1..m : ToSet(rs[j]) \subseteq ToSet(rt[j]) \union {r}
      BY <2>3, <2>4
    <3>4. \A j \in 1..m : ToSet(rt[j]) \subseteq ToSet(rs[j])
      BY <2>5
    <3>5. RowsIn(rs) \subseteq RowsIn(rt) \union {r}
      BY ONLY <3>1, <3>3
    <3>6. RowsIn(rt) \subseteq RowsIn(rs)
      BY ONLY <3>1, <3>4
    <3>7. r \in RowsIn(rs)
      BY ONLY <2>1, <3>1, <3>2
    <3>. QED BY ONLY <3>5, <3>6, <3>7
  <2>8. \A y \in RowsIn(rt) : n[r] < n[y]
    <3>. SUFFICES ASSUME NEW j \in 1..m, NEW y \in ToSet(rt[j]) PROVE n[r] < n[y]
      BY <2>4 DEF RowsIn
    <3>1. CASE j = i
      BY <2>3, <2>4, <3>1
    <3>2. CASE j # i
      <4>1. rs[j] \in Seq(X) /\ Rises(rs[j], n) /\ y \in ToSet(rs[j]) /\ rs[j] # <<>>
        <5>1. rt[j] = rs[j] /\ rs[j] \in Seq(X) /\ Rises(rs[j], n)
          BY <1>0, <2>4, <3>2
        <5>2. ToSet(<<>>) = {}
          BY DEF ToSet
        <5>. QED BY <5>1, <5>2
      <4>2. n[rs[j][1]] <= n[y] /\ rs[j][1] \in X
        BY <1>0, <4>1, TailRises
      <4>3. y \in X
        BY <4>1, SeqOverSet
      <4>4. n[r] < n[rs[j][1]]
        BY <2>1, <3>2, <4>1
      <4>5. n[r] \in Int /\ n[y] \in Int /\ n[rs[j][1]] \in Int
        BY <1>0, <2>3, <4>2, <4>3
      <4>. QED BY <4>2, <4>4, <4>5
    <3>. QED BY <3>1, <3>2
  <2>9. /\ s.out \in Seq(X) /\ Rises(s.out, n) /\ ToSet(s.out) \union RowsIn(rs) = RowsIn(runs)
        /\ (\A x \in ToSet(s.out), y \in RowsIn(rs) : n[x] < n[y]) /\ Len(s.out) = k
    <3>1. r \in RowsIn(rs)
      BY <2>7
    <3>. QED BY <3>1 DEF PopHolds
  <2>. PICK out : out = Append(s.out, r)
    OBVIOUS
  <2>10. out \in Seq(X) /\ Rises(out, n) /\ ToSet(out) = ToSet(s.out) \union {r} /\ Len(out) = k + 1
    <3>1. \A x \in ToSet(s.out) : n[x] < n[r]
      BY <2>7, <2>9
    <3>2. n \in [X -> Int] /\ s.out \in Seq(X) /\ Rises(s.out, n) /\ r \in X
      BY <1>0, <2>3, <2>9
    <3>3. /\ Append(s.out, r) \in Seq(X) /\ Rises(Append(s.out, r), n)
          /\ ToSet(Append(s.out, r)) = ToSet(s.out) \union {r} /\ Len(Append(s.out, r)) = Len(s.out) + 1
      BY ONLY <3>1, <3>2, AppendRises
    <3>. QED BY <2>9, <3>3
  <2>11. Pop(q, s).runs = rt /\ Pop(q, s).out = out
    BY <2>2
  <2>. QED BY <2>6, <2>7, <2>8, <2>9, <2>10, <2>11 DEF PopHolds
<1>. QED BY <1>1, <1>2

(* The rows of the runs are those of the runs joined, no more than those   *)
(* are long.                                                               *)
LEMMA RowsInJoined ==
  ASSUME NEW X, NEW runs \in Seq(Seq(X))
  PROVE  /\ FlattenSeq(runs) \in Seq(X) /\ RowsIn(runs) \subseteq ToSet(FlattenSeq(runs))
         /\ IsFiniteSet(RowsIn(runs)) /\ Cardinality(RowsIn(runs)) <= Len(FlattenSeq(runs))
         /\ Cardinality(RowsIn(runs)) \in Nat
<1>. PICK f, m : f = FlattenSeq(runs) /\ m = Len(f)
  OBVIOUS
<1>1. f \in Seq(X) /\ m \in Nat /\ DOMAIN f = 1..m
  <2>1. Len(runs) \in 0..Len(runs)
    OBVIOUS
  <2>2. f \in Seq(X)
    BY <2>1, FlattenFront
  <2>. QED BY <2>2
<1>2. RowsIn(runs) \subseteq ToSet(f)
  <2>. SUFFICES ASSUME NEW k \in 1..Len(runs), NEW x \in ToSet(runs[k]) PROVE x \in ToSet(f)
    BY DEF RowsIn
  <2>1. runs[k] \in Seq(X)
    OBVIOUS
  <2>2. PICK i \in 1..Len(runs[k]) : runs[k][i] = x
    BY <2>1 DEF ToSet
  <2>3. PICK at : at = Len(FlattenSeq(SubSeq(runs, 1, k - 1))) + i
    OBVIOUS
  <2>4. at \in 1..Len(f) /\ f[at] = x
    BY <2>2, <2>3, FlattenStands
  <2>. QED BY <1>1, <2>4 DEF ToSet
<1>3. IsFiniteSet(ToSet(f)) /\ Cardinality(ToSet(f)) <= m /\ Cardinality(ToSet(f)) \in Nat
  <2>1. IsFiniteSet(1..m) /\ Cardinality(1..m) = m
    <3>1. 1 \in Int /\ m \in Int /\ (1 > m => m = 0) /\ m - 1 + 1 = m
      BY <1>1
    <3>2. IsFiniteSet(1..m) /\ Cardinality(1..m) = IF 1 > m THEN 0 ELSE m - 1 + 1
      BY <3>1, FS_Interval
    <3>. QED BY <3>1, <3>2
  <2>2. f \in Surjection(1..m, ToSet(f))
    <3>1. f \in [1..m -> ToSet(f)]
      <4>1. f \in Seq(ToSet(f))
        BY <1>1, SeqOverSet
      <4>. QED BY <1>1, <4>1
    <3>2. \A x \in ToSet(f) : \E i \in 1..m : f[i] = x
      BY <1>1 DEF ToSet
    <3>. QED BY <3>1, <3>2 DEF Surjection
  <2>3. IsFiniteSet(ToSet(f)) /\ Cardinality(ToSet(f)) <= Cardinality(1..m)
    BY <2>1, <2>2, FS_Surjection
  <2>4. Cardinality(ToSet(f)) \in Nat
    BY <2>3, FS_CardinalityType
  <2>. QED BY <2>1, <2>3, <2>4
<1>4. /\ IsFiniteSet(RowsIn(runs)) /\ Cardinality(RowsIn(runs)) <= Cardinality(ToSet(f))
      /\ Cardinality(RowsIn(runs)) \in Nat
  <2>1. IsFiniteSet(RowsIn(runs)) /\ Cardinality(RowsIn(runs)) <= Cardinality(ToSet(f))
    BY <1>2, <1>3, FS_Subset
  <2>. QED BY <2>1, FS_CardinalityType
<1>5. \A a, b, c \in Nat : a <= b /\ b <= c => a <= c
  OBVIOUS
<1>. QED BY <1>1, <1>2, <1>3, <1>4, <1>5
(* The states of a merge, a row popped at a time.                         *)
PopSteps(f, q, runs) ==
  /\ f[0] = [runs |-> runs, out |-> <<>>]
  /\ \A k \in 1..Len(FlattenSeq(runs)) : f[k] = Pop(q, f[k - 1])
  /\ MergeRuns(q, runs) = f[Len(FlattenSeq(runs))].out

(* A merge of runs goes from pop to pop (mergeOperator.Next).              *)
LEMMA PopStates ==
  ASSUME NEW q, NEW runs, Len(FlattenSeq(runs)) \in Nat
  PROVE  \E f : PopSteps(f, q, runs)
<1>. DEFINE Rec(f, k) == IF k = 0 THEN [runs |-> runs, out |-> <<>>] ELSE Pop(q, f[k - 1])
            Is(f) == f = [k \in 0..Len(FlattenSeq(runs)) |-> Rec(f, k)]
            Q == {m \in Nat : \E f : f = [k \in 0..m |-> Rec(f, k)]}
<1>1. 0 \in Q
  <2>1. [k \in 0..0 |-> [runs |-> runs, out |-> <<>>]] = [k \in 0..0 |-> Rec([j \in 0..0 |-> [runs |-> runs, out |-> <<>>]], k)]
    OBVIOUS
  <2>. HIDE DEF Rec
  <2>. QED BY <2>1
<1>2. ASSUME NEW m \in Nat, m \in Q PROVE m + 1 \in Q
  <2>1. PICK f : f = [k \in 0..m |-> Rec(f, k)]
    BY <1>2
  <2>. DEFINE h == [k \in 0..(m + 1) |-> Rec(f, k)]
  <2>2. \A k \in 0..m : h[k] = f[k]
    <3>1. \A k \in 0..m : f[k] = Rec(f, k)
      <4>. HIDE DEF Rec
      <4>. QED BY <2>1
    <3>2. \A k \in 0..m : k \in 0..(m + 1)
      OBVIOUS
    <3>. HIDE DEF Rec
    <3>. QED BY <3>1, <3>2
  <2>3. \A k \in 0..(m + 1) : k # 0 => k - 1 \in 0..m
    OBVIOUS
  <2>4. \A k \in 0..(m + 1) : Rec(f, k) = Rec(h, k)
    <3>. HIDE DEF h
    <3>. QED BY <2>2, <2>3
  <2>5. h = [k \in 0..(m + 1) |-> Rec(h, k)]
    <3>1. h = [k \in 0..(m + 1) |-> Rec(f, k)]
      OBVIOUS
    <3>. HIDE DEF h, Rec
    <3>. QED BY <2>4, <3>1
  <2>. HIDE DEF h, Rec
  <2>. QED BY <2>5
<1>3. Len(FlattenSeq(runs)) \in Q
  <2>. HIDE DEF Q
  <2>. QED BY <1>1, <1>2, NaturalInduction
<1>4. \E f : Is(f)
  <2>. HIDE DEF Rec
  <2>. QED BY <1>3
<1>5. PICK f : f = CHOOSE g : Is(g)
  OBVIOUS
<1>6. Is(f)
  <2>. HIDE DEF Is
  <2>. QED BY <1>4, <1>5
<1>7. MergeRuns(q, runs) = f[Len(FlattenSeq(runs))].out
  <2>1. MergeRuns(q, runs) = (CHOOSE g : Is(g))[Len(FlattenSeq(runs))].out
    BY DEF MergeRuns
  <2>. HIDE DEF Is
  <2>. QED BY <1>5, <2>1
<1>8. f[0] = [runs |-> runs, out |-> <<>>]
  <2>1. 0 \in 0..Len(FlattenSeq(runs))
    OBVIOUS
  <2>. QED BY <1>6, <2>1
<1>9. \A k \in 1..Len(FlattenSeq(runs)) : f[k] = Pop(q, f[k - 1])
  <2>1. \A k \in 1..Len(FlattenSeq(runs)) : k \in 0..Len(FlattenSeq(runs)) /\ k # 0
    OBVIOUS
  <2>2. \A k \in 1..Len(FlattenSeq(runs)) : f[k] = Rec(f, k)
    <3>. HIDE DEF Rec
    <3>. QED BY <1>6, <2>1
  <2>. QED BY <2>1, <2>2
<1>. QED BY <1>7, <1>8, <1>9 DEF PopSteps

-----------------------------------------------------------------------------
(* A merge.                                                                *)

(* A rising sequence repeats nothing, so it is as long as its set.         *)
LEMMA RisingCount ==
  ASSUME NEW S, NEW n \in [S -> Int], NEW s \in Seq(S), Rises(s, n)
  PROVE  /\ IsFiniteSet(ToSet(s)) /\ Cardinality(ToSet(s)) = Len(s)
         /\ \A i, j \in DOMAIN s : i # j => s[i] # s[j]
<1>. PICK m, T : m = Len(s) /\ T = ToSet(s)
  OBVIOUS
<1>1. m \in Nat /\ DOMAIN s = 1..m /\ s \in [1..m -> S] /\ \A i \in 1..m : s[i] \in S /\ n[s[i]] \in Int
  OBVIOUS
<1>2. \A i, j \in 1..m : i # j => s[i] # s[j]
  <2>. SUFFICES ASSUME NEW i \in 1..m, NEW j \in 1..m, i # j PROVE s[i] # s[j]
    OBVIOUS
  <2>1. i < j \/ j < i
    OBVIOUS
  <2>2. n[s[i]] < n[s[j]] \/ n[s[j]] < n[s[i]]
    BY <1>1, <2>1 DEF Rises
  <2>. QED BY <1>1, <2>2
<1>3. s \in Bijection(1..m, T)
  <2>1. s \in [1..m -> T]
    <3>1. s \in Seq(T)
      BY SeqOverSet
    <3>. QED BY <1>1, <3>1
  <2>2. \A x \in T : \E i \in 1..m : s[i] = x
    BY <1>1 DEF ToSet
  <2>. QED BY <1>2, <2>1, <2>2 DEF Bijection, Injection, Surjection, IsInjective
<1>4. IsFiniteSet(1..m) /\ Cardinality(1..m) = m
  <2>1. 1 \in Int /\ m \in Int /\ (1 > m => m = 0) /\ m - 1 + 1 = m
    BY <1>1
  <2>2. IsFiniteSet(1..m) /\ Cardinality(1..m) = IF 1 > m THEN 0 ELSE m - 1 + 1
    BY <2>1, FS_Interval
  <2>. QED BY <2>1, <2>2
<1>5. IsFiniteSet(T) /\ Cardinality(T) = Cardinality(1..m)
  <2>1. ExistsBijection(1..m, T)
    BY <1>3 DEF ExistsBijection
  <2>. QED BY <1>4, <2>1, FS_Bijection
<1>. QED BY <1>1, <1>2, <1>4, <1>5

(* A merge puts the rows of all its runs in order.                         *)
LEMMA MergeRises ==
  ASSUME NEW q, Directed(q), NEW X, NEW n, Embeds(q, X, n), NEW runs, RunsHold(X, n, runs)
  PROVE  /\ MergeRuns(q, runs) \in Seq(X) /\ Rises(MergeRuns(q, runs), n)
         /\ ToSet(MergeRuns(q, runs)) = RowsIn(runs)
<1>. PICK N : N = Len(FlattenSeq(runs))
  OBVIOUS
<1>0. /\ n \in [X -> Int] /\ N \in Nat
      /\ IsFiniteSet(RowsIn(runs)) /\ Cardinality(RowsIn(runs)) <= N /\ Cardinality(RowsIn(runs)) \in Nat
  <2>1. n \in [X -> Nat] /\ runs \in Seq(Seq(X))
    BY DEF Embeds, RunsHold
  <2>2. n \in [X -> Int]
    BY <2>1
  <2>3. FlattenSeq(runs) \in Seq(X) /\ IsFiniteSet(RowsIn(runs))
        /\ Cardinality(RowsIn(runs)) <= N /\ Cardinality(RowsIn(runs)) \in Nat
    BY <2>1, RowsInJoined
  <2>4. N \in Nat
    BY <2>3
  <2>. QED BY <2>2, <2>3, <2>4
<1>1. PICK f : PopSteps(f, q, runs)
  BY <1>0, PopStates
<1>. DEFINE Q == {k \in Nat : k <= N => PopHolds(X, n, runs, f[k], k)}
<1>2. 0 \in Q
  <2>1. f[0].runs = runs /\ f[0].out = <<>>
    BY <1>1 DEF PopSteps
  <2>2. <<>> \in Seq(X) /\ Rises(<<>>, n) /\ ToSet(<<>>) = {} /\ Len(<<>>) = 0
    BY DEF Rises, ToSet
  <2>3. PopHolds(X, n, runs, f[0], 0)
    BY <2>1, <2>2 DEF PopHolds
  <2>. QED BY <2>3
<1>3. ASSUME NEW k \in Nat, k \in Q PROVE k + 1 \in Q
  <2>. SUFFICES ASSUME k + 1 <= N PROVE PopHolds(X, n, runs, f[k + 1], k + 1)
    OBVIOUS
  <2>1. k <= N /\ k + 1 \in 1..N /\ (k + 1) - 1 = k
    BY <1>0
  <2>2. PopHolds(X, n, runs, f[k], k)
    BY <1>3, <2>1
  <2>3. f[k + 1] = Pop(q, f[k])
    BY <1>1, <2>1 DEF PopSteps
  <2>4. PopHolds(X, n, runs, Pop(q, f[k]), k + 1)
    BY <2>2, PopStep
  <2>. QED BY <2>3, <2>4
<1>4. N \in Q
  <2>. HIDE DEF Q
  <2>. QED BY <1>0, <1>2, <1>3, NaturalInduction
<1>. PICK s, out : s = f[N] /\ out = s.out
  OBVIOUS
<1>5. /\ out \in Seq(X) /\ Rises(out, n)
      /\ ToSet(out) \union RowsIn(s.runs) = RowsIn(runs)
      /\ \A x \in ToSet(out), y \in RowsIn(s.runs) : n[x] < n[y]
      /\ Len(out) = N \/ RowsIn(s.runs) = {}
  BY <1>0, <1>4 DEF PopHolds
<1>6. MergeRuns(q, runs) = out
  BY <1>1 DEF PopSteps
<1>8. CASE RowsIn(s.runs) = {}
  BY <1>5, <1>6, <1>8
<1>7. CASE Len(out) = N
  <2>1. Cardinality(ToSet(out)) = N
    BY <1>0, <1>5, <1>7, RisingCount
  <2>2. ToSet(out) \subseteq RowsIn(runs)
    BY <1>5
  <2>3. Cardinality(ToSet(out)) <= Cardinality(RowsIn(runs))
        /\ (Cardinality(RowsIn(runs)) = Cardinality(ToSet(out)) => RowsIn(runs) = ToSet(out))
    BY <1>0, <2>2, FS_Subset
  <2>. PICK c : c = Cardinality(RowsIn(runs))
    OBVIOUS
  <2>4. c \in Nat /\ c <= N /\ N <= c
    BY <1>0, <2>1, <2>3
  <2>5. c = N
    BY <1>0, <2>4
  <2>. QED BY <1>5, <1>6, <2>1, <2>3, <2>5
<1>. QED BY <1>5, <1>7, <1>8
(* The states of a cascade.                                               *)
CarrySteps(f, q, runs) ==
  /\ f[0] = runs
  /\ \A k \in 1..Len(runs) : f[k] = Carry(q, f[k - 1])
  /\ Cascade(q, runs) = f[Len(runs)]

(* A cascade goes from merge to merge (sortSink.cascade).                  *)
LEMMA CarryStates ==
  ASSUME NEW q, NEW runs, Len(runs) \in Nat
  PROVE  \E f : CarrySteps(f, q, runs)
<1>. DEFINE Rec(f, k) == IF k = 0 THEN runs ELSE Carry(q, f[k - 1])
            Is(f) == f = [k \in 0..Len(runs) |-> Rec(f, k)]
            Q == {m \in Nat : \E f : f = [k \in 0..m |-> Rec(f, k)]}
<1>1. 0 \in Q
  <2>1. [k \in 0..0 |-> runs] = [k \in 0..0 |-> Rec([j \in 0..0 |-> runs], k)]
    OBVIOUS
  <2>. HIDE DEF Rec
  <2>. QED BY <2>1
<1>2. ASSUME NEW m \in Nat, m \in Q PROVE m + 1 \in Q
  <2>1. PICK f : f = [k \in 0..m |-> Rec(f, k)]
    BY <1>2
  <2>. DEFINE h == [k \in 0..(m + 1) |-> Rec(f, k)]
  <2>2. \A k \in 0..m : h[k] = f[k]
    <3>1. \A k \in 0..m : f[k] = Rec(f, k)
      <4>. HIDE DEF Rec
      <4>. QED BY <2>1
    <3>2. \A k \in 0..m : k \in 0..(m + 1)
      OBVIOUS
    <3>. HIDE DEF Rec
    <3>. QED BY <3>1, <3>2
  <2>3. \A k \in 0..(m + 1) : k # 0 => k - 1 \in 0..m
    OBVIOUS
  <2>4. \A k \in 0..(m + 1) : Rec(f, k) = Rec(h, k)
    <3>. HIDE DEF h
    <3>. QED BY <2>2, <2>3
  <2>5. h = [k \in 0..(m + 1) |-> Rec(h, k)]
    <3>1. h = [k \in 0..(m + 1) |-> Rec(f, k)]
      OBVIOUS
    <3>. HIDE DEF h, Rec
    <3>. QED BY <2>4, <3>1
  <2>. HIDE DEF h, Rec
  <2>. QED BY <2>5
<1>3. Len(runs) \in Q
  <2>. HIDE DEF Q
  <2>. QED BY <1>1, <1>2, NaturalInduction
<1>4. \E f : Is(f)
  <2>. HIDE DEF Rec
  <2>. QED BY <1>3
<1>5. PICK f : f = CHOOSE g : Is(g)
  OBVIOUS
<1>6. Is(f)
  <2>. HIDE DEF Is
  <2>. QED BY <1>4, <1>5
<1>7. Cascade(q, runs) = f[Len(runs)]
  <2>1. Cascade(q, runs) = (CHOOSE g : Is(g))[Len(runs)]
    BY DEF Cascade
  <2>. HIDE DEF Is
  <2>. QED BY <1>5, <2>1
<1>8. f[0] = runs
  <2>1. 0 \in 0..Len(runs)
    OBVIOUS
  <2>. QED BY <1>6, <2>1
<1>9. \A k \in 1..Len(runs) : f[k] = Carry(q, f[k - 1])
  <2>1. \A k \in 1..Len(runs) : k \in 0..Len(runs) /\ k # 0
    OBVIOUS
  <2>2. \A k \in 1..Len(runs) : f[k] = Rec(f, k)
    <3>. HIDE DEF Rec
    <3>. QED BY <1>6, <2>1
  <2>. QED BY <2>1, <2>2
<1>. QED BY <1>7, <1>8, <1>9 DEF CarrySteps

-----------------------------------------------------------------------------
(* A cascade.                                                              *)

RunRows(runs) == [i \in DOMAIN runs |-> runs[i].rows]

(* Runs with their levels.                                                 *)
Leveled(X, n, runs) ==
  runs \in Seq([level : Nat, rows : Seq(X)]) /\ RunsHold(X, n, RunRows(runs))

(* What that says of each of them.                                         *)
LEMMA LeveledEach ==
  ASSUME NEW X, NEW n, NEW runs \in Seq([level : Nat, rows : Seq(X)])
  PROVE  /\ Len(RunRows(runs)) = Len(runs) /\ RunRows(runs) \in Seq(Seq(X))
         /\ \A i \in 1..Len(runs) : RunRows(runs)[i] = runs[i].rows /\ runs[i].level \in Nat
                                    /\ runs[i].rows \in Seq(X)
         /\ RowsIn(RunRows(runs)) = UNION {ToSet(runs[i].rows) : i \in 1..Len(runs)}
         /\ RunsHold(X, n, RunRows(runs)) <=>
              /\ \A i \in 1..Len(runs) : Rises(runs[i].rows, n)
              /\ \A i, j \in 1..Len(runs) : i < j =>
                   \A x \in ToSet(runs[i].rows), y \in ToSet(runs[j].rows) : x.id < y.id
<1>. PICK rr, m : rr = RunRows(runs) /\ m = Len(runs)
  OBVIOUS
<1>1. m \in Nat /\ DOMAIN runs = 1..m
      /\ \A i \in 1..m : runs[i].level \in Nat /\ runs[i].rows \in Seq(X)
  <2>. PICK R : R = [level : Nat, rows : Seq(X)]
    OBVIOUS
  <2>1. runs \in Seq(R)
    OBVIOUS
  <2>2. m \in Nat /\ DOMAIN runs = 1..m /\ \A i \in 1..m : runs[i] \in R
    BY ONLY <2>1, m = Len(runs)
  <2>3. \A r \in R : r.level \in Nat /\ r.rows \in Seq(X)
    OBVIOUS
  <2>. QED BY ONLY <2>2, <2>3
<1>2. rr \in [1..m -> Seq(X)] /\ \A i \in 1..m : rr[i] = runs[i].rows
  <2>1. rr = [i \in 1..m |-> runs[i].rows]
    BY <1>1 DEF RunRows
  <2>. QED BY <1>1, <2>1
<1>3. rr \in Seq(Seq(X)) /\ Len(rr) = m
  <2>1. rr \in Seq(Seq(X))
    BY <1>1, <1>2, SeqDef
  <2>. QED BY <1>1, <1>2, <2>1
<1>4. RowsIn(rr) = UNION {ToSet(runs[i].rows) : i \in 1..m}
  BY <1>2, <1>3 DEF RowsIn
<1>5. RunsHold(X, n, rr) <=>
         /\ \A i \in 1..m : Rises(runs[i].rows, n)
         /\ \A i, j \in 1..m : i < j =>
              \A x \in ToSet(runs[i].rows), y \in ToSet(runs[j].rows) : x.id < y.id
  <2>1. \A i \in 1..m : Rises(rr[i], n) <=> Rises(runs[i].rows, n)
    BY <1>2
  <2>2. \A i \in 1..m : ToSet(rr[i]) = ToSet(runs[i].rows)
    BY <1>2
  <2>3. RunsHold(X, n, rr) <=>
         /\ \A i \in 1..m : Rises(rr[i], n)
         /\ \A i, j \in 1..m : i < j => \A x \in ToSet(rr[i]), y \in ToSet(rr[j]) : x.id < y.id
    BY <1>3 DEF RunsHold
  <2>. QED BY ONLY <2>1, <2>2, <2>3
<1>. QED BY <1>1, <1>2, <1>3, <1>4, <1>5

(* One more run, of later rows.                                            *)
LEMMA LeveledMore ==
  ASSUME NEW X, NEW n, NEW runs, Leveled(X, n, runs),
         NEW run \in [level : Nat, rows : Seq(X)], Rises(run.rows, n),
         \A x \in RowsIn(RunRows(runs)), y \in ToSet(run.rows) : x.id < y.id
  PROVE  /\ Leveled(X, n, Append(runs, run))
         /\ RowsIn(RunRows(Append(runs, run))) = RowsIn(RunRows(runs)) \union ToSet(run.rows)
<1>. PICK t, m, r : t = Append(runs, run) /\ m = Len(runs) /\ r = run.rows
  OBVIOUS
<1>1. /\ runs \in Seq([level : Nat, rows : Seq(X)]) /\ m \in Nat
      /\ t \in Seq([level : Nat, rows : Seq(X)]) /\ Len(t) = m + 1 /\ t[m + 1] = run
      /\ \A i \in 1..m : t[i] = runs[i]
  BY DEF Leveled
<1>2. \A i \in 1..(m + 1) : i \in 1..m \/ i = m + 1
  BY <1>1
<1>3. \A i \in 1..m : i \in 1..(m + 1) /\ i < m + 1
  BY <1>1
<1>4. /\ RowsIn(RunRows(runs)) = UNION {ToSet(runs[i].rows) : i \in 1..m}
      /\ \A i \in 1..m : Rises(runs[i].rows, n)
      /\ \A i, j \in 1..m : i < j =>
           \A x \in ToSet(runs[i].rows), y \in ToSet(runs[j].rows) : x.id < y.id
  BY <1>1, LeveledEach DEF Leveled
<1>5. m + 1 \in 1..(m + 1)
  BY <1>1
<1>6. UNION {ToSet(t[i].rows) : i \in 1..(m + 1)} = RowsIn(RunRows(runs)) \union ToSet(r)
  <2>1. \A i \in 1..m : ToSet(t[i].rows) = ToSet(runs[i].rows)
    BY <1>1
  <2>2. ToSet(t[m + 1].rows) = ToSet(r)
    BY <1>1
  <2>3. \A i \in 1..(m + 1) : ToSet(t[i].rows) \subseteq RowsIn(RunRows(runs)) \union ToSet(r)
    BY ONLY <1>2, <1>4, <2>1, <2>2
  <2>4. RowsIn(RunRows(runs)) \subseteq UNION {ToSet(t[i].rows) : i \in 1..(m + 1)}
    BY ONLY <1>3, <1>4, <2>1
  <2>5. ToSet(r) \subseteq UNION {ToSet(t[i].rows) : i \in 1..(m + 1)}
    BY ONLY <1>5, <2>2
  <2>. QED BY ONLY <2>3, <2>4, <2>5
<1>7. \A i \in 1..(m + 1) : Rises(t[i].rows, n)
  BY <1>1, <1>2, <1>4
<1>8. ASSUME NEW i \in 1..(m + 1), NEW j \in 1..(m + 1), i < j,
             NEW x \in ToSet(t[i].rows), NEW y \in ToSet(t[j].rows)
      PROVE  x.id < y.id
  <2>1. i \in 1..m /\ x \in ToSet(runs[i].rows)
    <3>1. i \in 1..m
      BY <1>1, <1>8
    <3>. QED BY <1>1, <1>8, <3>1
  <2>2. CASE j \in 1..m
    <3>1. y \in ToSet(runs[j].rows)
      BY <1>1, <2>2
    <3>. QED BY <1>4, <1>8, <2>1, <2>2, <3>1
  <2>3. CASE j = m + 1
    <3>1. y \in ToSet(run.rows)
      BY <1>1, <2>3
    <3>2. x \in RowsIn(RunRows(runs))
      BY <1>4, <2>1
    <3>. QED BY <3>1, <3>2
  <2>. QED BY <1>2, <2>2, <2>3
<1>9. RunsHold(X, n, RunRows(t)) /\ RowsIn(RunRows(t)) = UNION {ToSet(t[i].rows) : i \in 1..(m + 1)}
  <2>1. /\ \A i \in 1..Len(t) : Rises(t[i].rows, n)
        /\ \A i, j \in 1..Len(t) : i < j =>
             \A x \in ToSet(t[i].rows), y \in ToSet(t[j].rows) : x.id < y.id
    BY ONLY <1>1, <1>7, <1>8
  <2>2. Len(t) = m + 1
    BY <1>1
  <2>. QED BY ONLY <1>1, <2>1, <2>2, LeveledEach
<1>. QED BY <1>1, <1>6, <1>9 DEF Leveled

(* A part of them.                                                         *)
LEMMA LeveledPart ==
  ASSUME NEW X, NEW n, NEW runs, Leveled(X, n, runs),
         NEW a \in 1..(Len(runs) + 1), NEW b \in Nat, b <= Len(runs), b >= a - 1
  PROVE  /\ Leveled(X, n, SubSeq(runs, a, b)) /\ Len(SubSeq(runs, a, b)) = b - a + 1
         /\ RowsIn(RunRows(SubSeq(runs, a, b))) = UNION {ToSet(runs[i].rows) : i \in a..b}
<1>. PICK t, m, c : t = SubSeq(runs, a, b) /\ m = Len(runs) /\ c = b - a + 1
  OBVIOUS
<1>1. runs \in Seq([level : Nat, rows : Seq(X)]) /\ m \in Nat /\ c \in Nat /\ a \in Nat /\ a >= 1
  BY DEF Leveled
<1>2. /\ t \in Seq([level : Nat, rows : Seq(X)]) /\ Len(t) = c
      /\ \A i \in 1..c : t[i] = runs[a + i - 1]
  <2>. PICK R : R = [level : Nat, rows : Seq(X)]
    OBVIOUS
  <2>1. runs \in Seq(R) /\ Len(runs) = m
    BY <1>1
  <2>2. t \in Seq(R) /\ Len(t) = c /\ \A i \in 1..c : t[i] = runs[a + i - 1]
    BY ONLY <1>1, <2>1, t = SubSeq(runs, a, b), c = b - a + 1, a \in 1..(Len(runs) + 1), b \in Nat,
            b <= Len(runs), b >= a - 1
  <2>. QED BY <2>2
<1>3. \A i \in 1..c : a + i - 1 \in 1..m /\ a + i - 1 \in a..b
  BY <1>1
<1>4. \A i, j \in 1..c : i < j => a + i - 1 < a + j - 1
  BY <1>1
<1>5. \A i \in a..b : i - a + 1 \in 1..c /\ a + (i - a + 1) - 1 = i
  BY <1>1
<1>6. /\ \A i \in 1..m : Rises(runs[i].rows, n)
      /\ \A i, j \in 1..m : i < j =>
           \A x \in ToSet(runs[i].rows), y \in ToSet(runs[j].rows) : x.id < y.id
  BY <1>1, LeveledEach DEF Leveled
<1>7. \A i \in 1..c : Rises(t[i].rows, n)
  BY <1>2, <1>3, <1>6
<1>8. \A i, j \in 1..c : i < j =>
        \A x \in ToSet(t[i].rows), y \in ToSet(t[j].rows) : x.id < y.id
  <2>. SUFFICES ASSUME NEW i \in 1..c, NEW j \in 1..c, i < j
                PROVE  \A x \in ToSet(t[i].rows), y \in ToSet(t[j].rows) : x.id < y.id
    OBVIOUS
  <2>1. t[i] = runs[a + i - 1] /\ t[j] = runs[a + j - 1] /\ a + i - 1 < a + j - 1
        /\ a + i - 1 \in 1..m /\ a + j - 1 \in 1..m
    BY <1>2, <1>3, <1>4
  <2>. QED BY <1>6, <2>1
<1>9. UNION {ToSet(t[i].rows) : i \in 1..c} = UNION {ToSet(runs[i].rows) : i \in a..b}
  <2>1. \A i \in 1..c : \E j \in a..b : t[i] = runs[j]
    BY <1>2, <1>3
  <2>2. \A j \in a..b : \E i \in 1..c : t[i] = runs[j]
    BY <1>2, <1>5
  <2>. QED BY ONLY <2>1, <2>2
<1>10. RunsHold(X, n, RunRows(t)) /\ RowsIn(RunRows(t)) = UNION {ToSet(t[i].rows) : i \in 1..c}
  BY ONLY <1>2, <1>7, <1>8, LeveledEach
<1>. QED BY <1>2, <1>9, <1>10 DEF Leveled

(* A merge of the last runs leaves the rows of all of them, in order.      *)
LEMMA CarryHolds ==
  ASSUME NEW q, Directed(q), NEW X, NEW n, Embeds(q, X, n), NEW runs, Leveled(X, n, runs)
  PROVE  Leveled(X, n, Carry(q, runs)) /\ RowsIn(RunRows(Carry(q, runs))) = RowsIn(RunRows(runs))
<1>. PICK m, k, last : m = Len(runs) /\ k = m - SortFanIn /\ last = SubSeq(runs, k + 1, m)
  OBVIOUS
<1>0. /\ runs \in Seq([level : Nat, rows : Seq(X)]) /\ m \in Nat
      /\ SortFanIn \in Nat /\ SortFanIn >= 1
  BY OrderAssumption DEF Leveled
<1>1. CASE k < 0 \/ \E i \in DOMAIN last : last[i].level # last[SortFanIn].level
  <2>1. Carry(q, runs) = runs
    BY <1>1 DEF Carry
  <2>. QED BY <2>1
<1>2. CASE ~(k < 0 \/ \E i \in DOMAIN last : last[i].level # last[SortFanIn].level)
  <2>. PICK first, merged, run :
         /\ first = SubSeq(runs, 1, k) /\ merged = MergeRuns(q, RunRows(last))
         /\ run = [level |-> last[1].level + 1, rows |-> merged]
    OBVIOUS
  <2>1. Carry(q, runs) = Append(first, run)
    <3>1. \A i \in DOMAIN last : last[i].level = last[SortFanIn].level
      BY <1>2
    <3>2. ~(k < 0)
      BY <1>2
    <3>3. merged = MergeRuns(q, [i \in DOMAIN last |-> last[i].rows])
      BY DEF RunRows
    <3>4. ~(k < 0 \/ \E i \in DOMAIN last : last[i].level # last[SortFanIn].level)
      BY <1>2
    <3>. QED BY ONLY <3>3, <3>4, m = Len(runs), k = m - SortFanIn, last = SubSeq(runs, k + 1, m),
                first = SubSeq(runs, 1, k), run = [level |-> last[1].level + 1, rows |-> merged] DEF Carry
  <2>2. k \in Nat /\ k <= m /\ k + 1 \in 1..(m + 1) /\ m >= (k + 1) - 1 /\ 1 \in 1..(m + 1) /\ k >= 1 - 1
    <3>1. ~(k < 0)
      BY <1>2
    <3>. QED BY ONLY <1>0, <3>1, k = m - SortFanIn
  <2>3. /\ Leveled(X, n, first)
        /\ RowsIn(RunRows(first)) = UNION {ToSet(runs[i].rows) : i \in 1..k}
    <3>1. 1 \in 1..(Len(runs) + 1) /\ k \in Nat /\ k <= Len(runs) /\ k >= 1 - 1
      BY <2>2
    <3>2. Leveled(X, n, SubSeq(runs, 1, k))
          /\ RowsIn(RunRows(SubSeq(runs, 1, k))) = UNION {ToSet(runs[i].rows) : i \in 1..k}
      BY ONLY Leveled(X, n, runs), <3>1, LeveledPart
    <3>. QED BY <3>2
  <2>4. /\ Leveled(X, n, last) /\ Len(last) = m - (k + 1) + 1
        /\ RowsIn(RunRows(last)) = UNION {ToSet(runs[i].rows) : i \in (k + 1)..m}
    <3>1. k + 1 \in 1..(Len(runs) + 1) /\ m \in Nat /\ m <= Len(runs) /\ m >= (k + 1) - 1
      BY <1>0, <2>2
    <3>. PICK a : a = k + 1
      OBVIOUS
    <3>2. a \in 1..(Len(runs) + 1) /\ m \in Nat /\ m <= Len(runs) /\ m >= a - 1
      BY ONLY <3>1, a = k + 1
    <3>3. /\ Leveled(X, n, SubSeq(runs, a, m)) /\ Len(SubSeq(runs, a, m)) = m - a + 1
          /\ RowsIn(RunRows(SubSeq(runs, a, m))) = UNION {ToSet(runs[i].rows) : i \in a..m}
      BY ONLY Leveled(X, n, runs), <3>2, LeveledPart
    <3>. QED BY <3>3
  <2>5. merged \in Seq(X) /\ Rises(merged, n) /\ ToSet(merged) = RowsIn(RunRows(last))
    BY <2>4, MergeRises DEF Leveled
  <2>6. run \in [level : Nat, rows : Seq(X)]
    <3>1. 1 \in 1..Len(last)
      BY <1>0, <2>2, <2>4
    <3>2. last[1].level \in Nat
      <4>1. last \in Seq([level : Nat, rows : Seq(X)])
        BY <2>4 DEF Leveled
      <4>2. \A i \in 1..Len(last) : last[i].level \in Nat
        BY ONLY <4>1, LeveledEach
      <4>. QED BY <3>1, <4>2
    <3>. PICK lv, v : lv = last[1].level /\ v = lv + 1
      OBVIOUS
    <3>3. v \in Nat
      BY ONLY <3>2, lv = last[1].level, v = lv + 1
    <3>. QED BY <2>5, <3>3
  <2>7. \A x \in RowsIn(RunRows(first)), y \in ToSet(run.rows) : x.id < y.id
    <3>0. run.rows = merged
      OBVIOUS
    <3>. SUFFICES ASSUME NEW x \in RowsIn(RunRows(first)), NEW y \in ToSet(run.rows)
                  PROVE  x.id < y.id
      OBVIOUS
    <3>3. PICK i \in 1..k : x \in ToSet(runs[i].rows)
      BY ONLY <2>3, x \in RowsIn(RunRows(first))
    <3>4. PICK j \in (k + 1)..m : y \in ToSet(runs[j].rows)
      BY ONLY <2>4, <2>5, <3>0, y \in ToSet(run.rows)
    <3>1. i \in 1..m /\ j \in 1..m /\ i < j
      BY ONLY <1>0, <2>2, i \in 1..k, j \in (k + 1)..m
    <3>2. \A a, b \in 1..m : a < b =>
            \A u \in ToSet(runs[a].rows), v \in ToSet(runs[b].rows) : u.id < v.id
      BY <1>0, LeveledEach DEF Leveled
    <3>. QED BY ONLY <3>1, <3>2, <3>3, <3>4
  <2>8. /\ Leveled(X, n, Append(first, run))
        /\ RowsIn(RunRows(Append(first, run))) = RowsIn(RunRows(first)) \union ToSet(run.rows)
    <3>1. run.rows = merged
      OBVIOUS
    <3>2. Rises(run.rows, n)
      BY <2>5, <3>1
    <3>. QED BY ONLY <2>3, <2>6, <2>7, <3>2, LeveledMore
  <2>9. RowsIn(RunRows(first)) \union RowsIn(RunRows(last)) = RowsIn(RunRows(runs))
    <3>1. RowsIn(RunRows(runs)) = UNION {ToSet(runs[i].rows) : i \in 1..m}
      BY <1>0, LeveledEach
    <3>2. 1..m = (1..k) \union ((k + 1)..m)
      BY <1>0, <2>2
    <3>. QED BY ONLY <2>3, <2>4, <3>1, <3>2
  <2>. QED BY <2>1, <2>5, <2>8, <2>9
<1>. QED BY <1>1, <1>2

(* And so does the whole cascade.                                          *)
LEMMA CascadeHolds ==
  ASSUME NEW q, Directed(q), NEW X, NEW n, Embeds(q, X, n), NEW runs, Leveled(X, n, runs)
  PROVE  /\ Leveled(X, n, Cascade(q, runs))
         /\ RowsIn(RunRows(Cascade(q, runs))) = RowsIn(RunRows(runs))
<1>. PICK N : N = Len(runs)
  OBVIOUS
<1>0. N \in Nat
  BY DEF Leveled
<1>1. PICK f : CarrySteps(f, q, runs)
  BY <1>0, CarryStates
<1>. DEFINE Q == {k \in Nat : k <= N => Leveled(X, n, f[k])
                                        /\ RowsIn(RunRows(f[k])) = RowsIn(RunRows(runs))}
<1>2. 0 \in Q
  BY <1>1 DEF CarrySteps
<1>3. ASSUME NEW k \in Nat, k \in Q PROVE k + 1 \in Q
  <2>. SUFFICES ASSUME k + 1 <= N
                PROVE  Leveled(X, n, f[k + 1]) /\ RowsIn(RunRows(f[k + 1])) = RowsIn(RunRows(runs))
    OBVIOUS
  <2>1. k <= N /\ k + 1 \in 1..N /\ (k + 1) - 1 = k
    BY <1>0
  <2>2. Leveled(X, n, f[k]) /\ RowsIn(RunRows(f[k])) = RowsIn(RunRows(runs))
    BY <1>3, <2>1
  <2>3. f[k + 1] = Carry(q, f[k])
    BY <1>1, <2>1 DEF CarrySteps
  <2>. QED BY <2>2, <2>3, CarryHolds
<1>4. N \in Q
  <2>. HIDE DEF Q
  <2>. QED BY <1>0, <1>2, <1>3, NaturalInduction
<1>5. Cascade(q, runs) = f[N]
  BY <1>1 DEF CarrySteps
<1>. QED BY <1>0, <1>4, <1>5
-----------------------------------------------------------------------------
(* A sort.                                                                 *)

Apart(rows) == \A i, j \in DOMAIN rows : i # j => rows[i] # rows[j]

(* Rows as a sort may hold them.                                           *)
Holdable(q, X, rows) == rows \in Seq(X) /\ Stable(q, rows) /\ Apart(rows)

(* Rows in order may be held.                                              *)
LEMMA RisingHoldable ==
  ASSUME NEW q, NEW X, NEW n, Embeds(q, X, n), NEW rows \in Seq(X), Rises(rows, n)
  PROVE  Holdable(q, X, rows)
<1>1. n \in [X -> Int] /\ \A r, x \in X : Precedes(q, r, x) <=> n[r] < n[x]
  BY DEF Embeds
<1>2. Apart(rows)
  BY <1>1, RisingCount DEF Apart
<1>3. Stable(q, rows)
  <2>. SUFFICES ASSUME NEW i \in DOMAIN rows, NEW j \in DOMAIN rows, i < j
                PROVE  Precedes(q, rows[i], rows[j])
    BY DEF Stable, Precedes
  <2>1. n[rows[i]] < n[rows[j]] /\ rows[i] \in X /\ rows[j] \in X
    BY DEF Rises
  <2>. QED BY <1>1, <2>1
<1>. QED BY <1>2, <1>3 DEF Holdable

(* And with them rows of higher numbers.                                   *)
LEMMA JoinHoldable ==
  ASSUME NEW q, NEW X \in SUBSET KeyedRow, NEW rows, Holdable(q, X, rows), NEW in \in Seq(X), Numbered(in),
         \A x \in ToSet(rows), y \in ToSet(in) : x.id < y.id
  PROVE  Holdable(q, X, rows \o in) /\ ToSet(rows \o in) = ToSet(rows) \union ToSet(in)
<1>. PICK u, m, c : u = rows \o in /\ m = Len(rows) /\ c = Len(in)
  OBVIOUS
<1>1. /\ rows \in Seq(X) /\ m \in Nat /\ c \in Nat /\ DOMAIN rows = 1..m /\ DOMAIN in = 1..c
      /\ u \in Seq(X) /\ Len(u) = m + c /\ DOMAIN u = 1..(m + c)
      /\ \A i \in 1..m : u[i] = rows[i]
      /\ \A i \in 1..c : u[m + i] = in[i]
  BY DEF Holdable
<1>2. \A r \in X : r.id \in Int
  BY DEF KeyedRow
<1>3. \A i \in 1..(m + c) : i \in 1..m \/ (i - m \in 1..c /\ m + (i - m) = i)
  BY <1>1
<1>4. \A i \in 1..m : u[i] \in ToSet(rows)
  BY <1>1 DEF ToSet
<1>5. \A i \in 1..(m + c) : i - m \in 1..c => u[i] = in[i - m] /\ u[i] \in ToSet(in)
  <2>1. \A i \in 1..c : u[m + i] = in[i] /\ in[i] \in ToSet(in)
    BY <1>1 DEF ToSet
  <2>. QED BY <1>1, <1>3, <2>1
<1>6. \A i, j \in 1..(m + c) : i < j =>
        \/ i \in 1..m /\ j \in 1..m
        \/ i \in 1..m /\ j - m \in 1..c
        \/ i - m \in 1..c /\ j - m \in 1..c /\ i - m < j - m
  BY <1>1
<1>7. ASSUME NEW i \in 1..(m + c), NEW j \in 1..(m + c), i < j
      PROVE  /\ u[i] # u[j]
             /\ \/ u[i].id < u[j].id
                \/ Before(q, u[i].key, u[j].key) \/ Before(q, u[j].key, u[i].key)
  <2>0. u[i].id \in Int /\ u[j].id \in Int
    BY <1>1, <1>2
  <2>1. CASE i \in 1..m /\ j \in 1..m
    <3>1. u[i] = rows[i] /\ u[j] = rows[j] /\ i # j
      BY <1>1, <1>7, <2>1
    <3>2. rows[i] # rows[j]
      BY <1>1, <2>1, <3>1 DEF Holdable, Apart
    <3>3. \/ rows[i].id < rows[j].id
          \/ Before(q, rows[i].key, rows[j].key) \/ Before(q, rows[j].key, rows[i].key)
      BY <1>1, <1>7, <2>1 DEF Holdable, Stable
    <3>. QED BY <3>1, <3>2, <3>3
  <2>2. CASE i \in 1..m /\ j - m \in 1..c
    <3>1. u[i].id < u[j].id
      BY <1>4, <1>5, <2>2
    <3>. QED BY <2>0, <3>1
  <2>3. CASE i - m \in 1..c /\ j - m \in 1..c /\ i - m < j - m
    <3>1. in[i - m].id < in[j - m].id
      BY <1>1, <2>3 DEF Numbered
    <3>2. u[i].id < u[j].id
      BY <1>5, <2>3, <3>1
    <3>. QED BY <2>0, <3>2
  <2>. QED BY <1>6, <1>7, <2>1, <2>2, <2>3
<1>8. Apart(u) /\ Stable(q, u)
  <2>1. \A i, j \in 1..(m + c) : i # j => i < j \/ j < i
    BY <1>1
  <2>2. Apart(u)
    <3>1. \A i, j \in 1..(m + c) : i # j => u[i] # u[j]
      BY ONLY <1>7, <2>1
    <3>. QED BY <1>1, <3>1 DEF Apart
  <2>3. Stable(q, u)
    BY <1>1, <1>7 DEF Stable
  <2>. QED BY <2>2, <2>3
<1>9. ToSet(u) = ToSet(rows) \union ToSet(in)
  <2>1. ToSet(u) \subseteq ToSet(rows) \union ToSet(in)
    <3>1. \A i \in 1..(m + c) : u[i] \in ToSet(rows) \union ToSet(in)
      BY <1>3, <1>4, <1>5
    <3>. QED BY <1>1, <3>1 DEF ToSet
  <2>2. ToSet(rows) \subseteq ToSet(u)
    <3>1. \A i \in 1..m : i \in 1..(m + c) /\ u[i] = rows[i]
      BY <1>1
    <3>. QED BY <1>1, <3>1 DEF ToSet
  <2>3. ToSet(in) \subseteq ToSet(u)
    <3>1. \A i \in 1..c : m + i \in 1..(m + c) /\ u[m + i] = in[i]
      BY <1>1
    <3>2. \A i \in 1..c : in[i] \in ToSet(u)
      BY <1>1, <3>1 DEF ToSet
    <3>3. DOMAIN in = 1..c
      BY <1>1
    <3>. QED BY ONLY <3>2, <3>3 DEF ToSet
  <2>. QED BY <2>1, <2>2, <2>3
<1>. QED BY <1>1, <1>8, <1>9 DEF Holdable

(* What holds once the rows A are consumed.                                *)
SinkHolds(q, X, n, s, A) ==
  /\ s \in [batch : Nat, held : Seq(X), runs : Seq([level : Nat, rows : Seq(X)])]
  /\ Leveled(X, n, s.runs) /\ Holdable(q, X, s.held)
  /\ \A x \in RowsIn(RunRows(s.runs)), y \in ToSet(s.held) : x.id < y.id
  /\ Keeps(n, q.limit, RowsIn(RunRows(s.runs)) \union ToSet(s.held), A)

Limits(q) == Directed(q) /\ q.limit \in Nat

(* The best of the rows held, in order.                                    *)
LEMMA HeldSorted ==
  ASSUME NEW q, Limits(q), NEW X, NEW n, Embeds(q, X, n), NEW rows, Holdable(q, X, rows)
  PROVE  /\ Sorted(q, rows) \in Seq(X) /\ Rises(Sorted(q, rows), n)
         /\ ToSet(Sorted(q, rows)) = ToSet(rows)
         /\ Limited(q, Sorted(q, rows)) = FirstOf(q.limit, Sorted(q, rows))
         /\ Limited(q, Sorted(q, rows)) \in Seq(X) /\ Rises(Limited(q, Sorted(q, rows)), n)
         /\ Keeps(n, q.limit, ToSet(Limited(q, Sorted(q, rows))), ToSet(rows))
<1>. PICK t, u : t = Sorted(q, rows) /\ u = Limited(q, t)
  OBVIOUS
<1>1. t \in Seq(X) /\ Rises(t, n) /\ ToSet(t) = ToSet(rows)
  BY SortedIsRising DEF Limits, Holdable, Apart
<1>2. u = FirstOf(q.limit, t)
  BY DEF Limited, FirstOf
<1>3. n \in [X -> Int] /\ q.limit \in Nat
  BY DEF Embeds, Limits
<1>4. FirstOf(q.limit, t) \in Seq(X) /\ Rises(FirstOf(q.limit, t), n)
      /\ Keeps(n, q.limit, ToSet(FirstOf(q.limit, t)), ToSet(t))
  BY <1>1, <1>3, FirstRises
<1>. QED BY <1>1, <1>2, <1>4

(* One batch more.                                                         *)
LEMMA SinkStep ==
  ASSUME NEW q, Limits(q), NEW X, NEW n, Embeds(q, X, n), NEW s, NEW A \in SUBSET X,
         SinkHolds(q, X, n, s, A), NEW in \in Seq(X), Numbered(in),
         \A x \in A, y \in ToSet(in) : x.id < y.id
  PROVE  SinkHolds(q, X, n, SinkRows(q, s, in), A \union ToSet(in))
<1>. PICK l, I, M, held, kept :
       /\ l = q.limit /\ I = ToSet(in) /\ M = RowsIn(RunRows(s.runs)) /\ held = s.held \o in
       /\ kept = IF q.limit > 0 THEN Limited(q, Sorted(q, held)) ELSE held
  OBVIOUS
<1>. PICK R : R = Seq([level : Nat, rows : Seq(X)])
  OBVIOUS
<1>0. /\ n \in [X -> Int] /\ X \subseteq KeyedRow /\ l \in Nat /\ Directed(q)
      /\ s \in [batch : Nat, held : Seq(X), runs : R]
      /\ Leveled(X, n, s.runs) /\ Holdable(q, X, s.held)
      /\ \A x \in M, y \in ToSet(s.held) : x.id < y.id
      /\ Keeps(n, l, M \union ToSet(s.held), A)
  BY DEF Embeds, Limits, SinkHolds
<1>. PICK H, b : H = Seq(X) /\ b = [s EXCEPT !.batch = @ + 1]
  OBVIOUS
<1>b. b \in [batch : Nat, held : H, runs : R] /\ b.runs = s.runs
  <2>1. s \in [batch : Nat, held : H, runs : R]
    BY <1>0
  <2>. QED BY ONLY <2>1, b = [s EXCEPT !.batch = @ + 1]
<1>1. M \subseteq A /\ ToSet(s.held) \subseteq A /\ I \subseteq X
  <2>1. I \subseteq X
    BY SeqOverSet
  <2>. QED BY <1>0, <2>1 DEF Keeps
<1>2. Holdable(q, X, held) /\ ToSet(held) = ToSet(s.held) \union I
  <2>1. X \in SUBSET KeyedRow /\ Holdable(q, X, s.held) /\ in \in Seq(X) /\ Numbered(in)
        /\ \A x \in ToSet(s.held), y \in ToSet(in) : x.id < y.id
    BY <1>0, <1>1
  <2>2. Holdable(q, X, s.held \o in) /\ ToSet(s.held \o in) = ToSet(s.held) \union ToSet(in)
    BY ONLY <2>1, JoinHoldable
  <2>. QED BY <2>2
<1>3. /\ \A x \in M, y \in ToSet(held) : x.id < y.id
      /\ Keeps(n, l, M \union ToSet(held), A \union I)
  <2>1. \A x \in M, y \in ToSet(held) : x.id < y.id
    BY <1>0, <1>1, <1>2
  <2>2. Keeps(n, l, (M \union ToSet(s.held)) \union I, A \union I)
    BY <1>0, KeepsMore
  <2>3. (M \union ToSet(s.held)) \union I = M \union ToSet(held)
    BY <1>2
  <2>. QED BY <2>1, <2>2, <2>3
<1>4. Holdable(q, X, kept) /\ Keeps(n, l, ToSet(kept), ToSet(held)) /\ ToSet(kept) \subseteq ToSet(held)
  <2>1. CASE q.limit > 0
    <3>1. kept = Limited(q, Sorted(q, held))
      BY <2>1
    <3>2. kept \in Seq(X) /\ Rises(kept, n) /\ Keeps(n, l, ToSet(kept), ToSet(held))
      <4>1. /\ Limited(q, Sorted(q, held)) \in Seq(X) /\ Rises(Limited(q, Sorted(q, held)), n)
            /\ Keeps(n, q.limit, ToSet(Limited(q, Sorted(q, held))), ToSet(held))
        BY ONLY Limits(q), Embeds(q, X, n), <1>2, HeldSorted
      <4>. QED BY <3>1, <4>1
    <3>. QED BY <3>2, RisingHoldable DEF Keeps
  <2>2. CASE ~(q.limit > 0)
    <3>1. kept = held
      BY <2>2
    <3>. QED BY <1>2, <3>1 DEF Keeps
  <2>. QED BY <2>1, <2>2
<1>5. /\ \A x \in M, y \in ToSet(kept) : x.id < y.id
      /\ Keeps(n, l, M \union ToSet(kept), A \union I)
  <2>1. A \union I \in SUBSET X
    BY <1>1
  <2>2. Keeps(n, l, M \union ToSet(kept), A \union I)
    BY <1>0, <1>3, <1>4, <2>1, KeepsFewer
  <2>. QED BY <1>3, <1>4, <2>2
<1>. PICK t : t = SinkRows(q, s, in)
  OBVIOUS
<1>6. CASE in = <<>>
  <2>1. t = s
    BY <1>6 DEF SinkRows
  <2>2. A \union I = A
    BY <1>6 DEF ToSet
  <2>. QED BY <2>1, <2>2
<1>7. CASE in # <<>> /\ s.batch \notin q.over
  <2>1. t = [b EXCEPT !.held = held]
    BY <1>7 DEF SinkRows
  <2>2. held \in Seq(X)
    BY <1>2 DEF Holdable
  <2>3. t \in [batch : Nat, held : Seq(X), runs : R] /\ t.held = held /\ t.runs = s.runs
    <3>1. t \in [batch : Nat, held : H, runs : R] /\ t.held = held /\ t.runs = b.runs
      <4>1. held \in H
        BY <2>2
      <4>. QED BY ONLY <1>b, <2>1, <4>1
    <3>. QED BY <1>b, <3>1
  <2>. QED BY <1>0, <1>2, <1>3, <2>3 DEF SinkHolds
<1>8. CASE in # <<>> /\ s.batch \in q.over /\ q.limit > 0 /\ s.batch \notin q.large
  <2>1. t = [b EXCEPT !.held = kept]
    BY <1>8 DEF SinkRows
  <2>2. kept \in Seq(X)
    BY <1>4 DEF Holdable
  <2>3. t \in [batch : Nat, held : Seq(X), runs : R] /\ t.held = kept /\ t.runs = s.runs
    <3>1. t \in [batch : Nat, held : H, runs : R] /\ t.held = kept /\ t.runs = b.runs
      <4>1. kept \in H
        BY <2>2
      <4>. QED BY ONLY <1>b, <2>1, <4>1
    <3>. QED BY <1>b, <3>1
  <2>. QED BY <1>0, <1>4, <1>5, <2>3 DEF SinkHolds
<1>9. CASE in # <<>> /\ s.batch \in q.over /\ ~(q.limit > 0 /\ s.batch \notin q.large)
  <2>. PICK run, runs : run = [level |-> 0, rows |-> Sorted(q, kept)] /\ runs = Append(s.runs, run)
    OBVIOUS
  <2>1. t = [b EXCEPT !.held = <<>>, !.runs = Cascade(q, runs)]
    BY <1>9 DEF SinkRows
  <2>2. /\ Sorted(q, kept) \in Seq(X) /\ Rises(Sorted(q, kept), n)
        /\ ToSet(Sorted(q, kept)) = ToSet(kept)
    BY <1>4, HeldSorted
  <2>3. run \in [level : Nat, rows : Seq(X)] /\ run.rows = Sorted(q, kept)
    BY <2>2
  <2>4. Leveled(X, n, runs) /\ RowsIn(RunRows(runs)) = M \union ToSet(kept)
    <3>1. Rises(run.rows, n) /\ \A x \in RowsIn(RunRows(s.runs)), y \in ToSet(run.rows) : x.id < y.id
      BY <1>5, <2>2, <2>3
    <3>2. /\ Leveled(X, n, Append(s.runs, run))
          /\ RowsIn(RunRows(Append(s.runs, run))) = RowsIn(RunRows(s.runs)) \union ToSet(run.rows)
      BY ONLY <1>0, <2>3, <3>1, LeveledMore
    <3>. QED BY <2>2, <2>3, <3>2
  <2>5. /\ Leveled(X, n, Cascade(q, runs))
        /\ RowsIn(RunRows(Cascade(q, runs))) = M \union ToSet(kept)
    BY <1>0, <2>4, CascadeHolds
  <2>6. Cascade(q, runs) \in R
    BY <2>5 DEF Leveled
  <2>7. t \in [batch : Nat, held : Seq(X), runs : R] /\ t.held = <<>> /\ t.runs = Cascade(q, runs)
    <3>1. t \in [batch : Nat, held : H, runs : R] /\ t.held = <<>> /\ t.runs = Cascade(q, runs)
      <4>1. <<>> \in H
        OBVIOUS
      <4>. QED BY ONLY <1>b, <2>1, <2>6, <4>1
    <3>. QED BY <3>1
  <2>8. Holdable(q, X, <<>>) /\ ToSet(<<>>) = {}
    BY DEF Holdable, Stable, Apart, ToSet
  <2>9. RowsIn(RunRows(t.runs)) \union ToSet(t.held) = M \union ToSet(kept)
    BY <2>5, <2>7, <2>8
  <2>. QED BY <1>5, <2>5, <2>7, <2>8, <2>9 DEF SinkHolds
<1>. QED BY <1>6, <1>7, <1>8, <1>9
(* The states of a sort, batch by batch.                                  *)
SinkSteps(f, q, batches) ==
  /\ f[0] = [batch |-> 1, held |-> <<>>, runs |-> <<>>]
  /\ \A k \in 1..Len(batches) : f[k] = SinkRows(q, f[k - 1], batches[k])
  /\ Sunk(q, batches) = f[Len(batches)]

(* A sort takes its input batch by batch (sortSink.Consume).               *)
LEMMA SinkStates ==
  ASSUME NEW q, NEW batches, Len(batches) \in Nat
  PROVE  \E f : SinkSteps(f, q, batches)
<1>. DEFINE Rec(f, k) == IF k = 0 THEN [batch |-> 1, held |-> <<>>, runs |-> <<>>] ELSE SinkRows(q, f[k - 1], batches[k])
            Is(f) == f = [k \in 0..Len(batches) |-> Rec(f, k)]
            Q == {m \in Nat : \E f : f = [k \in 0..m |-> Rec(f, k)]}
<1>1. 0 \in Q
  <2>1. [k \in 0..0 |-> [batch |-> 1, held |-> <<>>, runs |-> <<>>]] = [k \in 0..0 |-> Rec([j \in 0..0 |-> [batch |-> 1, held |-> <<>>, runs |-> <<>>]], k)]
    OBVIOUS
  <2>. HIDE DEF Rec
  <2>. QED BY <2>1
<1>2. ASSUME NEW m \in Nat, m \in Q PROVE m + 1 \in Q
  <2>1. PICK f : f = [k \in 0..m |-> Rec(f, k)]
    BY <1>2
  <2>. DEFINE h == [k \in 0..(m + 1) |-> Rec(f, k)]
  <2>2. \A k \in 0..m : h[k] = f[k]
    <3>1. \A k \in 0..m : f[k] = Rec(f, k)
      <4>. HIDE DEF Rec
      <4>. QED BY <2>1
    <3>2. \A k \in 0..m : k \in 0..(m + 1)
      OBVIOUS
    <3>. HIDE DEF Rec
    <3>. QED BY <3>1, <3>2
  <2>3. \A k \in 0..(m + 1) : k # 0 => k - 1 \in 0..m
    OBVIOUS
  <2>4. \A k \in 0..(m + 1) : Rec(f, k) = Rec(h, k)
    <3>. HIDE DEF h
    <3>. QED BY <2>2, <2>3
  <2>5. h = [k \in 0..(m + 1) |-> Rec(h, k)]
    <3>1. h = [k \in 0..(m + 1) |-> Rec(f, k)]
      OBVIOUS
    <3>. HIDE DEF h, Rec
    <3>. QED BY <2>4, <3>1
  <2>. HIDE DEF h, Rec
  <2>. QED BY <2>5
<1>3. Len(batches) \in Q
  <2>. HIDE DEF Q
  <2>. QED BY <1>1, <1>2, NaturalInduction
<1>4. \E f : Is(f)
  <2>. HIDE DEF Rec
  <2>. QED BY <1>3
<1>5. PICK f : f = CHOOSE g : Is(g)
  OBVIOUS
<1>6. Is(f)
  <2>. HIDE DEF Is
  <2>. QED BY <1>4, <1>5
<1>7. Sunk(q, batches) = f[Len(batches)]
  <2>1. Sunk(q, batches) = (CHOOSE g : Is(g))[Len(batches)]
    BY DEF Sunk
  <2>. HIDE DEF Is
  <2>. QED BY <1>5, <2>1
<1>8. f[0] = [batch |-> 1, held |-> <<>>, runs |-> <<>>]
  <2>1. 0 \in 0..Len(batches)
    OBVIOUS
  <2>. QED BY <1>6, <2>1
<1>9. \A k \in 1..Len(batches) : f[k] = SinkRows(q, f[k - 1], batches[k])
  <2>1. \A k \in 1..Len(batches) : k \in 0..Len(batches) /\ k # 0
    OBVIOUS
  <2>2. \A k \in 1..Len(batches) : f[k] = Rec(f, k)
    <3>. HIDE DEF Rec
    <3>. QED BY <1>6, <2>1
  <2>. QED BY <2>1, <2>2
<1>. QED BY <1>7, <1>8, <1>9 DEF SinkSteps

-----------------------------------------------------------------------------
(* Numbered rows of any kind.                                              *)

(* Two inputs joined are numbered if each is, and the first below the      *)
(* second.                                                                 *)
LEMMA NumberedJoin ==
  ASSUME NEW S, \A r \in S : r.id \in Int, NEW u \in Seq(S), NEW v \in Seq(S)
  PROVE  /\ u \o v \in Seq(S) /\ ToSet(u \o v) = ToSet(u) \union ToSet(v)
         /\ Numbered(u \o v) <=> /\ Numbered(u) /\ Numbered(v)
                                 /\ \A x \in ToSet(u), y \in ToSet(v) : x.id < y.id
<1>. PICK n : n = [r \in S |-> r.id]
  OBVIOUS
<1>1. n \in [S -> Int] /\ \A r \in S : n[r] = r.id
  OBVIOUS
<1>2. \A s \in Seq(S) : ToSet(s) \subseteq S /\ (Numbered(s) <=> Rises(s, n))
  <2>. SUFFICES ASSUME NEW s \in Seq(S) PROVE ToSet(s) \subseteq S /\ (Numbered(s) <=> Rises(s, n))
    OBVIOUS
  <2>1. \A i \in DOMAIN s : s[i] \in S
    OBVIOUS
  <2>2. \A i \in DOMAIN s : n[s[i]] = s[i].id
    BY <1>1, <2>1
  <2>3. ToSet(s) \subseteq S
    BY <2>1 DEF ToSet
  <2>. QED BY <2>2, <2>3 DEF Numbered, Rises
<1>3. /\ u \o v \in Seq(S) /\ ToSet(u \o v) = ToSet(u) \union ToSet(v)
      /\ Rises(u \o v, n) <=> /\ Rises(u, n) /\ Rises(v, n)
                              /\ \A x \in ToSet(u), y \in ToSet(v) : n[x] < n[y]
  <2>1. n \in [S -> Int]
    BY <1>1
  <2>. QED BY ONLY <2>1, u \in Seq(S), v \in Seq(S), JoinRises
<1>4. (\A x \in ToSet(u), y \in ToSet(v) : n[x] < n[y])
        <=> \A x \in ToSet(u), y \in ToSet(v) : x.id < y.id
  BY <1>1, <1>2
<1>. QED BY <1>2, <1>3, <1>4

(* Each batch is numbered, above all those before it.                      *)
LEMMA BatchesNumbered ==
  ASSUME NEW S, \A r \in S : r.id \in Int,
         NEW batches \in Seq(Seq(S)), Numbered(FlattenSeq(batches))
  PROVE  /\ ReadBy(batches, 0) = {} /\ ReadBy(batches, Len(batches)) = ToSet(FlattenSeq(batches))
         /\ FlattenSeq(batches) \in Seq(S)
         /\ \A k \in 1..Len(batches) :
              /\ batches[k] \in Seq(S) /\ Numbered(batches[k])
              /\ ReadBy(batches, k - 1) \subseteq S
              /\ ReadBy(batches, k) = ReadBy(batches, k - 1) \union ToSet(batches[k])
              /\ \A x \in ReadBy(batches, k - 1), y \in ToSet(batches[k]) : x.id < y.id
<1>. DEFINE F(k) == FlattenSeq(SubSeq(batches, 1, k))
            n == Len(batches)
            Q == {j \in Nat : j <= n => Numbered(F(n - j))}
<1>1. n \in Nat /\ batches \in Seq(Seq(S)) /\ \A k \in 1..n : batches[k] \in Seq(S)
  OBVIOUS
<1>2. /\ F(0) = <<>> /\ F(n) = FlattenSeq(batches)
      /\ \A k \in 1..n : F(k) = F(k - 1) \o batches[k]
      /\ \A k \in 0..n : F(k) \in Seq(S)
  BY <1>1, FlattenFront
<1>3. ASSUME NEW k \in 1..n
      PROVE  /\ F(k - 1) \in Seq(S) /\ ToSet(F(k)) = ToSet(F(k - 1)) \union ToSet(batches[k])
             /\ Numbered(F(k)) => /\ Numbered(F(k - 1)) /\ Numbered(batches[k])
                                  /\ \A x \in ToSet(F(k - 1)), y \in ToSet(batches[k]) : x.id < y.id
  <2>1. k - 1 \in 0..n
    BY <1>1
  <2>2. F(k - 1) \in Seq(S) /\ batches[k] \in Seq(S) /\ F(k) = F(k - 1) \o batches[k]
    BY <1>1, <1>2, <2>1
  <2>. HIDE DEF F
  <2>3. \A u, v \in Seq(S) :
          /\ ToSet(u \o v) = ToSet(u) \union ToSet(v)
          /\ Numbered(u \o v) => /\ Numbered(u) /\ Numbered(v)
                                 /\ \A x \in ToSet(u), y \in ToSet(v) : x.id < y.id
    BY NumberedJoin
  <2>. QED BY <2>2, <2>3
<1>4. 0 \in Q
  <2>1. n - 0 = n
    BY <1>1
  <2>2. Numbered(F(n - 0))
    BY <1>2, <2>1
  <2>. QED BY <2>2
<1>5. ASSUME NEW j \in Nat, j \in Q PROVE j + 1 \in Q
  <2>. SUFFICES ASSUME j + 1 <= n PROVE Numbered(F(n - (j + 1)))
    OBVIOUS
  <2>. PICK k : k = n - j
    OBVIOUS
  <2>1. k \in 1..n /\ n - (j + 1) = k - 1 /\ j <= n
    BY <1>1
  <2>2. Numbered(F(k))
    BY <1>5, <2>1
  <2>. HIDE DEF F
  <2>. QED BY <1>3, <2>1, <2>2
<1>6. ASSUME NEW k \in 1..n PROVE Numbered(F(k))
  <2>1. Nat \subseteq Q
    <3>. HIDE DEF Q
    <3>. QED BY <1>4, <1>5, NaturalInduction
  <2>2. n - k \in Nat /\ n - k <= n /\ n - (n - k) = k
    BY <1>1
  <2>3. n - k \in Q
    BY <2>1, <2>2
  <2>4. Numbered(F(n - (n - k)))
    <3>. HIDE DEF F
    <3>. QED BY <2>2, <2>3
  <2>. QED BY <2>2, <2>4
<1>7. ReadBy(batches, 0) = {} /\ ReadBy(batches, n) = ToSet(FlattenSeq(batches))
      /\ FlattenSeq(batches) \in Seq(S)
  <2>1. ToSet(<<>>) = {} /\ n \in 0..n
    BY <1>1 DEF ToSet
  <2>. QED BY <1>2, <2>1 DEF ReadBy
<1>8. \A k \in 0..n : ReadBy(batches, k) = ToSet(F(k))
  BY DEF ReadBy
<1>9. \A k \in 1..n : k \in 0..n /\ k - 1 \in 0..n
  BY <1>1
<1>10. \A u \in Seq(S) : ToSet(u) \subseteq S
  BY DEF ToSet
<1>. HIDE DEF F
<1>. QED BY <1>1, <1>3, <1>6, <1>7, <1>8, <1>9, <1>10

(* What is joined is of the rows it is joined of, and its rows of it.      *)
LEMMA BatchesWithin ==
  ASSUME NEW S, NEW batches \in Seq(Seq(S))
  PROVE  /\ FlattenSeq(batches) \in Seq(S)
         /\ batches \in Seq(Seq(ToSet(FlattenSeq(batches))))
<1>. PICK f, X, m : f = FlattenSeq(batches) /\ X = ToSet(f) /\ m = Len(batches)
  OBVIOUS
<1>1. f \in Seq(S)
  <2>1. Len(batches) \in 0..Len(batches)
    OBVIOUS
  <2>. QED BY <2>1, FlattenFront
<1>2. ASSUME NEW k \in 1..m PROVE batches[k] \in Seq(X)
  <2>1. batches[k] \in Seq(S)
    OBVIOUS
  <2>2. \A i \in 1..Len(batches[k]) : batches[k][i] \in X
    <3>. SUFFICES ASSUME NEW i \in 1..Len(batches[k]) PROVE batches[k][i] \in X
      OBVIOUS
    <3>1. PICK at : at = Len(FlattenSeq(SubSeq(batches, 1, k - 1))) + i
      OBVIOUS
    <3>2. at \in 1..Len(f) /\ f[at] = batches[k][i]
      BY <3>1, FlattenStands
    <3>. QED BY <1>1, <3>2 DEF ToSet
  <2>3. ToSet(batches[k]) \subseteq X
    <3>1. DOMAIN batches[k] = 1..Len(batches[k])
      BY <2>1
    <3>. QED BY ONLY <2>2, <3>1 DEF ToSet
  <2>4. batches[k] \in Seq(ToSet(batches[k]))
    BY <2>1, SeqOverSet
  <2>. QED BY <2>3, <2>4, SeqMonotonic
<1>3. m \in Nat /\ batches \in [1..m -> Seq(X)]
  <2>1. m \in Nat /\ batches \in [1..m -> Seq(S)]
    OBVIOUS
  <2>. QED BY <1>2, <2>1
<1>4. batches \in Seq(Seq(X))
  BY ONLY <1>3, SeqDef
<1>. QED BY <1>1, <1>4

(* Numbered rows are different, and may be held.                           *)
LEMMA NumberedHoldable ==
  ASSUME NEW q, NEW rows \in Seq(KeyedRow), Numbered(rows)
  PROVE  LET X == ToSet(rows)
         IN  /\ X \subseteq KeyedRow /\ IsFiniteSet(X) /\ Holdable(q, X, rows)
             /\ \A r, x \in X : r.id = x.id => r = x
<1>. PICK X, n : X = ToSet(rows) /\ n = [r \in KeyedRow |-> r.id]
  OBVIOUS
<1>1. n \in [KeyedRow -> Int] /\ \A r \in KeyedRow : n[r] = r.id
  <2>1. \A r \in KeyedRow : r.id \in Int
    BY DEF KeyedRow
  <2>. QED BY <2>1
<1>2. \A i \in DOMAIN rows : rows[i] \in KeyedRow
  OBVIOUS
<1>3. Rises(rows, n)
  BY <1>1, <1>2 DEF Numbered, Rises
<1>4. IsFiniteSet(X) /\ Apart(rows)
  BY <1>1, <1>3, RisingCount DEF Apart
<1>5. rows \in Seq(X) /\ X \subseteq KeyedRow
  BY SeqOverSet
<1>6. Stable(q, rows)
  BY DEF Numbered, Stable
<1>7. ASSUME NEW i \in DOMAIN rows, NEW j \in DOMAIN rows, rows[i].id = rows[j].id PROVE i = j
  <2>1. \A k \in DOMAIN rows : rows[k].id \in Int /\ k \in Int
    BY <1>1, <1>2 DEF KeyedRow
  <2>2. ~(i < j) /\ ~(j < i)
    BY <1>7, <2>1 DEF Numbered
  <2>. QED BY <2>1, <2>2
<1>8. \A r, x \in X : r.id = x.id => r = x
  BY <1>7 DEF ToSet
<1>. QED BY <1>4, <1>5, <1>6, <1>8 DEF Holdable

-----------------------------------------------------------------------------
(* The answer of a sort.                                                   *)

(* The rows of the runs, and of one run more.                              *)
LEMMA RunRowsMore ==
  ASSUME NEW X, NEW runs \in Seq([level : Nat, rows : Seq(X)]), NEW last \in Seq(X)
  PROVE  RunRows(Append(runs, [level |-> 0, rows |-> last])) = Append(RunRows(runs), last)
<1>. PICK R, c, run, more, u, v, w :
       /\ R = [level : Nat, rows : Seq(X)] /\ c = Len(runs) /\ run = [level |-> 0, rows |-> last]
       /\ more = Append(runs, run) /\ u = RunRows(runs) /\ v = Append(u, last) /\ w = RunRows(more)
  OBVIOUS
<1>1. runs \in Seq(R) /\ run \in R /\ run.rows = last
  OBVIOUS
<1>2. c \in Nat /\ more \in Seq(R) /\ Len(more) = c + 1 /\ more[c + 1] = run
      /\ \A i \in 1..c : more[i] = runs[i]
  BY ONLY <1>1, c = Len(runs), more = Append(runs, run)
<1>3. Len(u) = c /\ u \in Seq(Seq(X)) /\ \A i \in 1..c : u[i] = runs[i].rows
  BY ONLY <1>1, c = Len(runs), u = RunRows(runs), R = [level : Nat, rows : Seq(X)], LeveledEach
<1>4. Len(w) = c + 1 /\ w \in Seq(Seq(X)) /\ \A i \in 1..(c + 1) : w[i] = more[i].rows
  BY ONLY <1>2, w = RunRows(more), R = [level : Nat, rows : Seq(X)], LeveledEach
<1>5. v \in Seq(Seq(X)) /\ Len(v) = c + 1 /\ v[c + 1] = last /\ \A i \in 1..c : v[i] = u[i]
  <2>. PICK H : H = Seq(X)
    OBVIOUS
  <2>1. u \in Seq(H) /\ last \in H
    BY <1>3
  <2>2. v \in Seq(H) /\ Len(v) = c + 1 /\ v[c + 1] = last /\ \A i \in 1..c : v[i] = u[i]
    BY ONLY <1>2, <1>3, <2>1, v = Append(u, last)
  <2>. QED BY <2>2
<1>6. \A i \in 1..(c + 1) : i \in 1..c \/ i = c + 1
  BY <1>2
<1>7. \A i \in 1..(c + 1) : w[i] = v[i]
  BY ONLY <1>1, <1>2, <1>3, <1>4, <1>5, <1>6
<1>8. w = v
  BY ONLY <1>4, <1>5, <1>7, SeqEqual
<1>. QED BY <1>8

(* A sort answers as one sort of all its input, or the best of it.         *)
LEMMA SortAnswers ==
  ASSUME NEW q, Limits(q), NEW batches \in Seq(Seq(KeyedRow)), Numbered(FlattenSeq(batches))
  PROVE  SortAnswer(q, batches) = Limited(q, Sorted(q, FlattenSeq(batches)))
<1>. PICK all, X, N, l : all = FlattenSeq(batches) /\ X = ToSet(all) /\ N = Len(batches) /\ l = q.limit
  OBVIOUS
<1>1. all \in Seq(KeyedRow) /\ batches \in Seq(Seq(X)) /\ N \in Nat
  BY BatchesWithin
<1>2. X \subseteq KeyedRow /\ IsFiniteSet(X) /\ Holdable(q, X, all) /\ \A r, x \in X : r.id = x.id => r = x
  BY <1>1, NumberedHoldable
<1>3. PICK n : Embeds(q, X, n)
  BY <1>2, EmbeddingExists DEF Limits
<1>4. n \in [X -> Int] /\ l \in Nat /\ Directed(q) /\ \A r \in X : r.id \in Int
  <2>1. \A r \in KeyedRow : r.id \in Int
    BY DEF KeyedRow
  <2>. QED BY <1>2, <1>3, <2>1 DEF Embeds, Limits
<1>5. /\ ReadBy(batches, 0) = {} /\ ReadBy(batches, N) = X
      /\ \A k \in 1..N :
           /\ batches[k] \in Seq(X) /\ Numbered(batches[k])
           /\ ReadBy(batches, k - 1) \subseteq X
           /\ ReadBy(batches, k) = ReadBy(batches, k - 1) \union ToSet(batches[k])
           /\ \A x \in ReadBy(batches, k - 1), y \in ToSet(batches[k]) : x.id < y.id
  <2>1. \A r \in X : r.id \in Int
    BY <1>4
  <2>2. Numbered(FlattenSeq(batches))
    OBVIOUS
  <2>3. /\ ReadBy(batches, 0) = {} /\ ReadBy(batches, Len(batches)) = ToSet(FlattenSeq(batches))
        /\ \A k \in 1..Len(batches) :
             /\ batches[k] \in Seq(X) /\ Numbered(batches[k])
             /\ ReadBy(batches, k - 1) \subseteq X
             /\ ReadBy(batches, k) = ReadBy(batches, k - 1) \union ToSet(batches[k])
             /\ \A x \in ReadBy(batches, k - 1), y \in ToSet(batches[k]) : x.id < y.id
    BY ONLY <1>1, <2>1, <2>2, BatchesNumbered
  <2>. QED BY <2>3
<1>6. PICK f : SinkSteps(f, q, batches)
  BY <1>1, SinkStates
<1>. DEFINE Q == {k \in Nat : k <= N => SinkHolds(q, X, n, f[k], ReadBy(batches, k))}
<1>7. 0 \in Q
  <2>. PICK s : s = [batch |-> 1, held |-> <<>>, runs |-> <<>>]
    OBVIOUS
  <2>1. f[0] = s
    BY <1>6 DEF SinkSteps
  <2>2. s \in [batch : Nat, held : Seq(X), runs : Seq([level : Nat, rows : Seq(X)])]
        /\ s.held = <<>> /\ s.runs = <<>>
    OBVIOUS
  <2>3. Leveled(X, n, <<>>) /\ RowsIn(RunRows(<<>>)) = {}
    <3>1. <<>> \in Seq([level : Nat, rows : Seq(X)]) /\ Len(<<>>) = 0 /\ 1..0 = {}
      OBVIOUS
    <3>2. RunsHold(X, n, RunRows(<<>>)) <=>
              /\ \A i \in 1..Len(<<>>) : Rises(<<>>[i].rows, n)
              /\ \A i, j \in 1..Len(<<>>) : i < j =>
                   \A x \in ToSet(<<>>[i].rows), y \in ToSet(<<>>[j].rows) : x.id < y.id
      BY ONLY <3>1, LeveledEach
    <3>3. RunsHold(X, n, RunRows(<<>>))
      BY ONLY <3>1, <3>2
    <3>4. RunRows(<<>>) = <<>>
      BY DEF RunRows
    <3>5. RowsIn(<<>>) = {}
      BY ONLY <3>1 DEF RowsIn
    <3>. QED BY <3>1, <3>3, <3>4, <3>5 DEF Leveled
  <2>4. Holdable(q, X, <<>>) /\ ToSet(<<>>) = {}
    BY DEF Holdable, Stable, Apart, ToSet
  <2>5. Keeps(n, l, {} \union {}, {})
    BY DEF Keeps
  <2>6. SinkHolds(q, X, n, s, {})
    BY <2>2, <2>3, <2>4, <2>5 DEF SinkHolds
  <2>7. SinkHolds(q, X, n, f[0], ReadBy(batches, 0))
    BY <1>5, <2>1, <2>6
  <2>. QED BY <2>7
<1>8. ASSUME NEW k \in Nat, k \in Q PROVE k + 1 \in Q
  <2>. SUFFICES ASSUME k + 1 <= N PROVE SinkHolds(q, X, n, f[k + 1], ReadBy(batches, k + 1))
    OBVIOUS
  <2>1. k <= N /\ k + 1 \in 1..N /\ (k + 1) - 1 = k
    BY <1>1
  <2>. PICK in, A : in = batches[k + 1] /\ A = ReadBy(batches, k)
    OBVIOUS
  <2>2. SinkHolds(q, X, n, f[k], A)
    BY <1>8, <2>1
  <2>3. f[k + 1] = SinkRows(q, f[k], in)
    BY <1>6, <2>1 DEF SinkSteps
  <2>4. /\ in \in Seq(X) /\ Numbered(in) /\ A \in SUBSET X /\ ReadBy(batches, k + 1) = A \union ToSet(in)
        /\ \A x \in A, y \in ToSet(in) : x.id < y.id
    BY <1>5, <2>1
  <2>5. SinkHolds(q, X, n, SinkRows(q, f[k], in), A \union ToSet(in))
    BY <1>3, <2>2, <2>4, SinkStep
  <2>. QED BY <2>3, <2>4, <2>5
<1>9. N \in Q
  <2>. HIDE DEF Q
  <2>. QED BY <1>1, <1>7, <1>8, NaturalInduction
<1>. PICK s, runs, last : s = f[N] /\ runs = RunRows(s.runs) /\ last = Limited(q, Sorted(q, s.held))
  OBVIOUS
<1>10. /\ Sunk(q, batches) = s
       /\ Leveled(X, n, s.runs) /\ Holdable(q, X, s.held)
       /\ \A x \in RowsIn(runs), y \in ToSet(s.held) : x.id < y.id
       /\ Keeps(n, l, RowsIn(runs) \union ToSet(s.held), X)
  <2>1. SinkHolds(q, X, n, s, X)
    BY <1>1, <1>5, <1>9
  <2>2. Sunk(q, batches) = s
    BY <1>6 DEF SinkSteps
  <2>. QED BY <2>1, <2>2 DEF SinkHolds
<1>11. SortAnswer(q, batches) = IF runs = <<>> THEN last ELSE Limited(q, MergeRuns(q, Append(runs, last)))
  BY <1>10 DEF SortAnswer, RunRows
<1>12. Sorted(q, all) \in Seq(X) /\ Rises(Sorted(q, all), n) /\ ToSet(Sorted(q, all)) = X
  BY <1>2, <1>3, HeldSorted
<1>13. /\ Sorted(q, s.held) \in Seq(X) /\ Rises(Sorted(q, s.held), n)
       /\ ToSet(Sorted(q, s.held)) = ToSet(s.held)
       /\ last \in Seq(X) /\ Rises(last, n) /\ Keeps(n, l, ToSet(last), ToSet(s.held))
  BY <1>3, <1>10, HeldSorted
<1>14. \A t : Limited(q, t) = FirstOf(l, t)
  BY DEF Limited, FirstOf
<1>15. CASE runs = <<>>
  <2>1. RowsIn(runs) = {}
    <3>1. Len(<<>>) = 0 /\ 1..0 = {}
      OBVIOUS
    <3>. QED BY <1>15, <3>1 DEF RowsIn
  <2>2. Keeps(n, l, ToSet(Sorted(q, s.held)), ToSet(Sorted(q, all)))
    BY <1>10, <1>12, <1>13, <2>1
  <2>3. FirstOf(l, Sorted(q, s.held)) = FirstOf(l, Sorted(q, all))
    <3>. PICK u, v : u = Sorted(q, s.held) /\ v = Sorted(q, all)
      OBVIOUS
    <3>1. /\ n \in [X -> Int] /\ u \in Seq(X) /\ v \in Seq(X) /\ l \in Nat
          /\ Rises(u, n) /\ Rises(v, n) /\ Keeps(n, l, ToSet(u), ToSet(v))
      BY <1>4, <1>12, <1>13, <2>2
    <3>2. FirstOf(l, u) = FirstOf(l, v)
      BY ONLY <3>1, KeptAgree
    <3>. QED BY <3>2
  <2>. QED BY <1>11, <1>14, <1>15, <2>3
<1>16. CASE runs # <<>>
  <2>. PICK run, more : run = [level |-> 0, rows |-> last] /\ more = Append(s.runs, run)
    OBVIOUS
  <2>1. run \in [level : Nat, rows : Seq(X)] /\ run.rows = last
    BY <1>13
  <2>2. ToSet(last) \subseteq ToSet(s.held)
    BY <1>13 DEF Keeps
  <2>3. Rises(run.rows, n) /\ \A x \in RowsIn(RunRows(s.runs)), y \in ToSet(run.rows) : x.id < y.id
    BY <1>10, <1>13, <2>1, <2>2
  <2>4. Leveled(X, n, more) /\ RowsIn(RunRows(more)) = RowsIn(runs) \union ToSet(last)
    <3>1. /\ Leveled(X, n, Append(s.runs, run))
          /\ RowsIn(RunRows(Append(s.runs, run))) = RowsIn(RunRows(s.runs)) \union ToSet(run.rows)
      BY ONLY <1>10, <2>1, <2>3, LeveledMore
    <3>. QED BY <2>1, <3>1
  <2>5. RunRows(more) = Append(runs, last)
    BY <1>10, <1>13, RunRowsMore DEF Leveled
  <2>. PICK t : t = MergeRuns(q, Append(runs, last))
    OBVIOUS
  <2>6. t \in Seq(X) /\ Rises(t, n) /\ ToSet(t) = RowsIn(runs) \union ToSet(last)
    <3>1. RunsHold(X, n, Append(runs, last))
      BY <2>4, <2>5 DEF Leveled
    <3>2. t \in Seq(X) /\ Rises(t, n) /\ ToSet(t) = RowsIn(Append(runs, last))
      BY ONLY <1>3, <1>4, <3>1, t = MergeRuns(q, Append(runs, last)), MergeRises
    <3>. QED BY <2>4, <2>5, <3>2
  <2>7. Keeps(n, l, RowsIn(runs) \union ToSet(last), X)
    BY <1>4, <1>10, <1>13, KeepsFewer
  <2>8. FirstOf(l, t) = FirstOf(l, Sorted(q, all))
    <3>1. Keeps(n, l, ToSet(t), ToSet(Sorted(q, all)))
      BY <1>12, <2>6, <2>7
    <3>. PICK v : v = Sorted(q, all)
      OBVIOUS
    <3>2. /\ n \in [X -> Int] /\ t \in Seq(X) /\ v \in Seq(X) /\ l \in Nat
          /\ Rises(t, n) /\ Rises(v, n) /\ Keeps(n, l, ToSet(t), ToSet(v))
      BY <1>4, <1>12, <2>6, <3>1
    <3>3. FirstOf(l, t) = FirstOf(l, v)
      BY ONLY <3>2, KeptAgree
    <3>. QED BY <3>3
  <2>. QED BY <1>11, <1>14, <1>16, <2>8
<1>. QED BY <1>15, <1>16
-----------------------------------------------------------------------------
(* Sequences, an element at a time.                                        *)

(* A sequence is empty, or one shorter and its last element.               *)
LEMMA SeqLast ==
  ASSUME NEW S, NEW s \in Seq(S), s # <<>>
  PROVE  \E u \in Seq(S), x \in S :
           /\ s = Append(u, x) /\ Len(s) = Len(u) + 1 /\ Last(s) = x
           /\ \A y \in S : [s EXCEPT ![Len(s)] = y] = Append(u, y)
<1>. PICK m, u, x : m = Len(s) - 1 /\ u = SubSeq(s, 1, m) /\ x = s[Len(s)]
  OBVIOUS
<1>1. m \in Nat /\ Len(s) = m + 1 /\ x \in S /\ DOMAIN s = 1..(m + 1)
  OBVIOUS
<1>2. u \in Seq(S) /\ Len(u) = m /\ \A i \in 1..m : u[i] = s[i]
  BY <1>1
<1>3. \A i \in 1..(m + 1) : i \in 1..m \/ i = m + 1
  BY <1>1
<1>4. ASSUME NEW y \in S PROVE [s EXCEPT ![Len(s)] = y] = Append(u, y)
  <2>. PICK t, v : t = [s EXCEPT ![Len(s)] = y] /\ v = Append(u, y)
    OBVIOUS
  <2>1. t \in Seq(S) /\ Len(t) = m + 1 /\ t[m + 1] = y /\ \A i \in 1..m : t[i] = s[i]
    BY <1>1
  <2>2. v \in Seq(S) /\ Len(v) = m + 1 /\ v[m + 1] = y /\ \A i \in 1..m : v[i] = u[i]
    BY <1>2
  <2>3. \A i \in 1..(m + 1) : t[i] = v[i]
    BY ONLY <1>2, <1>3, <2>1, <2>2
  <2>4. t = v
    BY ONLY <2>1, <2>2, <2>3, SeqEqual
  <2>. QED BY <2>4
<1>5. s = Append(u, x)
  <2>. PICK v : v = Append(u, x)
    OBVIOUS
  <2>1. v \in Seq(S) /\ Len(v) = m + 1 /\ v[m + 1] = x /\ \A i \in 1..m : v[i] = u[i]
    BY <1>1, <1>2
  <2>2. \A i \in 1..(m + 1) : s[i] = v[i]
    BY <1>1, <1>2, <1>3, <2>1
  <2>3. s = v
    BY <1>1, <2>1, <2>2, SeqEqual
  <2>. QED BY <2>3
<1>6. Last(s) = x
  BY DEF Last
<1>. QED BY <1>1, <1>2, <1>4, <1>5, <1>6

(* Induction over sequences: Q is the set of those that have it.           *)
LEMMA LastInduction ==
  ASSUME NEW S, NEW Q, <<>> \in Q,
         \A u \in Seq(S), x \in S : u \in Q => Append(u, x) \in Q
  PROVE  Seq(S) \subseteq Q
<1>. DEFINE T == {m \in Nat : \A s \in Seq(S) : Len(s) = m => s \in Q}
<1>1. 0 \in T
  <2>1. \A s \in Seq(S) : Len(s) = 0 => s = <<>>
    OBVIOUS
  <2>. QED BY <2>1
<1>2. ASSUME NEW m \in Nat, m \in T PROVE m + 1 \in T
  <2>. SUFFICES ASSUME NEW s \in Seq(S), Len(s) = m + 1 PROVE s \in Q
    OBVIOUS
  <2>1. s # <<>>
    OBVIOUS
  <2>2. PICK u \in Seq(S), x \in S : s = Append(u, x) /\ Len(s) = Len(u) + 1
    BY <2>1, SeqLast
  <2>3. Len(u) = m
    BY <2>2
  <2>. QED BY <1>2, <2>2, <2>3
<1>3. Nat \subseteq T
  <2>. HIDE DEF T
  <2>. QED BY <1>1, <1>2, NaturalInduction
<1>. QED BY <1>3

(* Joining, and one more.                                                  *)
LEMMA JoinLast ==
  ASSUME NEW S, NEW s \in Seq(S), NEW t \in Seq(S), NEW x \in S
  PROVE  s \o Append(t, x) = Append(s \o t, x)
OBVIOUS

(* What is joined of sequences, and of one more.                           *)
LEMMA FlattenLast ==
  ASSUME NEW S, NEW s \in Seq(Seq(S)), NEW x \in Seq(S)
  PROVE  /\ FlattenSeq(Append(s, x)) = FlattenSeq(s) \o x
         /\ FlattenSeq(s) \in Seq(S) /\ FlattenSeq(<<>>) = <<>>
<1>. PICK H, t, m : H = Seq(S) /\ t = Append(s, x) /\ m = Len(s)
  OBVIOUS
<1>1. s \in Seq(H) /\ x \in H
  OBVIOUS
<1>2. m \in Nat /\ t \in Seq(H) /\ Len(t) = m + 1 /\ t[m + 1] = x /\ \A i \in 1..m : t[i] = s[i]
  BY ONLY <1>1, t = Append(s, x), m = Len(s)
<1>3. FlattenSeq(s) \in Seq(S)
  <2>1. Len(s) \in 0..Len(s)
    OBVIOUS
  <2>. QED BY <2>1, FlattenFront
<1>4. FlattenSeq(<<>>) = <<>>
  BY DEF FlattenSeq
<1>5. CASE m = 0
  <2>1. s = <<>>
    BY ONLY <1>1, <1>5, m = Len(s)
  <2>2. FlattenSeq(t) = t[1]
    <3>1. t \in Seq(Seq(S)) /\ Len(t) = 1
      BY <1>2, <1>5
    <3>. QED BY ONLY <3>1, FlattenOne
  <2>3. FlattenSeq(s) \o x = x
    BY <1>4, <2>1
  <2>. QED BY <1>2, <1>3, <1>4, <1>5, <2>2, <2>3
<1>6. CASE m # 0
  <2>1. Len(s) > 0 /\ Len(t) = Len(s) + 1 /\ t \in Seq(Seq(S)) /\ s \in Seq(Seq(S))
        /\ \A i \in 1..Len(s) : t[i] = s[i]
    BY <1>2, <1>6
  <2>2. FlattenSeq(t) = FlattenSeq(s) \o t[Len(t)]
    BY ONLY <2>1, FlattenMore
  <2>. QED BY <1>2, <1>3, <1>4, <2>2
<1>. QED BY <1>5, <1>6

(* Joined of two, it is the two joined.                                    *)
LEMMA FlattenJoin ==
  ASSUME NEW S, NEW s \in Seq(Seq(S)), NEW t \in Seq(Seq(S))
  PROVE  s \o t \in Seq(Seq(S)) /\ FlattenSeq(s \o t) = FlattenSeq(s) \o FlattenSeq(t)
<1>. DEFINE Q == {v \in Seq(Seq(S)) : /\ s \o v \in Seq(Seq(S))
                                      /\ FlattenSeq(s \o v) = FlattenSeq(s) \o FlattenSeq(v)}
<1>0. \A v \in Seq(Seq(S)) : FlattenSeq(v) \in Seq(S)
  <2>1. <<>> \in Seq(S)
    OBVIOUS
  <2>. QED BY <2>1, FlattenLast
<1>1. <<>> \in Q
  <2>1. s \o <<>> = s /\ <<>> \in Seq(Seq(S)) /\ FlattenSeq(<<>>) = <<>>
    <3>1. FlattenSeq(<<>>) = <<>>
      BY DEF FlattenSeq
    <3>. PICK H : H = Seq(S)
      OBVIOUS
    <3>2. s \o <<>> = s /\ <<>> \in Seq(H)
      BY s \in Seq(H), ConcatEmptySeq
    <3>. QED BY <3>1, <3>2
  <2>2. FlattenSeq(s) \o <<>> = FlattenSeq(s)
    BY <1>0, ConcatEmptySeq
  <2>. QED BY <2>1, <2>2
<1>2. ASSUME NEW u \in Seq(Seq(S)), NEW x \in Seq(S), u \in Q PROVE Append(u, x) \in Q
  <2>1. s \o u \in Seq(Seq(S)) /\ FlattenSeq(s \o u) = FlattenSeq(s) \o FlattenSeq(u)
    BY <1>2
  <2>2. s \o Append(u, x) = Append(s \o u, x) /\ Append(s \o u, x) \in Seq(Seq(S))
        /\ Append(u, x) \in Seq(Seq(S))
    <3>. PICK H : H = Seq(S)
      OBVIOUS
    <3>1. s \in Seq(H) /\ u \in Seq(H) /\ x \in H /\ s \o u \in Seq(H)
      BY <2>1
    <3>2. s \o Append(u, x) = Append(s \o u, x) /\ Append(s \o u, x) \in Seq(H) /\ Append(u, x) \in Seq(H)
      BY ONLY <3>1, JoinLast
    <3>. QED BY <3>2
  <2>3. FlattenSeq(Append(s \o u, x)) = FlattenSeq(s \o u) \o x
        /\ FlattenSeq(Append(u, x)) = FlattenSeq(u) \o x
    BY ONLY <2>1, u \in Seq(Seq(S)), x \in Seq(S), FlattenLast
  <2>4. (FlattenSeq(s) \o FlattenSeq(u)) \o x = FlattenSeq(s) \o (FlattenSeq(u) \o x)
    <3>. PICK a, b : a = FlattenSeq(s) /\ b = FlattenSeq(u)
      OBVIOUS
    <3>1. a \in Seq(S) /\ b \in Seq(S) /\ x \in Seq(S)
      BY <1>0
    <3>2. (a \o b) \o x = a \o (b \o x)
      BY ONLY <3>1, ConcatAssociative, SMTT(20)
    <3>. QED BY <3>2
  <2>. QED BY <2>1, <2>2, <2>3, <2>4
<1>3. Seq(Seq(S)) \subseteq Q
  <2>. HIDE DEF Q
  <2>1. \A u \in Seq(Seq(S)), x \in Seq(S) : u \in Q => Append(u, x) \in Q
    BY <1>2
  <2>. QED BY ONLY <1>1, <2>1, LastInduction
<1>. QED BY <1>3

(* One sequence put before others.                                         *)
LEMMA FlattenFirst ==
  ASSUME NEW S, NEW x \in Seq(S), NEW s \in Seq(Seq(S))
  PROVE  <<x>> \o s \in Seq(Seq(S)) /\ FlattenSeq(<<x>> \o s) = x \o FlattenSeq(s)
<1>1. <<x>> \in Seq(Seq(S)) /\ Len(<<x>>) = 1 /\ <<x>>[1] = x
  OBVIOUS
<1>2. FlattenSeq(<<x>>) = x
  BY ONLY <1>1, FlattenOne
<1>3. <<x>> \o s \in Seq(Seq(S)) /\ FlattenSeq(<<x>> \o s) = FlattenSeq(<<x>>) \o FlattenSeq(s)
  BY ONLY <1>1, s \in Seq(Seq(S)), FlattenJoin
<1>. QED BY <1>2, <1>3

(* Backwards, the last comes first.                                        *)
LEMMA ReverseJoin ==
  ASSUME NEW S, NEW s \in Seq(S), NEW t \in Seq(S)
  PROVE  /\ Reverse(s) \in Seq(S) /\ Reverse(s \o t) = Reverse(t) \o Reverse(s)
         /\ Reverse(<<>>) = <<>>
<1>. PICK m, k, r, u, v : /\ m = Len(s) /\ k = Len(t) /\ r = Reverse(s \o t)
                          /\ u = Reverse(t) /\ v = Reverse(s)
  OBVIOUS
<1>0. m \in Nat /\ k \in Nat
  OBVIOUS
<1>1. \A w \in Seq(S) : /\ Reverse(w) \in Seq(S) /\ Len(Reverse(w)) = Len(w)
                        /\ \A i \in 1..Len(w) : Reverse(w)[i] = w[(Len(w) - i) + 1]
  <2>. SUFFICES ASSUME NEW w \in Seq(S)
                PROVE  /\ Reverse(w) \in Seq(S) /\ Len(Reverse(w)) = Len(w)
                       /\ \A i \in 1..Len(w) : Reverse(w)[i] = w[(Len(w) - i) + 1]
    OBVIOUS
  <2>. PICK c, z : c = Len(w) /\ z = Reverse(w)
    OBVIOUS
  <2>1. c \in Nat /\ \A i \in 1..c : (c - i) + 1 \in 1..c /\ w[(c - i) + 1] \in S
    OBVIOUS
  <2>2. z = [i \in 1..c |-> w[(c - i) + 1]]
    BY DEF Reverse
  <2>3. z \in [1..c -> S]
    BY ONLY <2>1, <2>2
  <2>4. z \in Seq(S) /\ Len(z) = c /\ \A i \in 1..c : z[i] = w[(c - i) + 1]
    BY ONLY <2>1, <2>2, <2>3, SeqDef
  <2>. QED BY <2>4
<1>2. v \in Seq(S) /\ Len(v) = m /\ \A i \in 1..m : v[i] = s[(m - i) + 1]
  BY <1>1
<1>3. u \in Seq(S) /\ Len(u) = k /\ \A i \in 1..k : u[i] = t[(k - i) + 1]
  BY <1>1
<1>4. /\ s \o t \in Seq(S) /\ Len(s \o t) = m + k
      /\ (\A i \in 1..m : (s \o t)[i] = s[i]) /\ \A i \in 1..k : (s \o t)[m + i] = t[i]
  OBVIOUS
<1>5. r \in Seq(S) /\ Len(r) = m + k /\ \A i \in 1..(m + k) : r[i] = (s \o t)[((m + k) - i) + 1]
  <2>. PICK w : w = s \o t
    OBVIOUS
  <2>1. w \in Seq(S) /\ Len(w) = m + k /\ r = Reverse(w)
    BY <1>4
  <2>2. /\ r \in Seq(S) /\ Len(r) = Len(w)
        /\ \A i \in 1..Len(w) : r[i] = w[(Len(w) - i) + 1]
    BY ONLY <1>1, <2>1
  <2>. QED BY <2>1, <2>2
<1>6. /\ u \o v \in Seq(S) /\ Len(u \o v) = k + m
      /\ (\A i \in 1..k : (u \o v)[i] = u[i]) /\ \A i \in 1..m : (u \o v)[k + i] = v[i]
  <2>1. u \in Seq(S) /\ v \in Seq(S) /\ Len(u) = k /\ Len(v) = m
    BY <1>2, <1>3
  <2>2. /\ u \o v \in Seq(S) /\ Len(u \o v) = Len(u) + Len(v)
        /\ (\A i \in 1..Len(u) : (u \o v)[i] = u[i]) /\ \A i \in 1..Len(v) : (u \o v)[Len(u) + i] = v[i]
    <3>1. /\ u \o v \in Seq(S) /\ Len(u \o v) = Len(u) + Len(v)
          /\ \A i \in 1..Len(u) + Len(v) : (u \o v)[i] = IF i <= Len(u) THEN u[i] ELSE v[i - Len(u)]
      BY ONLY <2>1, ConcatProperties
    <3>2. /\ \A i \in 1..k : i \in 1..k + m /\ i <= k
          /\ \A i \in 1..m : k + i \in 1..k + m /\ ~(k + i <= k) /\ (k + i) - k = i
      BY ONLY <1>0
    <3>. QED BY ONLY <2>1, <3>1, <3>2
  <2>3. Len(u) + Len(v) = k + m
    BY <2>1
  <2>. QED BY ONLY <2>1, <2>2, <2>3
<1>7. ASSUME NEW i \in 1..(m + k) PROVE r[i] = (u \o v)[i]
  <2>1. CASE i \in 1..k
    <3>1. (k - i) + 1 \in 1..k /\ ((m + k) - i) + 1 = m + ((k - i) + 1)
      BY <1>0, <2>1
    <3>2. r[i] = t[(k - i) + 1]
      BY <1>4, <1>5, <3>1
    <3>. QED BY <1>3, <1>6, <2>1, <3>2
  <2>2. CASE i \notin 1..k
    <3>. PICK j : j = i - k
      OBVIOUS
    <3>1. j \in 1..m /\ i = k + j /\ ((m + k) - i) + 1 = (m - j) + 1 /\ (m - j) + 1 \in 1..m
      BY <1>0, <2>2
    <3>2. r[i] = s[(m - j) + 1]
      BY <1>4, <1>5, <3>1
    <3>3. (u \o v)[i] = v[j]
      BY <1>6, <3>1
    <3>. QED BY <1>2, <3>1, <3>2, <3>3
  <2>. QED BY <2>1, <2>2
<1>8. r = u \o v
  <2>1. Len(r) = Len(u \o v)
    BY <1>0, <1>5, <1>6
  <2>2. \A i \in 1..Len(r) : r[i] = (u \o v)[i]
    BY <1>5, <1>7
  <2>. QED BY ONLY <1>5, <1>6, <2>1, <2>2, SeqEqual
<1>9. Reverse(<<>>) = <<>>
  BY DEF Reverse
<1>. QED BY <1>2, <1>8, <1>9
-----------------------------------------------------------------------------
(* Pieces.                                                                 *)

PieceOf(S) == [run : BOOLEAN, batches : Seq(Seq(S))]

(* The batches and the rows of pieces, and of one more.                    *)
LEMMA PiecesLast ==
  ASSUME NEW S, NEW pieces \in Seq(PieceOf(S)), NEW p \in PieceOf(S)
  PROVE  /\ Append(pieces, p) \in Seq(PieceOf(S))
         /\ Batches(pieces) \in Seq(Seq(S)) /\ Rows(pieces) \in Seq(S)
         /\ Batches(Append(pieces, p)) = Batches(pieces) \o p.batches
         /\ Rows(Append(pieces, p)) = Rows(pieces) \o FlattenSeq(p.batches)
         /\ FlattenSeq(p.batches) \in Seq(S)
<1>. PICK R, H, m, more, u, v :
       /\ R = PieceOf(S) /\ H = Seq(Seq(S)) /\ m = Len(pieces) /\ more = Append(pieces, p)
       /\ u = [i \in DOMAIN pieces |-> pieces[i].batches] /\ v = [i \in DOMAIN more |-> more[i].batches]
  OBVIOUS
<1>1. \A r \in R : r.batches \in H
  BY DEF PieceOf
<1>2. /\ pieces \in Seq(R) /\ p \in R /\ m \in Nat /\ DOMAIN pieces = 1..m /\ \A i \in 1..m : pieces[i] \in R
  OBVIOUS
<1>3. /\ more \in Seq(R) /\ DOMAIN more = 1..(m + 1) /\ more[m + 1] = p
      /\ \A i \in 1..m : more[i] = pieces[i]
  BY ONLY <1>2, m = Len(pieces), more = Append(pieces, p)
<1>4. u \in [1..m -> H] /\ \A i \in 1..m : u[i] = pieces[i].batches
  BY <1>1, <1>2
<1>5. u \in Seq(H) /\ Len(u) = m
  BY ONLY <1>2, <1>4, SeqDef
<1>6. \A i \in 1..(m + 1) : i \in 1..m \/ i = m + 1
  BY <1>2
<1>7. v = Append(u, p.batches)
  <2>. PICK b, w : b = p.batches /\ w = Append(u, b)
    OBVIOUS
  <2>1. b \in H
    BY <1>1, <1>2
  <2>2. w \in Seq(H) /\ Len(w) = m + 1 /\ w[m + 1] = b /\ \A i \in 1..m : w[i] = u[i]
    BY ONLY <1>2, <1>5, <2>1, w = Append(u, b)
  <2>3. v = [i \in 1..(m + 1) |-> more[i].batches]
    BY <1>3
  <2>4. \A i \in 1..(m + 1) : v[i] = w[i]
    BY ONLY <1>3, <1>4, <1>6, <2>2, <2>3, b = p.batches
  <2>5. w = [i \in 1..(m + 1) |-> w[i]]
    BY ONLY <1>2, <2>2
  <2>. QED BY ONLY <2>3, <2>4, <2>5, w = Append(u, b), b = p.batches
<1>8. Batches(pieces) = FlattenSeq(u) /\ Batches(more) = FlattenSeq(v)
  BY DEF Batches
<1>9. /\ FlattenSeq(Append(u, p.batches)) = FlattenSeq(u) \o p.batches
      /\ FlattenSeq(u) \in Seq(Seq(S)) /\ p.batches \in Seq(Seq(S))
  <2>. PICK T : T = Seq(S)
    OBVIOUS
  <2>1. u \in Seq(Seq(T)) /\ p.batches \in Seq(T)
    BY <1>1, <1>2, <1>5
  <2>2. /\ FlattenSeq(Append(u, p.batches)) = FlattenSeq(u) \o p.batches
        /\ FlattenSeq(u) \in Seq(T)
    BY ONLY <2>1, FlattenLast
  <2>. QED BY <2>1, <2>2
<1>10. Batches(more) = Batches(pieces) \o p.batches /\ Batches(pieces) \in Seq(Seq(S))
  BY <1>7, <1>8, <1>9
<1>11. FlattenSeq(Batches(pieces) \o p.batches) = FlattenSeq(Batches(pieces)) \o FlattenSeq(p.batches)
  BY ONLY <1>9, <1>10, FlattenJoin
<1>12. \A s \in Seq(Seq(S)) : FlattenSeq(s) \in Seq(S)
  <2>1. <<>> \in Seq(S)
    OBVIOUS
  <2>. QED BY <2>1, FlattenLast
<1>. QED BY <1>3, <1>9, <1>10, <1>11, <1>12 DEF Rows

(* Of no pieces there are none.                                            *)
LEMMA PiecesNone ==
  ASSUME NEW S
  PROVE  <<>> \in Seq(PieceOf(S)) /\ Batches(<<>>) = <<>> /\ Rows(<<>>) = <<>>
<1>1. [i \in DOMAIN <<>> |-> <<>>[i].batches] = <<>>
  OBVIOUS
<1>2. FlattenSeq(<<>>) = <<>>
  BY DEF FlattenSeq
<1>. QED BY <1>1, <1>2 DEF Batches, Rows

(* A batch more is held behind the rows there are.                         *)
LEMMA HoldRows ==
  ASSUME NEW S, NEW pieces \in Seq(PieceOf(S)), NEW in \in Seq(S)
  PROVE  Hold(pieces, in) \in Seq(PieceOf(S)) /\ Rows(Hold(pieces, in)) = Rows(pieces) \o in
<1>. PICK R : R = PieceOf(S)
  OBVIOUS
<1>0. \A r \in R : r.batches \in Seq(Seq(S))
  BY DEF PieceOf
<1>1. CASE pieces # <<>> /\ ~Last(pieces).run
  <2>1. PICK u \in Seq(R), p \in R :
           /\ pieces = Append(u, p) /\ Last(pieces) = p
           /\ \A y \in R : [pieces EXCEPT ![Len(pieces)] = y] = Append(u, y)
    <3>1. pieces \in Seq(R) /\ pieces # <<>>
      BY <1>1
    <3>. QED BY ONLY <3>1, SeqLast
  <2>. PICK b, t, y : b = p.batches /\ t = Append(b, in) /\ y = [p EXCEPT !.batches = t]
    OBVIOUS
  <2>2. b \in Seq(Seq(S)) /\ t \in Seq(Seq(S))
    <3>1. b \in Seq(Seq(S))
      BY <1>0
    <3>. PICK H : H = Seq(S)
      OBVIOUS
    <3>2. Append(b, in) \in Seq(H)
      BY ONLY <3>1, H = Seq(S), in \in Seq(S)
    <3>. QED BY <3>1, <3>2
  <2>3. y \in R /\ y.batches = t
    <3>. PICK H : H = Seq(Seq(S))
      OBVIOUS
    <3>1. R = [run : BOOLEAN, batches : H] /\ t \in H
      BY <2>2 DEF PieceOf
    <3>. QED BY ONLY <3>1, p \in R, y = [p EXCEPT !.batches = t]
  <2>4. Hold(pieces, in) = Append(u, y)
    <3>1. Hold(pieces, in) = [pieces EXCEPT ![Len(pieces)].batches = Append(@, in)]
      BY <1>1 DEF Hold
    <3>2. pieces[Len(pieces)] = p
      BY <2>1 DEF Last
    <3>3. [pieces EXCEPT ![Len(pieces)].batches = Append(@, in)] = [pieces EXCEPT ![Len(pieces)] = y]
      BY <3>2
    <3>. QED BY <2>1, <2>3, <3>1, <3>3
  <2>5. /\ Append(u, y) \in Seq(R) /\ Rows(u) \in Seq(S)
        /\ Rows(Append(u, y)) = Rows(u) \o FlattenSeq(t) /\ Rows(Append(u, p)) = Rows(u) \o FlattenSeq(b)
    BY ONLY <2>3, u \in Seq(R), p \in R, R = PieceOf(S), b = p.batches, PiecesLast
  <2>6. FlattenSeq(t) = FlattenSeq(b) \o in /\ FlattenSeq(b) \in Seq(S)
    BY ONLY <2>2, in \in Seq(S), t = Append(b, in), FlattenLast
  <2>7. (Rows(u) \o FlattenSeq(b)) \o in = Rows(u) \o (FlattenSeq(b) \o in)
    BY ONLY <2>5, <2>6, in \in Seq(S), ConcatAssociative
  <2>. QED BY <2>1, <2>4, <2>5, <2>6, <2>7
<1>2. CASE ~(pieces # <<>> /\ ~Last(pieces).run)
  <2>. PICK p : p = [run |-> FALSE, batches |-> <<in>>]
    OBVIOUS
  <2>1. Hold(pieces, in) = Append(pieces, p)
    BY <1>2 DEF Hold
  <2>2. <<in>> \in Seq(Seq(S)) /\ Len(<<in>>) = 1 /\ <<in>>[1] = in
    OBVIOUS
  <2>3. p \in R /\ p.batches = <<in>>
    BY <2>2 DEF PieceOf
  <2>4. FlattenSeq(<<in>>) = in
    BY ONLY <2>2, FlattenOne
  <2>. QED BY <2>1, <2>3, <2>4, PiecesLast
<1>. QED BY <1>1, <1>2

(* A spill moves no row.                                                   *)
LEMMA SpillRows ==
  ASSUME NEW S, NEW pieces \in Seq(PieceOf(S))
  PROVE  Spill(pieces) \in Seq(PieceOf(S)) /\ Rows(Spill(pieces)) = Rows(pieces)
<1>. PICK R : R = PieceOf(S)
  OBVIOUS
<1>1. CASE pieces # <<>> /\ Last(pieces).batches # <<>>
  <2>1. PICK u \in Seq(R), p \in R :
           /\ pieces = Append(u, p) /\ Last(pieces) = p
           /\ \A y \in R : [pieces EXCEPT ![Len(pieces)] = y] = Append(u, y)
    <3>1. pieces \in Seq(R) /\ pieces # <<>>
      BY <1>1
    <3>. QED BY ONLY <3>1, SeqLast
  <2>. PICK y : y = [p EXCEPT !.run = TRUE]
    OBVIOUS
  <2>3. y \in R /\ y.batches = p.batches
    <3>. PICK H : H = Seq(Seq(S))
      OBVIOUS
    <3>1. R = [run : BOOLEAN, batches : H]
      BY DEF PieceOf
    <3>. QED BY ONLY <3>1, p \in R, y = [p EXCEPT !.run = TRUE]
  <2>4. Spill(pieces) = Append(u, y)
    <3>1. Spill(pieces) = [pieces EXCEPT ![Len(pieces)].run = TRUE]
      BY <1>1 DEF Spill
    <3>2. pieces[Len(pieces)] = p
      BY <2>1 DEF Last
    <3>3. [pieces EXCEPT ![Len(pieces)].run = TRUE] = [pieces EXCEPT ![Len(pieces)] = y]
      BY <3>2
    <3>. QED BY <2>1, <2>3, <3>1, <3>3
  <2>5. /\ Append(u, y) \in Seq(R) /\ Rows(Append(u, y)) = Rows(u) \o FlattenSeq(y.batches)
        /\ Rows(Append(u, p)) = Rows(u) \o FlattenSeq(p.batches)
    BY ONLY <2>3, u \in Seq(R), p \in R, R = PieceOf(S), PiecesLast
  <2>. QED BY <2>1, <2>3, <2>4, <2>5
<1>2. CASE ~(pieces # <<>> /\ Last(pieces).batches # <<>>)
  <2>1. Spill(pieces) = pieces
    BY <1>2 DEF Spill
  <2>. QED BY <2>1
<1>. QED BY <1>1, <1>2
-----------------------------------------------------------------------------
(* The reverse.                                                            *)

(* The batches backwards, last to first.                                   *)
Turned(batches) == [j \in DOMAIN batches |-> Reverse(batches[Len(batches) - j + 1])]

(* And of each piece, last to first.                                       *)
TurnedPieces(pieces) == [i \in DOMAIN pieces |-> Turned(pieces[Len(pieces) - i + 1].batches)]

(* What each is of one more.                                               *)
LEMMA TurnedLast ==
  ASSUME NEW S, NEW batches \in Seq(Seq(S)), NEW in \in Seq(S)
  PROVE  /\ Turned(batches) \in Seq(Seq(S)) /\ Turned(<<>>) = <<>>
         /\ Turned(Append(batches, in)) = <<Reverse(in)>> \o Turned(batches)
<1>. PICK H, m, more, u, v, x, w :
       /\ H = Seq(S) /\ m = Len(batches) /\ more = Append(batches, in)
       /\ u = Turned(batches) /\ v = Turned(more) /\ x = Reverse(in) /\ w = <<x>> \o u
  OBVIOUS
<1>1. \A s \in H : Reverse(s) \in H
  <2>1. <<>> \in Seq(S)
    OBVIOUS
  <2>. QED BY <2>1, ReverseJoin
<1>2. batches \in Seq(H) /\ in \in H /\ m \in Nat /\ DOMAIN batches = 1..m /\ x \in H
      /\ \A i \in 1..m : batches[i] \in H
  BY <1>1
<1>3. /\ more \in Seq(H) /\ Len(more) = m + 1 /\ DOMAIN more = 1..(m + 1) /\ more[m + 1] = in
      /\ \A i \in 1..m : more[i] = batches[i]
  BY ONLY <1>2, m = Len(batches), more = Append(batches, in)
<1>4. u = [j \in 1..m |-> Reverse(batches[m - j + 1])] /\ v = [j \in 1..(m + 1) |-> Reverse(more[(m + 1) - j + 1])]
  BY <1>2, <1>3 DEF Turned
<1>5. \A j \in 1..m : m - j + 1 \in 1..m /\ (m + 1) - (j + 1) + 1 = m - j + 1 /\ j + 1 \in 1..(m + 1)
  BY <1>2
<1>6. u \in [1..m -> H] /\ \A j \in 1..m : u[j] = Reverse(batches[m - j + 1])
  BY ONLY <1>1, <1>2, <1>4, <1>5
<1>7. u \in Seq(H) /\ Len(u) = m
  BY ONLY <1>2, <1>6, SeqDef
<1>8. w \in Seq(H) /\ Len(w) = m + 1 /\ w[1] = x /\ \A j \in 1..m : w[j + 1] = u[j]
  BY ONLY <1>2, <1>7, w = <<x>> \o u
<1>9. \A j \in 1..(m + 1) : j = 1 \/ (j - 1 \in 1..m /\ (j - 1) + 1 = j)
  BY <1>2
<1>10. v[1] = x
  <2>1. 1 \in 1..(m + 1) /\ (m + 1) - 1 + 1 = m + 1
    BY <1>2
  <2>. QED BY ONLY <1>3, <1>4, <2>1, x = Reverse(in)
<1>11. \A j \in 1..m : v[j + 1] = u[j]
  BY ONLY <1>3, <1>4, <1>5, <1>6
<1>12. \A j \in 1..(m + 1) : v[j] = w[j]
  BY ONLY <1>8, <1>9, <1>10, <1>11
<1>13. v = w
  <2>1. w = [j \in 1..(m + 1) |-> w[j]]
    BY ONLY <1>2, <1>8
  <2>. QED BY ONLY <1>4, <1>12, <2>1
<1>14. Turned(<<>>) = <<>>
  BY DEF Turned
<1>. QED BY <1>7, <1>13, <1>14

(* What is read backwards of the pieces begins with the last of them       *)
(* (reverseOp.Next).                                                       *)
LEMMA TurnedPiecesLast ==
  ASSUME NEW S, NEW pieces \in Seq(PieceOf(S)), NEW p \in PieceOf(S)
  PROVE  /\ TurnedPieces(pieces) \in Seq(Seq(Seq(S))) /\ TurnedPieces(<<>>) = <<>>
         /\ TurnedPieces(Append(pieces, p)) = <<Turned(p.batches)>> \o TurnedPieces(pieces)
<1>. PICK R, H, m, more, u, v, x, w :
       /\ R = PieceOf(S) /\ H = Seq(Seq(S)) /\ m = Len(pieces) /\ more = Append(pieces, p)
       /\ u = TurnedPieces(pieces) /\ v = TurnedPieces(more) /\ x = Turned(p.batches) /\ w = <<x>> \o u
  OBVIOUS
<1>1. \A r \in R : Turned(r.batches) \in H
  <2>1. <<>> \in Seq(S) /\ \A r \in R : r.batches \in Seq(Seq(S))
    BY DEF PieceOf
  <2>. QED BY <2>1, TurnedLast
<1>2. pieces \in Seq(R) /\ p \in R /\ m \in Nat /\ DOMAIN pieces = 1..m /\ x \in H
      /\ \A i \in 1..m : pieces[i] \in R
  BY <1>1
<1>3. /\ more \in Seq(R) /\ Len(more) = m + 1 /\ DOMAIN more = 1..(m + 1) /\ more[m + 1] = p
      /\ \A i \in 1..m : more[i] = pieces[i]
  BY ONLY <1>2, m = Len(pieces), more = Append(pieces, p)
<1>4. /\ u = [j \in 1..m |-> Turned(pieces[m - j + 1].batches)]
      /\ v = [j \in 1..(m + 1) |-> Turned(more[(m + 1) - j + 1].batches)]
  BY <1>2, <1>3 DEF TurnedPieces
<1>5. \A j \in 1..m : m - j + 1 \in 1..m /\ (m + 1) - (j + 1) + 1 = m - j + 1 /\ j + 1 \in 1..(m + 1)
  BY <1>2
<1>6. u \in [1..m -> H] /\ \A j \in 1..m : u[j] = Turned(pieces[m - j + 1].batches)
  BY ONLY <1>1, <1>2, <1>4, <1>5
<1>7. u \in Seq(H) /\ Len(u) = m
  BY ONLY <1>2, <1>6, SeqDef
<1>8. w \in Seq(H) /\ Len(w) = m + 1 /\ w[1] = x /\ \A j \in 1..m : w[j + 1] = u[j]
  BY ONLY <1>2, <1>7, w = <<x>> \o u
<1>9. \A j \in 1..(m + 1) : j = 1 \/ (j - 1 \in 1..m /\ (j - 1) + 1 = j)
  BY <1>2
<1>10. v[1] = x
  <2>1. 1 \in 1..(m + 1) /\ (m + 1) - 1 + 1 = m + 1
    BY <1>2
  <2>. QED BY ONLY <1>3, <1>4, <2>1, x = Turned(p.batches)
<1>11. \A j \in 1..m : v[j + 1] = u[j]
  BY ONLY <1>3, <1>4, <1>5, <1>6
<1>12. \A j \in 1..(m + 1) : v[j] = w[j]
  BY ONLY <1>8, <1>9, <1>10, <1>11
<1>13. v = w
  <2>1. w = [j \in 1..(m + 1) |-> w[j]]
    BY ONLY <1>2, <1>8
  <2>. QED BY ONLY <1>4, <1>12, <2>1
<1>14. TurnedPieces(<<>>) = <<>>
  BY DEF TurnedPieces
<1>. QED BY <1>7, <1>13, <1>14

(* Batches turned are their rows backwards,                                *)
LEMMA TurnedReverses ==
  ASSUME NEW S
  PROVE  \A b \in Seq(Seq(S)) : /\ Turned(b) \in Seq(Seq(S)) /\ FlattenSeq(b) \in Seq(S)
                                /\ FlattenSeq(Turned(b)) = Reverse(FlattenSeq(b))
<1>. DEFINE Q == {b \in Seq(Seq(S)) : /\ Turned(b) \in Seq(Seq(S)) /\ FlattenSeq(b) \in Seq(S)
                                      /\ FlattenSeq(Turned(b)) = Reverse(FlattenSeq(b))}
<1>0. <<>> \in Seq(S) /\ <<>> \in Seq(Seq(S))
  <2>. PICK H : H = Seq(S)
    OBVIOUS
  <2>1. <<>> \in Seq(H)
    OBVIOUS
  <2>. QED BY <2>1
<1>1. <<>> \in Q
  <2>1. FlattenSeq(<<>>) = <<>>
    BY DEF FlattenSeq
  <2>2. Turned(<<>>) = <<>> /\ Reverse(<<>>) = <<>>
    BY <1>0, TurnedLast, ReverseJoin
  <2>. QED BY <1>0, <2>1, <2>2
<1>2. ASSUME NEW b \in Seq(Seq(S)), NEW x \in Seq(S), b \in Q PROVE Append(b, x) \in Q
  <2>. PICK f, t : f = FlattenSeq(b) /\ t = Turned(b)
    OBVIOUS
  <2>1. Reverse(x) \in Seq(S) /\ Append(b, x) \in Seq(Seq(S))
    <3>1. Reverse(x) \in Seq(S)
      BY ReverseJoin
    <3>. PICK H : H = Seq(S)
      OBVIOUS
    <3>2. Append(b, x) \in Seq(H)
      BY ONLY b \in Seq(Seq(S)), x \in Seq(S), H = Seq(S)
    <3>. QED BY <3>1, <3>2
  <2>2. t \in Seq(Seq(S)) /\ f \in Seq(S) /\ FlattenSeq(t) = Reverse(f)
    BY <1>2
  <2>3. Turned(Append(b, x)) = <<Reverse(x)>> \o t
    BY ONLY b \in Seq(Seq(S)), x \in Seq(S), t = Turned(b), TurnedLast
  <2>4. /\ <<Reverse(x)>> \o t \in Seq(Seq(S))
        /\ FlattenSeq(<<Reverse(x)>> \o t) = Reverse(x) \o FlattenSeq(t)
    BY ONLY <2>1, <2>2, FlattenFirst
  <2>5. FlattenSeq(Append(b, x)) = f \o x
    BY ONLY b \in Seq(Seq(S)), x \in Seq(S), f = FlattenSeq(b), FlattenLast
  <2>6. Reverse(f \o x) = Reverse(x) \o Reverse(f)
    BY ONLY <2>2, x \in Seq(S), ReverseJoin
  <2>7. f \o x \in Seq(S)
    BY ONLY <2>2, x \in Seq(S)
  <2>. QED BY <2>1, <2>2, <2>3, <2>4, <2>5, <2>6, <2>7
<1>3. Seq(Seq(S)) \subseteq Q
  <2>. HIDE DEF Q
  <2>1. \A u \in Seq(Seq(S)), x \in Seq(S) : u \in Q => Append(u, x) \in Q
    BY <1>2
  <2>. QED BY ONLY <1>1, <2>1, LastInduction
<1>. QED BY <1>3

(* and so are pieces turned.                                               *)
LEMMA ReverseTurns ==
  ASSUME NEW S
  PROVE  \A pieces \in Seq(PieceOf(S)) :
           Rows(pieces) \in Seq(S) /\ ReverseAnswer(pieces) = Reverse(Rows(pieces))
<1>. DEFINE T(pieces) == FlattenSeq(TurnedPieces(pieces))
            Q == {pieces \in Seq(PieceOf(S)) :
                    /\ Rows(pieces) \in Seq(S) /\ T(pieces) \in Seq(Seq(S))
                    /\ FlattenSeq(T(pieces)) = Reverse(Rows(pieces))}
<1>0. \A pieces : ReverseAnswer(pieces) = FlattenSeq(T(pieces))
  BY DEF ReverseAnswer, TurnedPieces, Turned
<1>1. <<>> \in Q
  <2>1. FlattenSeq(<<>>) = <<>>
    BY DEF FlattenSeq
  <2>2. TurnedPieces(<<>>) = <<>> /\ Reverse(<<>>) = <<>>
    BY DEF TurnedPieces, Reverse
  <2>3. <<>> \in Seq(PieceOf(S)) /\ Rows(<<>>) = <<>>
    BY PiecesNone
  <2>4. <<>> \in Seq(S) /\ <<>> \in Seq(Seq(S))
    <3>. PICK H : H = Seq(S)
      OBVIOUS
    <3>1. <<>> \in Seq(H)
      OBVIOUS
    <3>. QED BY <3>1
  <2>. QED BY <2>1, <2>2, <2>3, <2>4
<1>2. ASSUME NEW pieces \in Seq(PieceOf(S)), NEW p \in PieceOf(S), pieces \in Q
      PROVE  Append(pieces, p) \in Q
  <2>. PICK more, b, f, t, r : /\ more = Append(pieces, p) /\ b = p.batches /\ f = FlattenSeq(b)
                               /\ t = T(pieces) /\ r = Rows(pieces)
    OBVIOUS
  <2>1. b \in Seq(Seq(S)) /\ Turned(b) \in Seq(Seq(S)) /\ f \in Seq(S) /\ FlattenSeq(Turned(b)) = Reverse(f)
    <3>1. b \in Seq(Seq(S))
      BY DEF PieceOf
    <3>. QED BY <3>1, TurnedReverses
  <2>2. r \in Seq(S) /\ t \in Seq(Seq(S)) /\ FlattenSeq(t) = Reverse(r)
    BY <1>2
  <2>3. more \in Seq(PieceOf(S)) /\ Rows(more) = r \o f
    BY PiecesLast
  <2>4. /\ TurnedPieces(pieces) \in Seq(Seq(Seq(S)))
        /\ TurnedPieces(more) = <<Turned(b)>> \o TurnedPieces(pieces)
    BY ONLY pieces \in Seq(PieceOf(S)), p \in PieceOf(S), more = Append(pieces, p), b = p.batches,
            TurnedPiecesLast
  <2>5. T(more) = Turned(b) \o t
    <3>. PICK H, x, y : H = Seq(S) /\ x = Turned(b) /\ y = TurnedPieces(pieces)
      OBVIOUS
    <3>1. x \in Seq(H) /\ y \in Seq(Seq(H))
      BY <2>1, <2>4
    <3>2. FlattenSeq(<<x>> \o y) = x \o FlattenSeq(y)
      BY ONLY <3>1, FlattenFirst
    <3>. QED BY <2>4, <3>2
  <2>6. /\ Turned(b) \o t \in Seq(Seq(S))
        /\ FlattenSeq(Turned(b) \o t) = FlattenSeq(Turned(b)) \o FlattenSeq(t)
    BY ONLY <2>1, <2>2, FlattenJoin
  <2>7. r \o f \in Seq(S) /\ Reverse(r \o f) = Reverse(f) \o Reverse(r)
    <3>1. r \in Seq(S) /\ f \in Seq(S)
      BY ONLY <2>1, <2>2
    <3>2. r \o f \in Seq(S)
      BY ONLY <3>1, ConcatProperties
    <3>3. Reverse(r \o f) = Reverse(f) \o Reverse(r)
      BY ONLY <3>1, ReverseJoin
    <3>. QED BY ONLY <3>2, <3>3
  <2>. HIDE DEF T
  <2>. QED BY <2>1, <2>2, <2>3, <2>5, <2>6, <2>7
<1>3. Seq(PieceOf(S)) \subseteq Q
  <2>. HIDE DEF Q
  <2>1. \A u \in Seq(PieceOf(S)), x \in PieceOf(S) : u \in Q => Append(u, x) \in Q
    BY <1>2
  <2>. QED BY ONLY <1>1, <2>1, LastInduction
<1>. QED BY <1>0, <1>3

(* Pieces that each batch adds its rows to hold in the end what they held, *)
(* and the rows of the batches behind.                                     *)
LEMMA PiecesFollow ==
  ASSUME NEW S, NEW batches \in Seq(Seq(S)), NEW f, f[0] \in Seq(PieceOf(S)),
         \A k \in 1..Len(batches) : f[k - 1] \in Seq(PieceOf(S)) =>
           f[k] \in Seq(PieceOf(S)) /\ Rows(f[k]) = Rows(f[k - 1]) \o batches[k]
  PROVE  /\ f[Len(batches)] \in Seq(PieceOf(S))
         /\ Rows(f[Len(batches)]) = Rows(f[0]) \o FlattenSeq(batches)
<1>. DEFINE F(k) == FlattenSeq(SubSeq(batches, 1, k))
            Q == {k \in Nat : k <= Len(batches) =>
                    f[k] \in Seq(PieceOf(S)) /\ Rows(f[k]) = Rows(f[0]) \o F(k)}
<1>1. Len(batches) \in Nat /\ \A k \in 1..Len(batches) : batches[k] \in Seq(S)
  OBVIOUS
<1>2. /\ F(0) = <<>> /\ F(Len(batches)) = FlattenSeq(batches)
      /\ \A k \in 1..Len(batches) : F(k) = F(k - 1) \o batches[k]
      /\ \A k \in 0..Len(batches) : F(k) \in Seq(S)
  BY FlattenFront
<1>3. \A p \in Seq(PieceOf(S)) : Rows(p) \in Seq(S)
  BY ReverseTurns
<1>4. 0 \in Q
  <2>1. Rows(f[0]) \o <<>> = Rows(f[0])
    BY <1>3, ConcatEmptySeq
  <2>. QED BY <1>2, <2>1
<1>5. ASSUME NEW k \in Nat, k \in Q PROVE k + 1 \in Q
  <2>. SUFFICES ASSUME k + 1 <= Len(batches)
                PROVE  f[k + 1] \in Seq(PieceOf(S)) /\ Rows(f[k + 1]) = Rows(f[0]) \o F(k + 1)
    OBVIOUS
  <2>1. k + 1 \in 1..Len(batches) /\ (k + 1) - 1 = k /\ k \in 0..Len(batches) /\ k <= Len(batches)
    BY <1>1
  <2>2. f[k] \in Seq(PieceOf(S)) /\ Rows(f[k]) = Rows(f[0]) \o F(k)
    BY <1>5, <2>1
  <2>3. f[k + 1] \in Seq(PieceOf(S)) /\ Rows(f[k + 1]) = Rows(f[k]) \o batches[k + 1]
    BY <2>1, <2>2
  <2>4. F(k + 1) = F(k) \o batches[k + 1] /\ F(k) \in Seq(S) /\ batches[k + 1] \in Seq(S)
    BY <1>1, <1>2, <2>1
  <2>5. Rows(f[0]) \in Seq(S)
    BY <1>3
  <2>. HIDE DEF F
  <2>6. (Rows(f[0]) \o F(k)) \o batches[k + 1] = Rows(f[0]) \o (F(k) \o batches[k + 1])
    <3>1. \A a, b, c \in Seq(S) : (a \o b) \o c = a \o (b \o c)
      BY ONLY ConcatAssociative
    <3>. QED BY ONLY <2>4, <2>5, <3>1
  <2>. QED BY ONLY <2>2, <2>3, <2>4, <2>6
<1>6. Len(batches) \in Q
  <2>. HIDE DEF Q
  <2>. QED BY <1>1, <1>4, <1>5, NaturalInduction
<1>. QED BY <1>1, <1>2, <1>6

(* The pieces of a reverse, batch by batch.                               *)
ReverseSteps(f, over, batches) ==
  /\ f[0] = <<>>
  /\ \A k \in 1..Len(batches) : f[k] = ReverseBatch(over, k, f[k - 1], batches[k])
  /\ ReversePieces(over, batches) = f[Len(batches)]

(* A reverse takes its input batch by batch (reverseSink.hold).            *)
LEMMA ReverseStates ==
  ASSUME NEW over, NEW batches, Len(batches) \in Nat
  PROVE  \E f : ReverseSteps(f, over, batches)
<1>. DEFINE Rec(f, k) == IF k = 0 THEN <<>> ELSE ReverseBatch(over, k, f[k - 1], batches[k])
            Is(f) == f = [k \in 0..Len(batches) |-> Rec(f, k)]
            Q == {m \in Nat : \E f : f = [k \in 0..m |-> Rec(f, k)]}
<1>1. 0 \in Q
  <2>1. [k \in 0..0 |-> <<>>] = [k \in 0..0 |-> Rec([j \in 0..0 |-> <<>>], k)]
    OBVIOUS
  <2>. HIDE DEF Rec
  <2>. QED BY <2>1
<1>2. ASSUME NEW m \in Nat, m \in Q PROVE m + 1 \in Q
  <2>1. PICK f : f = [k \in 0..m |-> Rec(f, k)]
    BY <1>2
  <2>. DEFINE h == [k \in 0..(m + 1) |-> Rec(f, k)]
  <2>2. \A k \in 0..m : h[k] = f[k]
    <3>1. \A k \in 0..m : f[k] = Rec(f, k)
      <4>. HIDE DEF Rec
      <4>. QED BY <2>1
    <3>2. \A k \in 0..m : k \in 0..(m + 1)
      OBVIOUS
    <3>. HIDE DEF Rec
    <3>. QED BY <3>1, <3>2
  <2>3. \A k \in 0..(m + 1) : k # 0 => k - 1 \in 0..m
    OBVIOUS
  <2>4. \A k \in 0..(m + 1) : Rec(f, k) = Rec(h, k)
    <3>. HIDE DEF h
    <3>. QED BY <2>2, <2>3
  <2>5. h = [k \in 0..(m + 1) |-> Rec(h, k)]
    <3>1. h = [k \in 0..(m + 1) |-> Rec(f, k)]
      OBVIOUS
    <3>. HIDE DEF h, Rec
    <3>. QED BY <2>4, <3>1
  <2>. HIDE DEF h, Rec
  <2>. QED BY <2>5
<1>3. Len(batches) \in Q
  <2>. HIDE DEF Q
  <2>. QED BY <1>1, <1>2, NaturalInduction
<1>4. \E f : Is(f)
  <2>. HIDE DEF Rec
  <2>. QED BY <1>3
<1>5. PICK f : f = CHOOSE g : Is(g)
  OBVIOUS
<1>6. Is(f)
  <2>. HIDE DEF Is
  <2>. QED BY <1>4, <1>5
<1>7. ReversePieces(over, batches) = f[Len(batches)]
  <2>1. ReversePieces(over, batches) = (CHOOSE g : Is(g))[Len(batches)]
    BY DEF ReversePieces
  <2>. HIDE DEF Is
  <2>. QED BY <1>5, <2>1
<1>8. f[0] = <<>>
  <2>1. 0 \in 0..Len(batches)
    OBVIOUS
  <2>. QED BY <1>6, <2>1
<1>9. \A k \in 1..Len(batches) : f[k] = ReverseBatch(over, k, f[k - 1], batches[k])
  <2>1. \A k \in 1..Len(batches) : k \in 0..Len(batches) /\ k # 0
    OBVIOUS
  <2>2. \A k \in 1..Len(batches) : f[k] = Rec(f, k)
    <3>. HIDE DEF Rec
    <3>. QED BY <1>6, <2>1
  <2>. QED BY <2>1, <2>2
<1>. QED BY <1>7, <1>8, <1>9 DEF ReverseSteps

(* The pieces as one batch after the other is held.                       *)
HoldSteps(f, pieces, batches) ==
  /\ f[0] = pieces
  /\ \A k \in 1..Len(batches) : f[k] = Hold(f[k - 1], batches[k])
  /\ HoldAll(pieces, batches) = f[Len(batches)]

(* The batches of a piece are held one after the other                     *)
(* (reverseSink.Merge).                                                    *)
LEMMA HoldStates ==
  ASSUME NEW pieces, NEW batches, Len(batches) \in Nat
  PROVE  \E f : HoldSteps(f, pieces, batches)
<1>. DEFINE Rec(f, k) == IF k = 0 THEN pieces ELSE Hold(f[k - 1], batches[k])
            Is(f) == f = [k \in 0..Len(batches) |-> Rec(f, k)]
            Q == {m \in Nat : \E f : f = [k \in 0..m |-> Rec(f, k)]}
<1>1. 0 \in Q
  <2>1. [k \in 0..0 |-> pieces] = [k \in 0..0 |-> Rec([j \in 0..0 |-> pieces], k)]
    OBVIOUS
  <2>. HIDE DEF Rec
  <2>. QED BY <2>1
<1>2. ASSUME NEW m \in Nat, m \in Q PROVE m + 1 \in Q
  <2>1. PICK f : f = [k \in 0..m |-> Rec(f, k)]
    BY <1>2
  <2>. DEFINE h == [k \in 0..(m + 1) |-> Rec(f, k)]
  <2>2. \A k \in 0..m : h[k] = f[k]
    <3>1. \A k \in 0..m : f[k] = Rec(f, k)
      <4>. HIDE DEF Rec
      <4>. QED BY <2>1
    <3>2. \A k \in 0..m : k \in 0..(m + 1)
      OBVIOUS
    <3>. HIDE DEF Rec
    <3>. QED BY <3>1, <3>2
  <2>3. \A k \in 0..(m + 1) : k # 0 => k - 1 \in 0..m
    OBVIOUS
  <2>4. \A k \in 0..(m + 1) : Rec(f, k) = Rec(h, k)
    <3>. HIDE DEF h
    <3>. QED BY <2>2, <2>3
  <2>5. h = [k \in 0..(m + 1) |-> Rec(h, k)]
    <3>1. h = [k \in 0..(m + 1) |-> Rec(f, k)]
      OBVIOUS
    <3>. HIDE DEF h, Rec
    <3>. QED BY <2>4, <3>1
  <2>. HIDE DEF h, Rec
  <2>. QED BY <2>5
<1>3. Len(batches) \in Q
  <2>. HIDE DEF Q
  <2>. QED BY <1>1, <1>2, NaturalInduction
<1>4. \E f : Is(f)
  <2>. HIDE DEF Rec
  <2>. QED BY <1>3
<1>5. PICK f : f = CHOOSE g : Is(g)
  OBVIOUS
<1>6. Is(f)
  <2>. HIDE DEF Is
  <2>. QED BY <1>4, <1>5
<1>7. HoldAll(pieces, batches) = f[Len(batches)]
  <2>1. HoldAll(pieces, batches) = (CHOOSE g : Is(g))[Len(batches)]
    BY DEF HoldAll
  <2>. HIDE DEF Is
  <2>. QED BY <1>5, <2>1
<1>8. f[0] = pieces
  <2>1. 0 \in 0..Len(batches)
    OBVIOUS
  <2>. QED BY <1>6, <2>1
<1>9. \A k \in 1..Len(batches) : f[k] = Hold(f[k - 1], batches[k])
  <2>1. \A k \in 1..Len(batches) : k \in 0..Len(batches) /\ k # 0
    OBVIOUS
  <2>2. \A k \in 1..Len(batches) : f[k] = Rec(f, k)
    <3>. HIDE DEF Rec
    <3>. QED BY <1>6, <2>1
  <2>. QED BY <2>1, <2>2
<1>. QED BY <1>7, <1>8, <1>9 DEF HoldSteps

(* The pieces as one piece of the other sink after the other is taken.     *)
MergeSteps(f, pieces, others) ==
  /\ f[0] = pieces
  /\ \A k \in 1..Len(others) : f[k] = MergePiece(f[k - 1], others[k])
  /\ MergeAll(pieces, others) = f[Len(others)]

(* A merge of sinks takes the other one piece by piece                     *)
(* (reverseSink.Merge).                                                    *)
LEMMA MergeStates ==
  ASSUME NEW pieces, NEW others, Len(others) \in Nat
  PROVE  \E f : MergeSteps(f, pieces, others)
<1>. DEFINE Rec(f, k) == IF k = 0 THEN pieces ELSE MergePiece(f[k - 1], others[k])
            Is(f) == f = [k \in 0..Len(others) |-> Rec(f, k)]
            Q == {m \in Nat : \E f : f = [k \in 0..m |-> Rec(f, k)]}
<1>1. 0 \in Q
  <2>1. [k \in 0..0 |-> pieces] = [k \in 0..0 |-> Rec([j \in 0..0 |-> pieces], k)]
    OBVIOUS
  <2>. HIDE DEF Rec
  <2>. QED BY <2>1
<1>2. ASSUME NEW m \in Nat, m \in Q PROVE m + 1 \in Q
  <2>1. PICK f : f = [k \in 0..m |-> Rec(f, k)]
    BY <1>2
  <2>. DEFINE h == [k \in 0..(m + 1) |-> Rec(f, k)]
  <2>2. \A k \in 0..m : h[k] = f[k]
    <3>1. \A k \in 0..m : f[k] = Rec(f, k)
      <4>. HIDE DEF Rec
      <4>. QED BY <2>1
    <3>2. \A k \in 0..m : k \in 0..(m + 1)
      OBVIOUS
    <3>. HIDE DEF Rec
    <3>. QED BY <3>1, <3>2
  <2>3. \A k \in 0..(m + 1) : k # 0 => k - 1 \in 0..m
    OBVIOUS
  <2>4. \A k \in 0..(m + 1) : Rec(f, k) = Rec(h, k)
    <3>. HIDE DEF h
    <3>. QED BY <2>2, <2>3
  <2>5. h = [k \in 0..(m + 1) |-> Rec(h, k)]
    <3>1. h = [k \in 0..(m + 1) |-> Rec(f, k)]
      OBVIOUS
    <3>. HIDE DEF h, Rec
    <3>. QED BY <2>4, <3>1
  <2>. HIDE DEF h, Rec
  <2>. QED BY <2>5
<1>3. Len(others) \in Q
  <2>. HIDE DEF Q
  <2>. QED BY <1>1, <1>2, NaturalInduction
<1>4. \E f : Is(f)
  <2>. HIDE DEF Rec
  <2>. QED BY <1>3
<1>5. PICK f : f = CHOOSE g : Is(g)
  OBVIOUS
<1>6. Is(f)
  <2>. HIDE DEF Is
  <2>. QED BY <1>4, <1>5
<1>7. MergeAll(pieces, others) = f[Len(others)]
  <2>1. MergeAll(pieces, others) = (CHOOSE g : Is(g))[Len(others)]
    BY DEF MergeAll
  <2>. HIDE DEF Is
  <2>. QED BY <1>5, <2>1
<1>8. f[0] = pieces
  <2>1. 0 \in 0..Len(others)
    OBVIOUS
  <2>. QED BY <1>6, <2>1
<1>9. \A k \in 1..Len(others) : f[k] = MergePiece(f[k - 1], others[k])
  <2>1. \A k \in 1..Len(others) : k \in 0..Len(others) /\ k # 0
    OBVIOUS
  <2>2. \A k \in 1..Len(others) : f[k] = Rec(f, k)
    <3>. HIDE DEF Rec
    <3>. QED BY <1>6, <2>1
  <2>. QED BY <2>1, <2>2
<1>. QED BY <1>7, <1>8, <1>9 DEF MergeSteps

(* A reverse's pieces are the rows of its input.                           *)
LEMMA ReverseHolds ==
  ASSUME NEW S, NEW over, NEW batches \in Seq(Seq(S))
  PROVE  /\ ReversePieces(over, batches) \in Seq(PieceOf(S))
         /\ Rows(ReversePieces(over, batches)) = FlattenSeq(batches)
<1>1. PICK f : ReverseSteps(f, over, batches)
  <2>1. Len(batches) \in Nat
    OBVIOUS
  <2>. QED BY <2>1, ReverseStates
<1>2. f[0] = <<>> /\ ReversePieces(over, batches) = f[Len(batches)]
      /\ \A k \in 1..Len(batches) : f[k] = ReverseBatch(over, k, f[k - 1], batches[k])
  BY <1>1 DEF ReverseSteps
<1>3. f[0] \in Seq(PieceOf(S)) /\ Rows(f[0]) = <<>>
  BY <1>2, PiecesNone
<1>4. ASSUME NEW k \in 1..Len(batches), f[k - 1] \in Seq(PieceOf(S))
      PROVE  f[k] \in Seq(PieceOf(S)) /\ Rows(f[k]) = Rows(f[k - 1]) \o batches[k]
  <2>. PICK p, in : p = f[k - 1] /\ in = batches[k]
    OBVIOUS
  <2>1. p \in Seq(PieceOf(S)) /\ in \in Seq(S) /\ f[k] = ReverseBatch(over, k, p, in)
    BY <1>2, <1>4
  <2>2. Rows(p) \in Seq(S)
    BY <2>1, ReverseTurns
  <2>3. Rows(p) \o <<>> = Rows(p)
    BY ONLY <2>2, ConcatEmptySeq
  <2>4. Hold(p, in) \in Seq(PieceOf(S)) /\ Rows(Hold(p, in)) = Rows(p) \o in
    BY ONLY <2>1, HoldRows
  <2>5. Spill(Hold(p, in)) \in Seq(PieceOf(S)) /\ Rows(Spill(Hold(p, in))) = Rows(p) \o in
    BY ONLY <2>4, SpillRows
  <2>6. f[k] = (IF in = <<>> THEN p ELSE IF k \in over THEN Spill(Hold(p, in)) ELSE Hold(p, in))
    BY ONLY <2>1 DEF ReverseBatch
  <2>. QED BY <2>1, <2>3, <2>4, <2>5, <2>6
<1>5. /\ f[Len(batches)] \in Seq(PieceOf(S))
      /\ Rows(f[Len(batches)]) = Rows(f[0]) \o FlattenSeq(batches)
  BY ONLY <1>3, <1>4, batches \in Seq(Seq(S)), PiecesFollow
<1>6. <<>> \o FlattenSeq(batches) = FlattenSeq(batches)
  <2>1. FlattenSeq(batches) \in Seq(S)
    BY TurnedReverses
  <2>. QED BY <2>1, ConcatEmptySeq
<1>. QED BY <1>2, <1>3, <1>5, <1>6

(* Batches held one after the other are behind the rows there were.        *)
LEMMA HeldAll ==
  ASSUME NEW S, NEW pieces \in Seq(PieceOf(S)), NEW batches \in Seq(Seq(S))
  PROVE  /\ HoldAll(pieces, batches) \in Seq(PieceOf(S))
         /\ Rows(HoldAll(pieces, batches)) = Rows(pieces) \o FlattenSeq(batches)
<1>1. PICK f : HoldSteps(f, pieces, batches)
  <2>1. Len(batches) \in Nat
    OBVIOUS
  <2>. QED BY <2>1, HoldStates
<1>2. f[0] = pieces /\ HoldAll(pieces, batches) = f[Len(batches)]
      /\ \A k \in 1..Len(batches) : f[k] = Hold(f[k - 1], batches[k])
  BY <1>1 DEF HoldSteps
<1>3. f[0] \in Seq(PieceOf(S))
  BY <1>2
<1>4. ASSUME NEW k \in 1..Len(batches), f[k - 1] \in Seq(PieceOf(S))
      PROVE  f[k] \in Seq(PieceOf(S)) /\ Rows(f[k]) = Rows(f[k - 1]) \o batches[k]
  <2>1. batches[k] \in Seq(S)
    OBVIOUS
  <2>. QED BY <1>2, <1>4, <2>1, HoldRows
<1>5. /\ f[Len(batches)] \in Seq(PieceOf(S))
      /\ Rows(f[Len(batches)]) = Rows(f[0]) \o FlattenSeq(batches)
  BY ONLY <1>3, <1>4, batches \in Seq(Seq(S)), PiecesFollow
<1>. QED BY <1>2, <1>5

(* The rows of pieces, a piece at a time.                                  *)
PieceRows(pieces) == [i \in DOMAIN pieces |-> FlattenSeq(pieces[i].batches)]

(* They are those of all its batches, joined.                              *)
LEMMA PieceByPiece ==
  ASSUME NEW S
  PROVE  \A pieces \in Seq(PieceOf(S)) :
           /\ PieceRows(pieces) \in Seq(Seq(S)) /\ Len(PieceRows(pieces)) = Len(pieces)
           /\ FlattenSeq(PieceRows(pieces)) = Rows(pieces)
<1>. DEFINE Q == {pieces \in Seq(PieceOf(S)) :
                    /\ PieceRows(pieces) \in Seq(Seq(S))
                    /\ FlattenSeq(PieceRows(pieces)) = Rows(pieces)}
<1>1. <<>> \in Q
  <2>1. FlattenSeq(<<>>) = <<>>
    BY DEF FlattenSeq
  <2>2. PieceRows(<<>>) = <<>>
    BY DEF PieceRows
  <2>3. <<>> \in Seq(PieceOf(S)) /\ Rows(<<>>) = <<>>
    BY PiecesNone
  <2>4. <<>> \in Seq(Seq(S))
    <3>. PICK H : H = Seq(S)
      OBVIOUS
    <3>1. <<>> \in Seq(H)
      OBVIOUS
    <3>. QED BY <3>1
  <2>. QED BY <2>1, <2>2, <2>3, <2>4
<1>2. ASSUME NEW pieces \in Seq(PieceOf(S)), NEW p \in PieceOf(S), pieces \in Q
      PROVE  Append(pieces, p) \in Q
  <2>. PICK R, H, m, more, f, u, v :
         /\ R = PieceOf(S) /\ H = Seq(S) /\ m = Len(pieces) /\ more = Append(pieces, p)
         /\ f = FlattenSeq(p.batches) /\ u = PieceRows(pieces) /\ v = PieceRows(more)
    OBVIOUS
  <2>1. /\ more \in Seq(PieceOf(S)) /\ Rows(more) = Rows(pieces) \o f /\ f \in H
    BY PiecesLast
  <2>2. u \in Seq(H) /\ FlattenSeq(u) = Rows(pieces)
    BY <1>2
  <2>3. m \in Nat /\ DOMAIN pieces = 1..m /\ DOMAIN more = 1..(m + 1) /\ more[m + 1] = p
        /\ \A i \in 1..m : more[i] = pieces[i]
    BY ONLY pieces \in Seq(R), p \in R, m = Len(pieces), more = Append(pieces, p)
  <2>4. u = [i \in 1..m |-> FlattenSeq(pieces[i].batches)] /\ v = [i \in 1..(m + 1) |-> FlattenSeq(more[i].batches)]
    BY ONLY <2>3, u = PieceRows(pieces), v = PieceRows(more) DEF PieceRows
  <2>5. \A i \in 1..m : i \in 1..(m + 1) /\ v[i] = u[i]
    BY ONLY <2>3, <2>4
  <2>6. v[m + 1] = f
    BY ONLY <2>3, <2>4, f = FlattenSeq(p.batches)
  <2>7. DOMAIN u = 1..m /\ DOMAIN v = 1..(m + 1)
    BY ONLY <2>4
  <2>8. Len(u) = m
    BY ONLY <2>2, <2>3, <2>7
  <2>9. Append(u, f) \in Seq(H) /\ Len(Append(u, f)) = m + 1 /\ Append(u, f)[m + 1] = f
        /\ \A i \in 1..m : Append(u, f)[i] = u[i]
    BY ONLY <2>1, <2>2, <2>3, <2>8
  <2>10. v = Append(u, f)
    <3>1. \A i \in 1..(m + 1) : i = m + 1 \/ i \in 1..m
      BY <2>3
    <3>2. \A i \in 1..(m + 1) : v[i] = Append(u, f)[i]
      BY ONLY <2>5, <2>6, <2>9, <3>1
    <3>3. Append(u, f) = [i \in 1..(m + 1) |-> Append(u, f)[i]]
      <4>. PICK w : w = Append(u, f)
        OBVIOUS
      <4>1. w \in Seq(H) /\ Len(w) = m + 1
        BY ONLY <2>9, w = Append(u, f)
      <4>2. w = [i \in 1..(m + 1) |-> w[i]]
        BY ONLY <4>1
      <4>. QED BY <4>2
    <3>4. v = [i \in 1..(m + 1) |-> v[i]]
      BY ONLY <2>4
    <3>. QED BY ONLY <3>2, <3>3, <3>4
  <2>11. Append(u, f) \in Seq(H)
    BY ONLY <2>1, <2>2
  <2>12. FlattenSeq(Append(u, f)) = FlattenSeq(u) \o f
    BY ONLY <2>1, <2>2, H = Seq(S), FlattenLast
  <2>. QED BY <2>1, <2>2, <2>10, <2>11, <2>12
<1>3. Seq(PieceOf(S)) \subseteq Q
  <2>. HIDE DEF Q
  <2>1. \A u \in Seq(PieceOf(S)), x \in PieceOf(S) : u \in Q => Append(u, x) \in Q
    BY <1>2
  <2>. QED BY ONLY <1>1, <2>1, LastInduction
<1>4. \A pieces \in Seq(PieceOf(S)) : PieceRows(pieces) \in Seq(Seq(S)) => Len(PieceRows(pieces)) = Len(pieces)
  BY DEF PieceRows
<1>. QED BY <1>3, <1>4

(* Two sinks merged hold the rows of the one, and then of the other.       *)
HoldsBoth(S, pieces, mine, others) ==
  pieces \in Seq(PieceOf(S)) /\ Rows(pieces) = Rows(mine) \o Rows(others)

(* They do, wherever a run ends the one or begins the other                *)
(* (reverseSink.Merge).                                                    *)
LEMMA MergeHolds ==
  ASSUME NEW S, NEW over, NEW mine \in Seq(PieceOf(S)), NEW others \in Seq(PieceOf(S))
  PROVE  HoldsBoth(S, Merge(over, mine, others), mine, others)
<1>. PICK first : first = IF others # <<>> /\ Head(others).run THEN Spill(mine) ELSE mine
  OBVIOUS
<1>1. first \in Seq(PieceOf(S)) /\ Rows(first) = Rows(mine)
  BY SpillRows
<1>2. PICK f : MergeSteps(f, first, others)
  <2>1. Len(others) \in Nat
    OBVIOUS
  <2>. QED BY <2>1, MergeStates
<1>3. f[0] = first /\ MergeAll(first, others) = f[Len(others)]
      /\ \A k \in 1..Len(others) : f[k] = MergePiece(f[k - 1], others[k])
  BY <1>2 DEF MergeSteps
<1>. PICK rows : rows = PieceRows(others)
  OBVIOUS
<1>4. rows \in Seq(Seq(S)) /\ Len(rows) = Len(others) /\ FlattenSeq(rows) = Rows(others)
  BY PieceByPiece
<1>5. \A k \in 1..Len(others) : others[k] \in PieceOf(S) /\ rows[k] = FlattenSeq(others[k].batches)
  BY DEF PieceRows
<1>6. ASSUME NEW k \in 1..Len(rows), f[k - 1] \in Seq(PieceOf(S))
      PROVE  f[k] \in Seq(PieceOf(S)) /\ Rows(f[k]) = Rows(f[k - 1]) \o rows[k]
  <2>. PICK s, p : s = f[k - 1] /\ p = others[k]
    OBVIOUS
  <2>1. p \in PieceOf(S) /\ rows[k] = FlattenSeq(p.batches) /\ s \in Seq(PieceOf(S))
        /\ f[k] = MergePiece(s, p)
    BY <1>3, <1>4, <1>5, <1>6
  <2>2. p.batches \in Seq(Seq(S))
    BY <2>1 DEF PieceOf
  <2>3. /\ Append(s, p) \in Seq(PieceOf(S)) /\ Rows(Append(s, p)) = Rows(s) \o FlattenSeq(p.batches)
    BY ONLY <2>1, PiecesLast
  <2>4. /\ HoldAll(s, p.batches) \in Seq(PieceOf(S))
        /\ Rows(HoldAll(s, p.batches)) = Rows(s) \o FlattenSeq(p.batches)
    BY ONLY <2>1, <2>2, HeldAll
  <2>. QED BY <2>1, <2>3, <2>4 DEF MergePiece
<1>7. f[0] \in Seq(PieceOf(S))
  BY <1>1, <1>3
<1>8. f[Len(rows)] \in Seq(PieceOf(S)) /\ Rows(f[Len(rows)]) = Rows(f[0]) \o FlattenSeq(rows)
  BY ONLY <1>4, <1>6, <1>7, PiecesFollow
<1>9. MergeAll(first, others) \in Seq(PieceOf(S)) /\ Rows(MergeAll(first, others)) = Rows(mine) \o Rows(others)
  BY <1>1, <1>3, <1>4, <1>8
<1>10. Merge(over, mine, others) = IF over THEN Spill(MergeAll(first, others)) ELSE MergeAll(first, others)
  BY DEF Merge
<1>11. \A p \in Seq(PieceOf(S)) : Spill(p) \in Seq(PieceOf(S)) /\ Rows(Spill(p)) = Rows(p)
  BY ONLY SpillRows
<1>. QED BY ONLY <1>9, <1>10, <1>11 DEF HoldsBoth

(* What the reverse of two sinks answers.                                  *)
LEMMA ReverseAnswers ==
  ASSUME NEW S, NEW over, NEW both, NEW early \in Seq(Seq(S)), NEW late \in Seq(Seq(S))
  PROVE  ReverseAnswer(Merge(both, ReversePieces(over, early), ReversePieces(over, late)))
           = Reverse(FlattenSeq(early) \o FlattenSeq(late))
<1>. PICK m, o : m = ReversePieces(over, early) /\ o = ReversePieces(over, late)
  OBVIOUS
<1>1. m \in Seq(PieceOf(S)) /\ Rows(m) = FlattenSeq(early)
  BY ReverseHolds
<1>2. o \in Seq(PieceOf(S)) /\ Rows(o) = FlattenSeq(late)
  BY ReverseHolds
<1>3. Merge(both, m, o) \in Seq(PieceOf(S)) /\ Rows(Merge(both, m, o)) = Rows(m) \o Rows(o)
  <2>1. m \in Seq(PieceOf(S)) /\ o \in Seq(PieceOf(S))
    BY <1>1, <1>2
  <2>2. HoldsBoth(S, Merge(both, m, o), m, o)
    BY ONLY <2>1, MergeHolds, Zenon
  <2>. QED BY ONLY <2>2 DEF HoldsBoth
<1>4. \A p \in Seq(PieceOf(S)) : ReverseAnswer(p) = Reverse(Rows(p))
  BY ONLY ReverseTurns
<1>. QED BY ONLY <1>1, <1>2, <1>3, <1>4, m = ReversePieces(over, early), o = ReversePieces(over, late)
(* The pieces as one after the other is dropped.                          *)
DropSteps(f, n, pieces) ==
  /\ f[0] = pieces
  /\ \A k \in 1..Len(Batches(pieces)) : f[k] = DropOne(n, f[k - 1])
  /\ DropFront(n, pieces) = f[Len(Batches(pieces))]

(* The front is dropped a piece or a batch at a time (tailOp.dropFront).   *)
LEMMA DropStates ==
  ASSUME NEW n, NEW pieces, Len(Batches(pieces)) \in Nat
  PROVE  \E f : DropSteps(f, n, pieces)
<1>. DEFINE Rec(f, k) == IF k = 0 THEN pieces ELSE DropOne(n, f[k - 1])
            Is(f) == f = [k \in 0..Len(Batches(pieces)) |-> Rec(f, k)]
            Q == {m \in Nat : \E f : f = [k \in 0..m |-> Rec(f, k)]}
<1>1. 0 \in Q
  <2>1. [k \in 0..0 |-> pieces] = [k \in 0..0 |-> Rec([j \in 0..0 |-> pieces], k)]
    OBVIOUS
  <2>. HIDE DEF Rec
  <2>. QED BY <2>1
<1>2. ASSUME NEW m \in Nat, m \in Q PROVE m + 1 \in Q
  <2>1. PICK f : f = [k \in 0..m |-> Rec(f, k)]
    BY <1>2
  <2>. DEFINE h == [k \in 0..(m + 1) |-> Rec(f, k)]
  <2>2. \A k \in 0..m : h[k] = f[k]
    <3>1. \A k \in 0..m : f[k] = Rec(f, k)
      <4>. HIDE DEF Rec
      <4>. QED BY <2>1
    <3>2. \A k \in 0..m : k \in 0..(m + 1)
      OBVIOUS
    <3>. HIDE DEF Rec
    <3>. QED BY <3>1, <3>2
  <2>3. \A k \in 0..(m + 1) : k # 0 => k - 1 \in 0..m
    OBVIOUS
  <2>4. \A k \in 0..(m + 1) : Rec(f, k) = Rec(h, k)
    <3>. HIDE DEF h
    <3>. QED BY <2>2, <2>3
  <2>5. h = [k \in 0..(m + 1) |-> Rec(h, k)]
    <3>1. h = [k \in 0..(m + 1) |-> Rec(f, k)]
      OBVIOUS
    <3>. HIDE DEF h, Rec
    <3>. QED BY <2>4, <3>1
  <2>. HIDE DEF h, Rec
  <2>. QED BY <2>5
<1>3. Len(Batches(pieces)) \in Q
  <2>. HIDE DEF Q
  <2>. QED BY <1>1, <1>2, NaturalInduction
<1>4. \E f : Is(f)
  <2>. HIDE DEF Rec
  <2>. QED BY <1>3
<1>5. PICK f : f = CHOOSE g : Is(g)
  OBVIOUS
<1>6. Is(f)
  <2>. HIDE DEF Is
  <2>. QED BY <1>4, <1>5
<1>7. DropFront(n, pieces) = f[Len(Batches(pieces))]
  <2>1. DropFront(n, pieces) = (CHOOSE g : Is(g))[Len(Batches(pieces))]
    BY DEF DropFront
  <2>. HIDE DEF Is
  <2>. QED BY <1>5, <2>1
<1>8. f[0] = pieces
  <2>1. 0 \in 0..Len(Batches(pieces))
    OBVIOUS
  <2>. QED BY <1>6, <2>1
<1>9. \A k \in 1..Len(Batches(pieces)) : f[k] = DropOne(n, f[k - 1])
  <2>1. \A k \in 1..Len(Batches(pieces)) : k \in 0..Len(Batches(pieces)) /\ k # 0
    OBVIOUS
  <2>2. \A k \in 1..Len(Batches(pieces)) : f[k] = Rec(f, k)
    <3>. HIDE DEF Rec
    <3>. QED BY <1>6, <2>1
  <2>. QED BY <2>1, <2>2
<1>. QED BY <1>7, <1>8, <1>9 DEF DropSteps

(* The pieces of a tail, batch by batch.                                  *)
TailSteps(f, q, batches) ==
  /\ f[0] = <<>>
  /\ \A k \in 1..Len(batches) : f[k] = TailBatch(q, k, f[k - 1], batches[k])
  /\ TailPieces(q, batches) = f[Len(batches)]

(* A tail takes its input batch by batch (tailOp.drain).                   *)
LEMMA TailStates ==
  ASSUME NEW q, NEW batches, Len(batches) \in Nat
  PROVE  \E f : TailSteps(f, q, batches)
<1>. DEFINE Rec(f, k) == IF k = 0 THEN <<>> ELSE TailBatch(q, k, f[k - 1], batches[k])
            Is(f) == f = [k \in 0..Len(batches) |-> Rec(f, k)]
            Q == {m \in Nat : \E f : f = [k \in 0..m |-> Rec(f, k)]}
<1>1. 0 \in Q
  <2>1. [k \in 0..0 |-> <<>>] = [k \in 0..0 |-> Rec([j \in 0..0 |-> <<>>], k)]
    OBVIOUS
  <2>. HIDE DEF Rec
  <2>. QED BY <2>1
<1>2. ASSUME NEW m \in Nat, m \in Q PROVE m + 1 \in Q
  <2>1. PICK f : f = [k \in 0..m |-> Rec(f, k)]
    BY <1>2
  <2>. DEFINE h == [k \in 0..(m + 1) |-> Rec(f, k)]
  <2>2. \A k \in 0..m : h[k] = f[k]
    <3>1. \A k \in 0..m : f[k] = Rec(f, k)
      <4>. HIDE DEF Rec
      <4>. QED BY <2>1
    <3>2. \A k \in 0..m : k \in 0..(m + 1)
      OBVIOUS
    <3>. HIDE DEF Rec
    <3>. QED BY <3>1, <3>2
  <2>3. \A k \in 0..(m + 1) : k # 0 => k - 1 \in 0..m
    OBVIOUS
  <2>4. \A k \in 0..(m + 1) : Rec(f, k) = Rec(h, k)
    <3>. HIDE DEF h
    <3>. QED BY <2>2, <2>3
  <2>5. h = [k \in 0..(m + 1) |-> Rec(h, k)]
    <3>1. h = [k \in 0..(m + 1) |-> Rec(f, k)]
      OBVIOUS
    <3>. HIDE DEF h, Rec
    <3>. QED BY <2>4, <3>1
  <2>. HIDE DEF h, Rec
  <2>. QED BY <2>5
<1>3. Len(batches) \in Q
  <2>. HIDE DEF Q
  <2>. QED BY <1>1, <1>2, NaturalInduction
<1>4. \E f : Is(f)
  <2>. HIDE DEF Rec
  <2>. QED BY <1>3
<1>5. PICK f : f = CHOOSE g : Is(g)
  OBVIOUS
<1>6. Is(f)
  <2>. HIDE DEF Is
  <2>. QED BY <1>4, <1>5
<1>7. TailPieces(q, batches) = f[Len(batches)]
  <2>1. TailPieces(q, batches) = (CHOOSE g : Is(g))[Len(batches)]
    BY DEF TailPieces
  <2>. HIDE DEF Is
  <2>. QED BY <1>5, <2>1
<1>8. f[0] = <<>>
  <2>1. 0 \in 0..Len(batches)
    OBVIOUS
  <2>. QED BY <1>6, <2>1
<1>9. \A k \in 1..Len(batches) : f[k] = TailBatch(q, k, f[k - 1], batches[k])
  <2>1. \A k \in 1..Len(batches) : k \in 0..Len(batches) /\ k # 0
    OBVIOUS
  <2>2. \A k \in 1..Len(batches) : f[k] = Rec(f, k)
    <3>. HIDE DEF Rec
    <3>. QED BY <1>6, <2>1
  <2>. QED BY <2>1, <2>2
<1>. QED BY <1>7, <1>8, <1>9 DEF TailSteps

-----------------------------------------------------------------------------
(* The tail.                                                               *)

(* A sequence is empty, or its first element and the rest.                 *)
LEMMA SeqFirst ==
  ASSUME NEW S, NEW s \in Seq(S), s # <<>>
  PROVE  Tail(s) \in Seq(S) /\ Head(s) \in S /\ s = <<Head(s)>> \o Tail(s)
<1>. PICK m, t, u, x : m = Len(s) /\ t = Tail(s) /\ x = Head(s) /\ u = <<x>> \o t
  OBVIOUS
<1>1. m \in Nat \ {0} /\ t \in Seq(S) /\ x \in S /\ x = s[1] /\ Len(t) = m - 1
      /\ \A i \in 1..(m - 1) : t[i] = s[i + 1]
  OBVIOUS
<1>2. u \in Seq(S) /\ Len(u) = m /\ u[1] = x /\ \A i \in 1..(m - 1) : u[i + 1] = t[i]
  BY ONLY <1>1, u = <<x>> \o t
<1>3. \A i \in 1..m : i = 1 \/ (i - 1 \in 1..(m - 1) /\ (i - 1) + 1 = i)
  BY <1>1
<1>4. \A i \in 1..m : s[i] = u[i]
  <2>1. \A i \in 1..(m - 1) : s[i + 1] = u[i + 1]
    BY ONLY <1>1, <1>2
  <2>2. s[1] = u[1]
    BY ONLY <1>1, <1>2
  <2>3. \A i \in 1..m : i = 1 \/ \E j \in 1..(m - 1) : i = j + 1
    BY ONLY <1>3
  <2>. QED BY ONLY <2>1, <2>2, <2>3
<1>5. s = u
  BY ONLY s \in Seq(S), m = Len(s), <1>2, <1>4, SeqEqual
<1>. QED BY <1>1, <1>5

(* The rows of pieces are the first piece's, and then the others'.         *)
LEMMA PiecesFirst ==
  ASSUME NEW S, NEW p \in PieceOf(S), NEW pieces \in Seq(PieceOf(S))
  PROVE  /\ <<p>> \o pieces \in Seq(PieceOf(S))
         /\ Rows(<<p>> \o pieces) = FlattenSeq(p.batches) \o Rows(pieces)
         /\ Rows(pieces) \in Seq(S)
<1>. PICK R, H, m, more, f, u, v, w :
       /\ R = PieceOf(S) /\ H = Seq(S) /\ m = Len(pieces) /\ more = <<p>> \o pieces
       /\ f = FlattenSeq(p.batches) /\ u = PieceRows(pieces) /\ v = PieceRows(more) /\ w = <<f>> \o u
  OBVIOUS
<1>1. f \in H
  BY PiecesLast
<1>2. u \in Seq(H) /\ Len(u) = m /\ FlattenSeq(u) = Rows(pieces)
  BY PieceByPiece
<1>3. /\ m \in Nat /\ pieces \in Seq(R) /\ p \in R /\ DOMAIN pieces = 1..m
  OBVIOUS
<1>4. /\ more \in Seq(R) /\ Len(more) = m + 1 /\ DOMAIN more = 1..(m + 1) /\ more[1] = p
      /\ \A i \in 1..m : more[i + 1] = pieces[i]
  BY ONLY <1>3, m = Len(pieces), more = <<p>> \o pieces
<1>5. /\ u = [i \in 1..m |-> FlattenSeq(pieces[i].batches)]
      /\ v = [i \in 1..(m + 1) |-> FlattenSeq(more[i].batches)]
  BY ONLY <1>3, <1>4, u = PieceRows(pieces), v = PieceRows(more) DEF PieceRows
<1>6. w \in Seq(H) /\ Len(w) = m + 1 /\ w[1] = f /\ \A i \in 1..m : w[i + 1] = u[i]
  BY ONLY <1>1, <1>2, <1>3, w = <<f>> \o u
<1>7. \A i \in 1..(m + 1) : i = 1 \/ (i - 1 \in 1..m /\ (i - 1) + 1 = i)
  BY <1>3
<1>8. \A i \in 1..m : i + 1 \in 1..(m + 1) /\ v[i + 1] = u[i]
  BY ONLY <1>3, <1>4, <1>5
<1>9. v[1] = f
  BY ONLY <1>3, <1>4, <1>5, f = FlattenSeq(p.batches)
<1>10. \A i \in 1..(m + 1) : v[i] = w[i]
  BY ONLY <1>6, <1>7, <1>8, <1>9
<1>11. v = w
  <2>1. w = [i \in 1..(m + 1) |-> w[i]]
    BY ONLY <1>3, <1>6
  <2>. QED BY ONLY <1>5, <1>10, <2>1
<1>12. FlattenSeq(v) = Rows(more)
  <2>1. more \in Seq(PieceOf(S))
    BY <1>4
  <2>. QED BY <2>1, PieceByPiece
<1>13. FlattenSeq(<<f>> \o u) = f \o FlattenSeq(u)
  BY ONLY <1>1, <1>2, H = Seq(S), FlattenFirst
<1>14. Rows(pieces) \in Seq(S)
  BY ReverseTurns
<1>. QED BY <1>2, <1>4, <1>11, <1>12, <1>13, <1>14

(* What a tail holds of the rows all: some in front are dropped, if the    *)
(* others cover n.                                                         *)
TailHolds(S, n, pieces, all) ==
  /\ pieces \in Seq(PieceOf(S))
  /\ \E u \in Seq(S) : all = u \o Rows(pieces) /\ (u = <<>> \/ Len(Rows(pieces)) >= n)

(* A batch held keeps it, of the input so far and that batch               *)
(* (tailOp.hold).                                                          *)
LEMMA HoldTail ==
  ASSUME NEW S, NEW n \in Int, NEW pieces, NEW all, TailHolds(S, n, pieces, all), NEW in \in Seq(S)
  PROVE  TailHolds(S, n, Hold(pieces, in), all \o in)
<1>. PICK u \in Seq(S) : /\ all = u \o Rows(pieces) /\ (u = <<>> \/ Len(Rows(pieces)) >= n)
                         /\ pieces \in Seq(PieceOf(S))
  BY DEF TailHolds
<1>. PICK r, h : r = Rows(pieces) /\ h = Hold(pieces, in)
  OBVIOUS
<1>1. r \in Seq(S)
  BY ReverseTurns
<1>2. h \in Seq(PieceOf(S)) /\ Rows(h) = r \o in
  BY HoldRows
<1>3. (u \o r) \o in = u \o (r \o in)
  BY ONLY <1>1, u \in Seq(S), in \in Seq(S), ConcatAssociative
<1>4. Len(r \o in) >= Len(r) /\ Len(r) \in Nat /\ Len(r \o in) \in Nat
  BY <1>1
<1>5. u = <<>> \/ Len(r \o in) >= n
  BY <1>4
<1>. QED BY <1>2, <1>3, <1>5 DEF TailHolds

(* What is held may be written out (tailOp.spillHeld).                     *)
LEMMA SpillTail ==
  ASSUME NEW S, NEW n \in Int, NEW pieces, NEW all, TailHolds(S, n, pieces, all)
  PROVE  TailHolds(S, n, Spill(pieces), all)
BY SpillRows DEF TailHolds

(* One piece or batch more is dropped.                                     *)
LEMMA DropTail ==
  ASSUME NEW S, NEW n \in Int, NEW pieces, NEW all, TailHolds(S, n, pieces, all)
  PROVE  TailHolds(S, n, DropOne(n, pieces), all)
<1>. PICK u \in Seq(S) : /\ all = u \o Rows(pieces) /\ (u = <<>> \/ Len(Rows(pieces)) >= n)
                         /\ pieces \in Seq(PieceOf(S))
  BY DEF TailHolds
<1>. PICK p, others, rest, one :
       /\ p = Head(pieces) /\ others = Tail(pieces) /\ one = [p EXCEPT !.batches = Tail(@)]
       /\ rest = IF p.run THEN others ELSE <<one>> \o others
  OBVIOUS
<1>1. SUFFICES ASSUME pieces # <<>>, p.batches # <<>>, Covered(n, rest)
               PROVE  TailHolds(S, n, rest, all)
  <2>1. DropOne(n, pieces) = IF pieces = <<>> \/ p.batches = <<>> \/ ~Covered(n, rest) THEN pieces ELSE rest
    BY DEF DropOne
  <2>. QED BY <2>1
<1>2. others \in Seq(PieceOf(S)) /\ p \in PieceOf(S) /\ pieces = <<p>> \o others
  <2>. PICK R : R = PieceOf(S)
    OBVIOUS
  <2>1. others \in Seq(R) /\ p \in R /\ pieces = <<p>> \o others
    BY ONLY <1>1, pieces \in Seq(PieceOf(S)), R = PieceOf(S), p = Head(pieces), others = Tail(pieces), SeqFirst
  <2>. QED BY <2>1
<1>3. Rows(pieces) = FlattenSeq(p.batches) \o Rows(others) /\ Rows(others) \in Seq(S)
  BY ONLY <1>2, PiecesFirst
<1>4. p.batches \in Seq(Seq(S)) /\ FlattenSeq(p.batches) \in Seq(S)
  <2>1. p.batches \in Seq(Seq(S))
    BY <1>2 DEF PieceOf
  <2>. QED BY <2>1, TurnedReverses
<1>5. \E v \in Seq(S) : rest \in Seq(PieceOf(S)) /\ Rows(rest) \in Seq(S) /\ Rows(pieces) = v \o Rows(rest)
  <2>1. CASE p.run
    BY <1>2, <1>3, <1>4, <2>1
  <2>2. CASE ~p.run
    <3>. PICK b, t, x : b = p.batches /\ t = Tail(b) /\ x = Head(b)
      OBVIOUS
    <3>1. t \in Seq(Seq(S)) /\ x \in Seq(S) /\ b = <<x>> \o t
      <4>. PICK H : H = Seq(S)
        OBVIOUS
      <4>1. b \in Seq(H) /\ b # <<>>
        BY <1>1, <1>4
      <4>2. t \in Seq(H) /\ x \in H /\ b = <<x>> \o t
        BY ONLY <4>1, t = Tail(b), x = Head(b), SeqFirst
      <4>. QED BY <4>2
    <3>2. FlattenSeq(b) = x \o FlattenSeq(t)
      BY ONLY <3>1, FlattenFirst
    <3>3. FlattenSeq(t) \in Seq(S)
      BY <3>1, TurnedReverses
    <3>4. one \in PieceOf(S) /\ one.batches = t
      <4>. PICK H : H = Seq(Seq(S))
        OBVIOUS
      <4>1. p \in [run : BOOLEAN, batches : H] /\ t \in H /\ one = [p EXCEPT !.batches = t]
        BY <1>2, <3>1 DEF PieceOf
      <4>2. one \in [run : BOOLEAN, batches : H] /\ one.batches = t
        BY ONLY <4>1
      <4>. QED BY <4>2 DEF PieceOf
    <3>5. <<one>> \o others \in Seq(PieceOf(S)) /\ Rows(<<one>> \o others) = FlattenSeq(t) \o Rows(others)
      BY ONLY <1>2, <3>4, PiecesFirst
    <3>6. (x \o FlattenSeq(t)) \o Rows(others) = x \o (FlattenSeq(t) \o Rows(others))
          /\ FlattenSeq(t) \o Rows(others) \in Seq(S)
      BY ONLY <1>3, <3>1, <3>3, ConcatAssociative, ConcatProperties
    <3>7. rest = <<one>> \o others
      BY <2>2
    <3>. QED BY <1>3, <3>1, <3>2, <3>5, <3>6, <3>7
  <2>. QED BY <2>1, <2>2
<1>6. PICK v \in Seq(S) : rest \in Seq(PieceOf(S)) /\ Rows(rest) \in Seq(S) /\ Rows(pieces) = v \o Rows(rest)
  BY <1>5
<1>7. u \o (v \o Rows(rest)) = (u \o v) \o Rows(rest) /\ u \o v \in Seq(S)
  BY ONLY <1>6, u \in Seq(S), v \in Seq(S), ConcatAssociative, ConcatProperties
<1>8. Len(Rows(rest)) >= n
  BY <1>1 DEF Covered
<1>9. all = (u \o v) \o Rows(rest)
  BY <1>6, <1>7
<1>. QED BY <1>6, <1>7, <1>8, <1>9 DEF TailHolds

(* And all that can be.                                                    *)
LEMMA FrontDropped ==
  ASSUME NEW S, NEW n \in Int, NEW pieces, NEW all, TailHolds(S, n, pieces, all)
  PROVE  TailHolds(S, n, DropFront(n, pieces), all)
<1>. PICK m : m = Len(Batches(pieces))
  OBVIOUS
<1>1. m \in Nat
  <2>1. pieces \in Seq(PieceOf(S))
    BY DEF TailHolds
  <2>2. PICK H : H = Seq(S)
    OBVIOUS
  <2>3. \A s \in Seq(PieceOf(S)) : s = <<>> \/ Batches(s) \in Seq(Seq(S))
    <3>. SUFFICES ASSUME NEW s \in Seq(PieceOf(S)), s # <<>> PROVE Batches(s) \in Seq(Seq(S))
      OBVIOUS
    <3>. PICK R : R = PieceOf(S)
      OBVIOUS
    <3>1. PICK v \in Seq(R), x \in R : s = Append(v, x)
      BY ONLY s \in Seq(PieceOf(S)), s # <<>>, R = PieceOf(S), SeqLast
    <3>2. \A a \in Seq(PieceOf(S)) : Append(a, x) \in Seq(PieceOf(S))
      BY <3>1
    <3>3. PICK y \in R : TRUE
      BY <3>1
    <3>4. Append(s, y) \in Seq(PieceOf(S)) /\ Batches(s) \in Seq(Seq(S))
      BY ONLY s \in Seq(PieceOf(S)), y \in R, R = PieceOf(S), PiecesLast
    <3>. QED BY <3>4
  <2>4. Batches(<<>>) = <<>>
    BY PiecesNone
  <2>5. Batches(pieces) \in Seq(H) \/ Batches(pieces) = <<>>
    BY <2>1, <2>2, <2>3, <2>4
  <2>. QED BY ONLY <2>5, m = Len(Batches(pieces))
<1>2. PICK f : DropSteps(f, n, pieces)
  BY <1>1, DropStates
<1>3. f[0] = pieces /\ DropFront(n, pieces) = f[m] /\ \A k \in 1..m : f[k] = DropOne(n, f[k - 1])
  BY <1>2 DEF DropSteps
<1>. DEFINE Q == {k \in Nat : k <= m => TailHolds(S, n, f[k], all)}
<1>4. 0 \in Q
  BY <1>3
<1>5. ASSUME NEW k \in Nat, k \in Q PROVE k + 1 \in Q
  <2>. SUFFICES ASSUME k + 1 <= m PROVE TailHolds(S, n, f[k + 1], all)
    OBVIOUS
  <2>1. k + 1 \in 1..m /\ (k + 1) - 1 = k /\ k <= m
    BY <1>1
  <2>2. TailHolds(S, n, f[k], all) /\ f[k + 1] = DropOne(n, f[k])
    BY <1>3, <1>5, <2>1
  <2>3. TailHolds(S, n, DropOne(n, f[k]), all)
    BY ONLY <2>2, n \in Int, DropTail
  <2>. QED BY <2>2, <2>3
<1>6. m \in Q
  <2>. HIDE DEF Q
  <2>. QED BY <1>1, <1>4, <1>5, NaturalInduction
<1>. QED BY <1>1, <1>3, <1>6

(* What a tail holds when its input ends.                                  *)
LEMMA TailHeld ==
  ASSUME NEW S, NEW q, q.n \in Int, NEW batches \in Seq(Seq(S))
  PROVE  TailHolds(S, q.n, TailPieces(q, batches), FlattenSeq(batches))
<1>. PICK m : m = Len(batches)
  OBVIOUS
<1>. DEFINE F(k) == FlattenSeq(SubSeq(batches, 1, k))
<1>1. m \in Nat /\ \A k \in 1..m : batches[k] \in Seq(S)
  OBVIOUS
<1>2. /\ F(0) = <<>> /\ F(m) = FlattenSeq(batches)
      /\ \A k \in 1..m : F(k) = F(k - 1) \o batches[k]
  BY FlattenFront
<1>3. PICK f : TailSteps(f, q, batches)
  BY <1>1, TailStates
<1>4. f[0] = <<>> /\ TailPieces(q, batches) = f[m]
      /\ \A k \in 1..m : f[k] = TailBatch(q, k, f[k - 1], batches[k])
  BY <1>3 DEF TailSteps
<1>. DEFINE Q == {k \in Nat : k <= m => TailHolds(S, q.n, f[k], F(k))}
<1>5. 0 \in Q
  <2>1. f[0] \in Seq(PieceOf(S)) /\ Rows(f[0]) = <<>> /\ F(0) = <<>>
    BY <1>2, <1>4, PiecesNone
  <2>2. <<>> \in Seq(S) /\ <<>> \o <<>> = <<>>
    BY ConcatEmptySeq
  <2>. HIDE DEF F
  <2>. QED BY <2>1, <2>2 DEF TailHolds
<1>6. ASSUME NEW k \in Nat, k \in Q PROVE k + 1 \in Q
  <2>. SUFFICES ASSUME k + 1 <= m PROVE TailHolds(S, q.n, f[k + 1], F(k + 1))
    OBVIOUS
  <2>1. k + 1 \in 1..m /\ (k + 1) - 1 = k /\ k <= m
    BY <1>1
  <2>2. /\ TailHolds(S, q.n, f[k], F(k)) /\ F(k + 1) = F(k) \o batches[k + 1]
        /\ f[k + 1] = TailBatch(q, k + 1, f[k], batches[k + 1]) /\ batches[k + 1] \in Seq(S)
    BY <1>1, <1>2, <1>4, <1>6, <2>1
  <2>. PICK a, b, c, in, g, n :
         /\ a = f[k] /\ in = batches[k + 1] /\ g = F(k + 1) /\ b = Hold(a, in)
         /\ n = q.n /\ c = DropFront(n, b)
    OBVIOUS
  <2>. HIDE DEF F
  <2>3. TailHolds(S, n, a, F(k)) /\ in \in Seq(S) /\ g = F(k) \o in /\ n \in Int
    BY <2>2
  <2>4. TailHolds(S, n, b, g)
    <3>1. TailHolds(S, n, Hold(a, in), F(k) \o in)
      BY ONLY <2>3, HoldTail
    <3>. QED BY <2>3, <3>1
  <2>5. TailHolds(S, n, c, g)
    BY ONLY <2>3, <2>4, c = DropFront(n, b), FrontDropped
  <2>6. TailHolds(S, n, Spill(c), g)
    BY ONLY <2>3, <2>5, SpillTail
  <2>7. f[k + 1] = c \/ f[k + 1] = Spill(c)
    BY <2>2 DEF TailBatch
  <2>. QED BY <2>5, <2>6, <2>7
<1>7. m \in Q
  <2>. HIDE DEF Q
  <2>. QED BY <1>1, <1>5, <1>6, NaturalInduction
<1>. QED BY <1>1, <1>2, <1>4, <1>7

(* The places of the slice, among the rows held and among all of them.     *)
SliceOf(q, held) ==
  LET skip == IF held > q.n THEN held - q.n ELSE 0
      kept == held - skip
      take == IF q.limited THEN q.take - (q.n - kept) ELSE kept
  IN [skip |-> skip, take |-> take, end |-> skip + (IF take < kept THEN take ELSE kept)]

Slices(q, len, i) == i >= len - q.n + 1 /\ (q.limited => i < len - q.n + 1 + q.take)

(* Which rows of an input of d + held they are, if only the last held of   *)
(* them are held and d > 0 only when these cover n.                        *)
LEMMA SlicePlaces ==
  ASSUME NEW q, q.n \in Int, q.limited \in BOOLEAN, q.take \in Int, NEW held \in Nat, NEW d \in Nat,
         d = 0 \/ held >= q.n, NEW skip, NEW take, NEW end,
         SliceOf(q, held) = [skip |-> skip, take |-> take, end |-> end]
  PROVE  /\ skip \in Int /\ take \in Int /\ end \in Int
         /\ q.n <= 0 \/ take <= 0 => \A i \in 1..(d + held) : ~Slices(q, d + held, i)
         /\ ~(q.n <= 0 \/ take <= 0) =>
              /\ skip \in Nat /\ end \in Nat /\ end >= skip /\ end <= held
              /\ \A i \in 1..(d + held) :
                   Slices(q, d + held, i) <=> i \in (d + skip + 1)..(d + end)
<1>. PICK n, t, kept : n = q.n /\ t = q.take /\ kept = held - skip
  OBVIOUS
<1>0. n \in Int /\ t \in Int /\ held \in Nat /\ d \in Nat /\ (d = 0 \/ held >= n)
  OBVIOUS
<1>1. /\ skip = (IF held > n THEN held - n ELSE 0) /\ kept = held - skip
      /\ take = (IF q.limited THEN t - (n - kept) ELSE kept)
      /\ end = skip + (IF take < kept THEN take ELSE kept)
  BY DEF SliceOf
<1>2. CASE q.limited
  <2>1. \A i : Slices(q, d + held, i) <=> i >= d + held - n + 1 /\ i < d + held - n + 1 + t
    BY <1>2 DEF Slices
  <2>2. take = t - (n - kept)
    BY <1>1, <1>2
  <2>3. CASE held > n
    <3>1. skip = held - n /\ kept = n /\ take = t /\ end = held - n + (IF t < n THEN t ELSE n)
      BY ONLY <1>0, <1>1, <2>2, <2>3
    <3>. QED BY ONLY <1>0, <2>1, <2>3, <3>1, n = q.n
  <2>4. CASE ~(held > n)
    <3>1. skip = 0 /\ kept = held /\ take = t - (n - held) /\ end = (IF take < held THEN take ELSE held)
          /\ (d = 0 \/ held = n)
      BY ONLY <1>0, <1>1, <2>2, <2>4
    <3>2. skip \in Int /\ take \in Int /\ end \in Int
      BY ONLY <1>0, <3>1
    <3>3. CASE held = n
      BY ONLY <1>0, <2>1, <3>1, <3>2, <3>3, n = q.n
    <3>4. CASE d = 0
      <4>1. \A i : Slices(q, d + held, i) <=> i >= held - n + 1 /\ i < take + 1
        BY ONLY <1>0, <2>1, <3>1, <3>4
      <4>2. take <= 0 => \A i \in 1..held : ~(i >= held - n + 1 /\ i < take + 1)
        BY ONLY <1>0, <3>2
      <4>3. take > 0 => /\ end >= 0 /\ end <= held
                        /\ \A i \in 1..held : i >= held - n + 1 /\ i < take + 1
                           <=> i \in 1..end
        BY ONLY <1>0, <2>4, <3>1, <3>2
      <4>4. d + held = held /\ d + skip + 1 = 1 /\ d + end = end
        BY ONLY <1>0, <3>1, <3>2, <3>4
      <4>5. n <= 0 => held = 0
        BY ONLY <1>0, <2>4
      <4>. QED BY ONLY <1>0, <3>1, <3>2, <4>1, <4>2, <4>3, <4>4, <4>5, n = q.n
    <3>. QED BY <3>1, <3>3, <3>4
  <2>. QED BY <2>3, <2>4
<1>3. CASE ~q.limited
  <2>1. \A i : Slices(q, d + held, i) <=> i >= d + held - n + 1
    BY <1>3 DEF Slices
  <2>2. take = kept
    BY <1>1, <1>3
  <2>3. CASE held > n
    <3>1. skip = held - n /\ take = n /\ end = held
      BY ONLY <1>0, <1>1, <2>2, <2>3
    <3>. QED BY ONLY <1>0, <2>1, <2>3, <3>1, n = q.n
  <2>4. CASE ~(held > n)
    <3>1. skip = 0 /\ take = held /\ end = held /\ (d = 0 \/ held = n)
      BY ONLY <1>0, <1>1, <2>2, <2>4
    <3>. QED BY ONLY <1>0, <2>1, <2>4, <3>1, n = q.n
  <2>. QED BY <2>3, <2>4
<1>. QED BY <1>2, <1>3

(* The answer is the rows of the input from a place to a place.            *)
LEMMA TailAnswers ==
  ASSUME NEW q, q.n \in Int, q.limited \in BOOLEAN, q.take \in Int,
         NEW batches \in Seq(Seq(PlainRow)), Numbered(FlattenSeq(batches))
  PROVE  LET rows  == FlattenSeq(batches)
             out   == TailAnswer(q, batches)
             first == Len(rows) - q.n + 1
             here  == {i \in DOMAIN rows : i >= first /\ (q.limited => i < first + q.take)}
         IN  /\ Len(out) = Cardinality(here) /\ ToSet(out) = {rows[i] : i \in here}
             /\ \A i, j \in DOMAIN out : i < j => out[i].id < out[j].id
<1>. PICK rows, out, n, len, here :
       /\ rows = FlattenSeq(batches) /\ out = TailAnswer(q, batches) /\ n = q.n /\ len = Len(rows)
       /\ here = {i \in DOMAIN rows : i >= Len(rows) - q.n + 1
                                      /\ (q.limited => i < Len(rows) - q.n + 1 + q.take)}
  OBVIOUS
<1>1. rows \in Seq(PlainRow) /\ len \in Nat /\ DOMAIN rows = 1..len /\ n \in Int
  <2>1. rows \in Seq(PlainRow)
    BY TurnedReverses
  <2>. QED BY <2>1
<1>2. PICK u \in Seq(PlainRow), r \in Seq(PlainRow) :
        r = Rows(TailPieces(q, batches)) /\ rows = u \o r /\ (u = <<>> \/ Len(r) >= n)
  <2>1. TailHolds(PlainRow, n, TailPieces(q, batches), rows)
    <3>1. q.n \in Int
      OBVIOUS
    <3>2. TailHolds(PlainRow, q.n, TailPieces(q, batches), FlattenSeq(batches))
      BY ONLY <3>1, batches \in Seq(Seq(PlainRow)), TailHeld
    <3>. QED BY <3>2
  <2>2. \A p \in Seq(PieceOf(PlainRow)) : Rows(p) \in Seq(PlainRow)
    BY ReverseTurns
  <2>. QED BY <2>1, <2>2 DEF TailHolds
<1>. PICK d, held, s, skip, take, end, a, b :
       /\ d = Len(u) /\ held = Len(r) /\ s = SliceOf(q, held)
       /\ skip = s.skip /\ take = s.take /\ end = s.end
       /\ a = skip + 1 /\ b = end
  OBVIOUS
<1>3. /\ d \in Nat /\ held \in Nat /\ len = d + held /\ (d = 0 \/ held >= n)
      /\ \A i \in 1..held : rows[d + i] = r[i]
  BY <1>2
<1>4. out = IF n <= 0 \/ take <= 0 THEN <<>> ELSE SubSeq(r, a, b)
  <2>1. out = TailAnswer(q, batches) /\ r = Rows(TailPieces(q, batches)) /\ held = Len(r) /\ n = q.n
    BY <1>2
  <2>. QED BY <2>1 DEF TailAnswer, SliceOf
<1>5. /\ skip \in Int /\ take \in Int /\ end \in Int
      /\ n <= 0 \/ take <= 0 => \A i \in 1..(d + held) : ~Slices(q, d + held, i)
      /\ ~(n <= 0 \/ take <= 0) =>
           /\ skip \in Nat /\ end \in Nat /\ end >= skip /\ end <= held
           /\ \A i \in 1..(d + held) : Slices(q, d + held, i) <=> i \in (d + skip + 1)..(d + end)
  <2>1. SliceOf(q, held) = [skip |-> skip, take |-> take, end |-> end]
    BY DEF SliceOf
  <2>2. d \in Nat /\ held \in Nat /\ (d = 0 \/ held >= q.n)
    BY <1>3
  <2>. QED BY ONLY <2>1, <2>2, q.n \in Int, q.limited \in BOOLEAN, q.take \in Int, n = q.n, SlicePlaces
<1>5a. here = {i \in 1..(d + held) : Slices(q, d + held, i)}
  <2>1. here = {i \in DOMAIN rows : Slices(q, Len(rows), i)}
    BY ONLY here = {i \in DOMAIN rows : i >= Len(rows) - q.n + 1
                                      /\ (q.limited => i < Len(rows) - q.n + 1 + q.take)} DEF Slices
  <2>2. DOMAIN rows = 1..(d + held) /\ Len(rows) = d + held
    BY <1>1, <1>3
  <2>. QED BY ONLY <2>1, <2>2
<1>6. CASE n <= 0 \/ take <= 0
  <2>1. out = <<>>
    BY <1>4, <1>6
  <2>2. here = {}
    BY ONLY <1>5, <1>5a, <1>6
  <2>3. Cardinality({}) = 0
    BY FS_EmptySet
  <2>4. Len(<<>>) = 0 /\ DOMAIN <<>> = {} /\ ToSet(<<>>) = {}
    BY DEF ToSet
  <2>5. {rows[i] : i \in {}} = {}
    OBVIOUS
  <2>. QED BY <2>1, <2>2, <2>3, <2>4, <2>5
<1>7. CASE ~(n <= 0 \/ take <= 0)
  <2>1. out = SubSeq(r, a, b)
    BY <1>4, <1>7
  <2>. PICK e, m : e = d + a - 1 /\ m = b - a + 1
    OBVIOUS
  <2>2. a \in 1..(held + 1) /\ b \in Nat /\ b <= held /\ b >= a - 1 /\ m \in Nat /\ e \in Nat
        /\ e + m <= d + held /\ a \in Int /\ e = d + (a - 1) /\ e + 1 = d + a /\ e + m = d + b
    BY ONLY <1>3, <1>5, <1>7, a = skip + 1, b = end, e = d + a - 1, m = b - a + 1
  <2>2a. e \in Nat /\ m \in Nat
    BY <2>2
  <2>3. here = (e + 1)..(e + m)
    <3>1. \A i \in 1..(d + held) : Slices(q, d + held, i) <=> i \in (e + 1)..(e + m)
      <4>1. d + skip + 1 = e + 1 /\ d + end = e + m
        BY ONLY <1>3, <1>5, <1>7, <2>2, a = skip + 1, b = end
      <4>. QED BY ONLY <1>5, <1>7, <4>1
    <3>2. (e + 1)..(e + m) \subseteq 1..(d + held)
      BY ONLY <1>3, <2>2
    <3>. QED BY ONLY <1>5a, <3>1, <3>2
  <2>4. out \in Seq(PlainRow) /\ Len(out) = m /\ \A i \in 1..m : out[i] = r[(a - 1) + i]
    <3>1. a \in 1..(Len(r) + 1) /\ b \in (a - 1)..Len(r)
      BY ONLY <1>3, <2>2, held = Len(r)
    <3>2. /\ SubSeq(r, a, b) \in Seq(PlainRow) /\ Len(SubSeq(r, a, b)) = b - a + 1
          /\ \A i \in 1..(b - a + 1) : SubSeq(r, a, b)[i] = r[a + i - 1]
      BY ONLY <3>1, r \in Seq(PlainRow), SubSeqProperties
    <3>3. \A i \in 1..m : a + i - 1 = (a - 1) + i
      BY ONLY <2>2
    <3>. QED BY ONLY <2>1, <3>2, <3>3, m = b - a + 1
  <2>5. \A i \in 1..m : e + i \in here /\ e + i \in 1..(d + held) /\ out[i] = rows[e + i]
    <3>1. \A i \in 1..m : (a - 1) + i \in 1..held /\ e + i = d + ((a - 1) + i)
                          /\ e + i \in (e + 1)..(e + m) /\ e + i \in 1..(d + held)
      BY ONLY <1>3, <2>2, m = b - a + 1
    <3>. QED BY ONLY <1>3, <2>3, <2>4, <3>1
  <2>6. \A j \in here : \E i \in 1..m : j = e + i
    <3>1. \A j \in (e + 1)..(e + m) : j - e \in 1..m /\ j = e + (j - e)
      BY ONLY <2>2
    <3>. QED BY ONLY <2>3, <3>1
  <2>7. Cardinality(here) = m
    <3>1. e + 1 \in Int /\ e + m \in Int
      BY ONLY <2>2a
    <3>2. Cardinality((e + 1)..(e + m)) = IF e + 1 > e + m THEN 0 ELSE (e + m) - (e + 1) + 1
      BY ONLY <3>1, FS_Interval
    <3>3. (IF e + 1 > e + m THEN 0 ELSE (e + m) - (e + 1) + 1) = m
      BY ONLY <2>2a
    <3>. QED BY ONLY <2>3, <3>2, <3>3
  <2>8. DOMAIN out = 1..m
    BY ONLY <2>2, <2>4
  <2>9. ToSet(out) = {rows[i] : i \in here}
    <3>1. \A i \in 1..m : \E j \in here : out[i] = rows[j]
      BY ONLY <2>5
    <3>2. \A j \in here : \E i \in 1..m : rows[j] = out[i]
      BY ONLY <2>5, <2>6
    <3>3. ToSet(out) = {out[i] : i \in 1..m}
      BY ONLY <2>8 DEF ToSet
    <3>4. {out[i] : i \in 1..m} \subseteq {rows[i] : i \in here}
      BY ONLY <3>1
    <3>5. {rows[i] : i \in here} \subseteq {out[i] : i \in 1..m}
      BY ONLY <3>2
    <3>. QED BY ONLY <3>3, <3>4, <3>5
  <2>10. \A i, j \in 1..m : i < j => out[i].id < out[j].id
    <3>. SUFFICES ASSUME NEW i \in 1..m, NEW j \in 1..m, i < j PROVE out[i].id < out[j].id
      OBVIOUS
    <3>. PICK x, y : x = e + i /\ y = e + j
      OBVIOUS
    <3>1. x \in DOMAIN rows /\ y \in DOMAIN rows /\ out[i] = rows[x] /\ out[j] = rows[y]
      BY <1>1, <1>3, <2>5
    <3>2. x < y
      BY ONLY <2>2, i \in 1..m, j \in 1..m, i < j, x = e + i, y = e + j
    <3>3. \A k, l \in DOMAIN rows : k < l => rows[k].id < rows[l].id
      BY DEF Numbered
    <3>. QED BY ONLY <3>1, <3>2, <3>3
  <2>. QED BY <2>4, <2>7, <2>8, <2>9, <2>10
<1>. QED BY <1>6, <1>7
(* The states of a side as it reads on for a row.                         *)
FillSteps(f, sd) ==
  /\ f[0] = sd
  /\ \A k \in 1..Len(sd.todo) : f[k] = FillOnce(f[k - 1])
  /\ Fill(sd) = f[Len(sd.todo)]

(* A side fills itself batch by batch (mergeSortedOp.fill).                *)
LEMMA FillStates ==
  ASSUME NEW sd, Len(sd.todo) \in Nat
  PROVE  \E f : FillSteps(f, sd)
<1>. DEFINE Rec(f, k) == IF k = 0 THEN sd ELSE FillOnce(f[k - 1])
            Is(f) == f = [k \in 0..Len(sd.todo) |-> Rec(f, k)]
            Q == {m \in Nat : \E f : f = [k \in 0..m |-> Rec(f, k)]}
<1>1. 0 \in Q
  <2>1. [k \in 0..0 |-> sd] = [k \in 0..0 |-> Rec([j \in 0..0 |-> sd], k)]
    OBVIOUS
  <2>. HIDE DEF Rec
  <2>. QED BY <2>1
<1>2. ASSUME NEW m \in Nat, m \in Q PROVE m + 1 \in Q
  <2>1. PICK f : f = [k \in 0..m |-> Rec(f, k)]
    BY <1>2
  <2>. DEFINE h == [k \in 0..(m + 1) |-> Rec(f, k)]
  <2>2. \A k \in 0..m : h[k] = f[k]
    <3>1. \A k \in 0..m : f[k] = Rec(f, k)
      <4>. HIDE DEF Rec
      <4>. QED BY <2>1
    <3>2. \A k \in 0..m : k \in 0..(m + 1)
      OBVIOUS
    <3>. HIDE DEF Rec
    <3>. QED BY <3>1, <3>2
  <2>3. \A k \in 0..(m + 1) : k # 0 => k - 1 \in 0..m
    OBVIOUS
  <2>4. \A k \in 0..(m + 1) : Rec(f, k) = Rec(h, k)
    <3>. HIDE DEF h
    <3>. QED BY <2>2, <2>3
  <2>5. h = [k \in 0..(m + 1) |-> Rec(h, k)]
    <3>1. h = [k \in 0..(m + 1) |-> Rec(f, k)]
      OBVIOUS
    <3>. HIDE DEF h, Rec
    <3>. QED BY <2>4, <3>1
  <2>. HIDE DEF h, Rec
  <2>. QED BY <2>5
<1>3. Len(sd.todo) \in Q
  <2>. HIDE DEF Q
  <2>. QED BY <1>1, <1>2, NaturalInduction
<1>4. \E f : Is(f)
  <2>. HIDE DEF Rec
  <2>. QED BY <1>3
<1>5. PICK f : f = CHOOSE g : Is(g)
  OBVIOUS
<1>6. Is(f)
  <2>. HIDE DEF Is
  <2>. QED BY <1>4, <1>5
<1>7. Fill(sd) = f[Len(sd.todo)]
  <2>1. Fill(sd) = (CHOOSE g : Is(g))[Len(sd.todo)]
    BY DEF Fill
  <2>. HIDE DEF Is
  <2>. QED BY <1>5, <2>1
<1>8. f[0] = sd
  <2>1. 0 \in 0..Len(sd.todo)
    OBVIOUS
  <2>. QED BY <1>6, <2>1
<1>9. \A k \in 1..Len(sd.todo) : f[k] = FillOnce(f[k - 1])
  <2>1. \A k \in 1..Len(sd.todo) : k \in 0..Len(sd.todo) /\ k # 0
    OBVIOUS
  <2>2. \A k \in 1..Len(sd.todo) : f[k] = Rec(f, k)
    <3>. HIDE DEF Rec
    <3>. QED BY <1>6, <2>1
  <2>. QED BY <2>1, <2>2
<1>. QED BY <1>7, <1>8, <1>9 DEF FillSteps

-----------------------------------------------------------------------------
(* The merge of two frames.                                                *)

InKeyOrder(s) == \A i \in 2..Len(s) : ~Before(Ascending, s[i].key, s[i - 1].key)

LastKey(s) == IF s = <<>> THEN <<>> ELSE <<s[Len(s)].key>>

KeyColumn(s) == [i \in DOMAIN s |-> s[i].key]

(* Rows and a batch behind them are in order if the rows are, and no key   *)
(* goes back in the batch, after the last of them.                         *)
LEMMA OrderJoins ==
  ASSUME NEW X \in SUBSET KeyedRow, NEW g \in Seq(X), NEW in \in Seq(X), NEW keys,
         keys = LastKey(g) \o KeyColumn(in)
  PROVE  InKeyOrder(g \o in)
           <=> InKeyOrder(g) /\ ~\E i \in 2..Len(keys) : Before(Ascending, keys[i], keys[i - 1])
<1>. PICK K, m, l, all, ks : /\ K = Int \union {NullKey} /\ m = Len(g) /\ l = Len(in)
                             /\ all = g \o in /\ ks = KeyColumn(in)
  OBVIOUS
<1>1. \A r \in X : r.key \in K
  BY DEF KeyedRow
<1>2. m \in Nat /\ l \in Nat /\ DOMAIN g = 1..m /\ DOMAIN in = 1..l
      /\ \A i \in 1..m : g[i] \in X
  OBVIOUS
<1>3. /\ all \in Seq(X) /\ Len(all) = m + l /\ \A i \in 1..m : all[i] = g[i]
      /\ \A i \in 1..l : all[m + i] = in[i]
  BY <1>2
<1>4. ks \in Seq(K) /\ Len(ks) = l /\ \A i \in 1..l : ks[i] = in[i].key
  <2>1. ks = [i \in 1..l |-> in[i].key]
    BY <1>2 DEF KeyColumn
  <2>2. ks \in [1..l -> K]
    BY <1>1, <2>1
  <2>. QED BY ONLY <1>2, <2>1, <2>2, SeqDef
<1>5. CASE m = 0
  <2>1. g = <<>>
    BY ONLY g \in Seq(X), m = Len(g), <1>5, EmptySeq
  <2>2. all = in
    BY ONLY <2>1, all = g \o in, in \in Seq(X), ConcatEmptySeq
  <2>3. keys = ks
    <3>1. LastKey(g) = <<>>
      BY <2>1 DEF LastKey
    <3>. QED BY ONLY <1>4, <3>1, keys = LastKey(g) \o KeyColumn(in), ks = KeyColumn(in), ConcatEmptySeq
  <2>4. InKeyOrder(g)
    BY <1>5 DEF InKeyOrder
  <2>5. \A i \in 2..l : i \in 1..l /\ i - 1 \in 1..l
    BY <1>2
  <2>6. \A i \in 2..l : Before(Ascending, in[i].key, in[i - 1].key) <=> Before(Ascending, keys[i], keys[i - 1])
    BY ONLY <1>4, <2>3, <2>5
  <2>7. Len(keys) = l
    BY <1>4, <2>3
  <2>8. InKeyOrder(in) <=> ~\E i \in 2..l : Before(Ascending, keys[i], keys[i - 1])
    BY ONLY <2>6, l = Len(in) DEF InKeyOrder
  <2>. QED BY ONLY <2>2, <2>4, <2>7, <2>8, all = g \o in
<1>6. CASE m # 0
  <2>. PICK k : k = g[m].key
    OBVIOUS
  <2>1. k \in K /\ LastKey(g) = <<k>>
    <3>1. m \in 1..m /\ g # <<>>
      BY <1>2, <1>6
    <3>. QED BY <1>1, <1>2, <3>1 DEF LastKey
  <2>2. Len(keys) = l + 1 /\ keys[1] = k /\ \A i \in 1..l : keys[i + 1] = ks[i]
    BY ONLY <1>2, <1>4, <2>1, keys = LastKey(g) \o KeyColumn(in), ks = KeyColumn(in)
  <2>3. \A i \in 1..(l + 1) : keys[i] = all[(m - 1) + i].key
    <3>. SUFFICES ASSUME NEW i \in 1..(l + 1) PROVE keys[i] = all[(m - 1) + i].key
      OBVIOUS
    <3>1. CASE i = 1
      <4>1. (m - 1) + i = m /\ m \in 1..m
        BY <1>2, <1>6, <3>1
      <4>. QED BY <1>3, <2>2, <3>1, <4>1
    <3>2. CASE i # 1
      <4>. PICK j : j = i - 1
        OBVIOUS
      <4>1. j \in 1..l /\ j + 1 = i /\ (m - 1) + i = m + j
        BY <1>2, <1>6, <3>2
      <4>. QED BY ONLY <1>3, <1>4, <2>2, <4>1
    <3>. QED BY <3>1, <3>2
  <2>4. (\E i \in 2..(l + 1) : Before(Ascending, keys[i], keys[i - 1]))
          <=> \E i \in 2..(l + 1) : Before(Ascending, all[(m - 1) + i].key, all[((m - 1) + i) - 1].key)
    <3>1. \A i \in 2..(l + 1) : i \in 1..(l + 1) /\ i - 1 \in 1..(l + 1) /\ (m - 1) + (i - 1) = ((m - 1) + i) - 1
      BY <1>2
    <3>2. \A i \in 2..(l + 1) : keys[i] = all[(m - 1) + i].key /\ keys[i - 1] = all[((m - 1) + i) - 1].key
      BY ONLY <2>3, <3>1
    <3>. QED BY ONLY <3>2
  <2>5. \A j \in 2..(m + l) : j \in 2..m \/ \E i \in 2..(l + 1) : j = (m - 1) + i
    <3>1. \A j \in 2..(m + l) : j \notin 2..m => j - (m - 1) \in 2..(l + 1) /\ j = (m - 1) + (j - (m - 1))
      BY ONLY <1>2
    <3>. QED BY ONLY <3>1
  <2>6. \A i \in 2..(l + 1) : (m - 1) + i \in 2..(m + l)
    BY ONLY <1>2, <1>6
  <2>7. \A j \in 2..m : j \in 2..(m + l) /\ all[j] = g[j] /\ all[j - 1] = g[j - 1]
    <3>1. \A j \in 2..m : j \in 2..(m + l) /\ j \in 1..m /\ j - 1 \in 1..m
      BY ONLY <1>2
    <3>. QED BY ONLY <1>3, <3>1
  <2>8. InKeyOrder(all) <=> \A j \in 2..(m + l) : ~Before(Ascending, all[j].key, all[j - 1].key)
    BY ONLY <1>3 DEF InKeyOrder
  <2>9. InKeyOrder(g) <=> \A j \in 2..m : ~Before(Ascending, all[j].key, all[j - 1].key)
    BY ONLY <2>7, m = Len(g) DEF InKeyOrder
  <2>. QED BY ONLY <2>2, <2>4, <2>5, <2>6, <2>7, <2>8, <2>9, all = g \o in
<1>. QED BY <1>5, <1>6

(* The last key of rows and a batch behind them.                           *)
LEMMA LastKeyJoins ==
  ASSUME NEW X \in SUBSET KeyedRow, NEW g \in Seq(X), NEW in \in Seq(X)
  PROVE  /\ LastKey(g) \in Seq(Int \union {NullKey})
         /\ LastKey(g \o in) = IF in = <<>> THEN LastKey(g) ELSE <<in[Len(in)].key>>
<1>1. \A r \in X : r.key \in Int \union {NullKey}
  BY DEF KeyedRow
<1>2. CASE g = <<>>
  BY <1>1, <1>2 DEF LastKey
<1>3. CASE g # <<>>
  <2>1. g[Len(g)] \in X
    BY <1>3
  <2>2. CASE in = <<>>
    BY <1>1, <1>3, <2>1, <2>2, ConcatEmptySeq DEF LastKey
  <2>3. CASE in # <<>>
    <3>1. g \o in # <<>> /\ (g \o in)[Len(g \o in)] = in[Len(in)]
      BY <2>3
    <3>. QED BY <1>1, <1>3, <2>1, <2>3, <3>1 DEF LastKey
  <2>. QED BY <2>2, <2>3
<1>. QED BY <1>2, <1>3

(* A part in front of rows in order is in order.                           *)
LEMMA FrontInOrder ==
  ASSUME NEW X, NEW g \in Seq(X), NEW in \in Seq(X), InKeyOrder(g \o in)
  PROVE  InKeyOrder(g)
<1>. PICK all : all = g \o in
  OBVIOUS
<1>1. Len(g) <= Len(all) /\ Len(g) \in Nat /\ Len(all) \in Nat /\ \A i \in 1..Len(g) : all[i] = g[i]
  OBVIOUS
<1>2. \A i \in 2..Len(g) : i \in 1..Len(g) /\ i - 1 \in 1..Len(g) /\ i \in 2..Len(all)
  BY ONLY <1>1
<1>3. InKeyOrder(all)
  OBVIOUS
<1>. QED BY ONLY <1>1, <1>2, <1>3 DEF InKeyOrder

(* A side of which c of the rows A were taken: what stands before the      *)
(* batch it reads from, that batch and those to come are A, and it knows   *)
(* if the rows it has seen are in order.                                   *)
SideRecord(X) ==
  [todo : Seq(Seq(X)), cur : Seq(X), pos : Nat, last : Seq(Int \union {NullKey}), unsorted : BOOLEAN]

Stands(A, c, sd, g) ==
  /\ A = g \o (sd.cur \o FlattenSeq(sd.todo))
  /\ c = Len(g) + sd.pos - 1
  /\ sd.last = LastKey(g)
  /\ ~sd.unsorted <=> InKeyOrder(g \o sd.cur)

SideAt(X, A, c, sd) ==
  /\ sd \in SideRecord(X) /\ sd.pos >= 1 /\ sd.pos <= Len(sd.cur) + 1
  /\ \E g \in Seq(X) : Stands(A, c, sd, g)

(* A batch more keeps that, and a side once found out of order stays so.   *)
LEMMA FillOnceHolds ==
  ASSUME NEW X \in SUBSET KeyedRow, NEW A, NEW c, NEW sd, SideAt(X, A, c, sd)
  PROVE  /\ SideAt(X, A, c, FillOnce(sd))
         /\ sd.unsorted => FillOnce(sd).unsorted
         /\ ~AtEnd(sd) => FillOnce(sd) = sd
         /\ AtEnd(sd) /\ ~sd.unsorted /\ sd.todo # <<>> =>
              FillOnce(sd).todo = Tail(sd.todo)
<1>. PICK g \in Seq(X) : Stands(A, c, sd, g)
  BY DEF SideAt
<1>. PICK K, H, todo, cur, in, rest, last, bad, kept, r :
       /\ K = Seq(Int \union {NullKey}) /\ H = Seq(X)
       /\ todo = sd.todo /\ cur = sd.cur /\ in = Head(todo) /\ rest = Tail(todo)
       /\ last = (IF cur = <<>> THEN sd.last ELSE <<cur[Len(cur)].key>>)
       /\ kept = [sd EXCEPT !.last = last]
       /\ bad = Backwards(kept, in)
       /\ r = [kept EXCEPT !.todo = rest, !.cur = in, !.pos = 1, !.unsorted = bad]
  OBVIOUS
<1>1. /\ todo \in Seq(H) /\ cur \in H /\ sd.pos \in Nat /\ sd.last \in K /\ sd.unsorted \in BOOLEAN
      /\ sd \in [todo : Seq(H), cur : H, pos : Nat, last : K, unsorted : BOOLEAN]
  BY DEF SideAt, SideRecord
<1>2. FillOnce(sd) = IF ~AtEnd(sd) \/ sd.unsorted \/ todo = <<>> THEN sd ELSE r
  BY DEF FillOnce
<1>3. CASE ~AtEnd(sd) \/ sd.unsorted \/ todo = <<>>
  <2>1. FillOnce(sd) = sd
    BY <1>2, <1>3
  <2>. QED BY <1>3, <2>1
<1>4. CASE ~(~AtEnd(sd) \/ sd.unsorted \/ todo = <<>>)
  <2>. PICK h, f : h = g \o cur /\ f = FlattenSeq(rest)
    OBVIOUS
  <2>1. in \in H /\ rest \in Seq(H) /\ todo = <<in>> \o rest
    BY ONLY <1>1, <1>4, in = Head(todo), rest = Tail(todo), SeqFirst
  <2>2. FlattenSeq(todo) = in \o f /\ f \in Seq(X)
    <3>1. in \in Seq(X) /\ rest \in Seq(Seq(X))
      BY <2>1
    <3>2. FlattenSeq(<<in>> \o rest) = in \o f
      BY ONLY <3>1, f = FlattenSeq(rest), FlattenFirst
    <3>3. f \in Seq(X)
      BY ONLY <3>1, f = FlattenSeq(rest), TurnedReverses
    <3>. QED BY <2>1, <3>2, <3>3
  <2>3. h \in Seq(X) /\ g \in Seq(X) /\ cur \in Seq(X) /\ in \in Seq(X)
    BY <1>1, <2>1
  <2>4. A = h \o (in \o f)
    <3>1. A = g \o (cur \o (in \o f))
      BY <2>2 DEF Stands
    <3>2. in \o f \in Seq(X)
      BY ONLY <2>2, <2>3, ConcatProperties
    <3>3. (g \o cur) \o (in \o f) = g \o (cur \o (in \o f))
      <4>1. \A a, b, e \in Seq(X) : (a \o b) \o e = a \o (b \o e)
        BY ONLY ConcatAssociative
      <4>. QED BY ONLY <2>3, <3>2, <4>1
    <3>. QED BY <3>1, <3>3
  <2>5. c = Len(h) + 1 - 1
    <3>1. sd.pos = Len(cur) + 1
      BY <1>1, <1>4 DEF AtEnd, SideAt
    <3>2. c = Len(g) + sd.pos - 1
      BY DEF Stands
    <3>3. Len(h) = Len(g) + Len(cur) /\ Len(g) \in Nat /\ Len(cur) \in Nat
      BY <2>3
    <3>. QED BY ONLY <3>1, <3>2, <3>3
  <2>6. last = LastKey(h) /\ last \in K
    <3>1. sd.last = LastKey(g)
      BY DEF Stands
    <3>2. LastKey(h) \in K
      <4>1. h \in Seq(X)
        BY ONLY <2>3
      <4>2. LastKey(h) \in Seq(Int \union {NullKey})
        BY ONLY <4>1, X \in SUBSET KeyedRow, LastKeyJoins
      <4>. QED BY ONLY <4>2, K = Seq(Int \union {NullKey})
    <3>3. LastKey(g \o cur) = IF cur = <<>> THEN LastKey(g) ELSE <<cur[Len(cur)].key>>
      BY ONLY <2>3, X \in SUBSET KeyedRow, LastKeyJoins
    <3>. QED BY <3>1, <3>2, <3>3
  <2>7. kept.last = last /\ bad \in BOOLEAN
    BY <1>1 DEF Backwards
  <2>8. ~bad <=> InKeyOrder(h \o in)
    <3>. PICK keys : keys = LastKey(h) \o KeyColumn(in)
      OBVIOUS
    <3>1. InKeyOrder(h)
      BY <1>4 DEF Stands
    <3>2. InKeyOrder(h \o in)
            <=> InKeyOrder(h) /\ ~\E i \in 2..Len(keys) : Before(Ascending, keys[i], keys[i - 1])
      BY ONLY <2>3, X \in SUBSET KeyedRow, keys = LastKey(h) \o KeyColumn(in), OrderJoins
    <3>3. bad <=> \E i \in 2..Len(keys) : Before(Ascending, keys[i], keys[i - 1])
      BY <2>6, <2>7 DEF Backwards, KeyColumn
    <3>. QED BY <3>1, <3>2, <3>3
  <2>9. /\ r \in [todo : Seq(H), cur : H, pos : Nat, last : K, unsorted : BOOLEAN]
        /\ r.todo = rest /\ r.cur = in /\ r.pos = 1 /\ r.last = last /\ r.unsorted = bad
    <3>1. kept \in [todo : Seq(H), cur : H, pos : Nat, last : K, unsorted : BOOLEAN] /\ kept.last = last
      BY ONLY <1>1, <2>6, kept = [sd EXCEPT !.last = last]
    <3>. QED BY ONLY <2>1, <2>7, <3>1,
               r = [kept EXCEPT !.todo = rest, !.cur = in, !.pos = 1, !.unsorted = bad]
  <2>10. Stands(A, c, r, h)
    BY <2>4, <2>5, <2>6, <2>8, <2>9 DEF Stands
  <2>11. SideAt(X, A, c, r)
    <3>1. 1 <= Len(in) + 1 /\ 1 >= 1
      BY <2>3
    <3>. QED BY <2>3, <2>9, <2>10, <3>1 DEF SideAt, SideRecord
  <2>12. FillOnce(sd) = r
    BY <1>2, <1>4
  <2>. QED BY <1>4, <2>9, <2>11, <2>12
<1>. QED BY <1>3, <1>4

(* And however often.                                                      *)
LEMMA FillHolds ==
  ASSUME NEW X \in SUBSET KeyedRow, NEW A, NEW c, NEW sd, SideAt(X, A, c, sd)
  PROVE  /\ SideAt(X, A, c, Fill(sd))
         /\ sd.unsorted => Fill(sd).unsorted
         /\ AtEnd(Fill(sd)) /\ ~Fill(sd).unsorted => Fill(sd).todo = <<>>
<1>. PICK m : m = Len(sd.todo)
  OBVIOUS
<1>1. m \in Nat
  <2>1. sd.todo \in Seq(Seq(X))
    BY DEF SideAt, SideRecord
  <2>. QED BY ONLY <2>1, m = Len(sd.todo)
<1>2. PICK f : FillSteps(f, sd)
  BY <1>1, FillStates
<1>3. f[0] = sd /\ Fill(sd) = f[m] /\ \A k \in 1..m : f[k] = FillOnce(f[k - 1])
  BY <1>2 DEF FillSteps
<1>. DEFINE Q == {k \in Nat : k <= m =>
                    /\ SideAt(X, A, c, f[k])
                    /\ sd.unsorted => f[k].unsorted
                    /\ AtEnd(f[k]) /\ ~f[k].unsorted => Len(f[k].todo) <= m - k}
<1>4. 0 \in Q
  BY <1>1, <1>3
<1>5. ASSUME NEW k \in Nat, k \in Q PROVE k + 1 \in Q
  <2>. PICK p, r : p = f[k] /\ r = FillOnce(p)
    OBVIOUS
  <2>. SUFFICES ASSUME k + 1 <= m
                PROVE  /\ SideAt(X, A, c, f[k + 1])
                       /\ sd.unsorted => f[k + 1].unsorted
                       /\ AtEnd(f[k + 1]) /\ ~f[k + 1].unsorted => Len(f[k + 1].todo) <= m - (k + 1)
    OBVIOUS
  <2>1. k + 1 \in 1..m /\ (k + 1) - 1 = k /\ k <= m
    BY <1>1
  <2>2. /\ SideAt(X, A, c, p) /\ (sd.unsorted => p.unsorted) /\ f[k + 1] = r
        /\ AtEnd(p) /\ ~p.unsorted => Len(p.todo) <= m - k
    BY <1>3, <1>5, <2>1
  <2>3. /\ SideAt(X, A, c, r) /\ (p.unsorted => r.unsorted) /\ (~AtEnd(p) => r = p)
        /\ AtEnd(p) /\ ~p.unsorted /\ p.todo # <<>> => r.todo = Tail(p.todo)
    BY ONLY <2>2, X \in SUBSET KeyedRow, r = FillOnce(p), FillOnceHolds
  <2>4. ASSUME AtEnd(r), ~r.unsorted PROVE Len(r.todo) <= m - (k + 1)
    <3>1. AtEnd(p) /\ ~p.unsorted /\ Len(p.todo) <= m - k
      BY <2>2, <2>3, <2>4
    <3>. PICK t, H : t = p.todo /\ H = Seq(X)
      OBVIOUS
    <3>2. t \in Seq(H)
      BY <2>2 DEF SideAt, SideRecord
    <3>3. CASE t # <<>>
      <4>1. r.todo = Tail(t) /\ Len(Tail(t)) = Len(t) - 1 /\ Len(t) \in Nat
        BY <2>3, <3>1, <3>2, <3>3
      <4>. QED BY ONLY <1>1, <3>1, <4>1, t = p.todo, k \in Nat
    <3>4. CASE t = <<>>
      <4>1. r = p
        BY <3>1, <3>4 DEF FillOnce
      <4>2. Len(r.todo) = 0
        BY ONLY <3>4, <4>1, t = p.todo
      <4>. QED BY <1>1, <4>2
    <3>. QED BY <3>3, <3>4
  <2>. QED BY <2>2, <2>3, <2>4
<1>6. m \in Q
  <2>. HIDE DEF Q
  <2>. QED BY <1>1, <1>4, <1>5, NaturalInduction
<1>7. /\ SideAt(X, A, c, Fill(sd)) /\ (sd.unsorted => Fill(sd).unsorted)
      /\ AtEnd(Fill(sd)) /\ ~Fill(sd).unsorted => Len(Fill(sd).todo) <= m - m
  BY <1>1, <1>3, <1>6
<1>8. ASSUME AtEnd(Fill(sd)), ~Fill(sd).unsorted PROVE Fill(sd).todo = <<>>
  <2>. PICK t, H : t = Fill(sd).todo /\ H = Seq(X)
    OBVIOUS
  <2>1. t \in Seq(H) /\ Len(t) <= 0
    BY <1>1, <1>7, <1>8 DEF SideAt, SideRecord
  <2>. QED BY ONLY <2>1, t = Fill(sd).todo, EmptySeq
<1>. QED BY <1>7, <1>8

(* What the rows taken of a side say of where it stands.                   *)
SideSays(X, A, c, sd) ==
  /\ A \in Seq(X) /\ c \in Nat /\ c <= Len(A) /\ sd.unsorted \in BOOLEAN
  /\ ~AtEnd(sd) => /\ c < Len(A) /\ sd.cur[sd.pos] = A[c + 1]
                   /\ SideAt(X, A, c + 1, Stepped(sd)) /\ Stepped(sd).unsorted = sd.unsorted
  /\ AtEnd(sd) /\ sd.todo = <<>> => c = Len(A)
  /\ c = Len(A) => AtEnd(sd)
  /\ c = Len(A) /\ ~sd.unsorted => InKeyOrder(A)
  /\ sd.unsorted => ~InKeyOrder(A)

(* A side that stands at c says so.                                        *)
LEMMA SideStands ==
  ASSUME NEW X \in SUBSET KeyedRow, NEW A, NEW c, NEW sd, SideAt(X, A, c, sd)
  PROVE  SideSays(X, A, c, sd)
<1>. PICK g \in Seq(X) : Stands(A, c, sd, g)
  BY DEF SideAt
<1>. PICK K, H, cur, rest, pos, step :
       /\ K = Seq(Int \union {NullKey}) /\ H = Seq(X) /\ cur = sd.cur /\ rest = FlattenSeq(sd.todo)
       /\ pos = sd.pos /\ step = Stepped(sd)
  OBVIOUS
<1>1. /\ sd \in [todo : Seq(H), cur : H, pos : Nat, last : K, unsorted : BOOLEAN]
      /\ cur \in Seq(X) /\ pos \in Nat /\ pos >= 1 /\ pos <= Len(cur) + 1 /\ sd.todo \in Seq(Seq(X))
      /\ sd.unsorted \in BOOLEAN
  BY DEF SideAt, SideRecord
<1>2. rest \in Seq(X)
  BY <1>1, TurnedReverses
<1>. PICK m, l, k, seen, some :
       m = Len(g) /\ l = Len(cur) /\ k = Len(rest) /\ seen = g \o cur /\ some = cur \o rest
  OBVIOUS
<1>2a. m \in Nat /\ l \in Nat /\ k \in Nat
  BY ONLY <1>1, <1>2, g \in Seq(X), m = Len(g), l = Len(cur), k = Len(rest)
<1>3. m \in Nat /\ l \in Nat /\ k \in Nat /\ seen \in Seq(X) /\ some \in Seq(X) /\ g \in Seq(X)
      /\ Len(some) = l + k /\ \A i \in 1..l : some[i] = cur[i]
  BY <1>1, <1>2
<1>4. /\ A = g \o some /\ c = m + pos - 1 /\ sd.last = LastKey(g) /\ (~sd.unsorted <=> InKeyOrder(seen))
  BY DEF Stands
<1>5. A \in Seq(X) /\ Len(A) = m + l + k /\ \A i \in 1..(l + k) : A[m + i] = some[i]
  <2>1. A = g \o some
    BY <1>4
  <2>2. g \in Seq(X) /\ some \in Seq(X)
    BY <1>3
  <2>3. /\ g \o some \in Seq(X) /\ Len(g \o some) = Len(g) + Len(some)
        /\ \A i \in 1..Len(some) : (g \o some)[Len(g) + i] = some[i]
    <3>1. /\ g \o some \in Seq(X) /\ Len(g \o some) = Len(g) + Len(some)
          /\ \A i \in 1..Len(g) + Len(some) :
               (g \o some)[i] = IF i <= Len(g) THEN g[i] ELSE some[i - Len(g)]
      BY ONLY <2>2, ConcatProperties
    <3>2. Len(g) \in Nat /\ Len(some) \in Nat
      BY ONLY <2>2, LenProperties
    <3>3. \A i \in 1..Len(some) : /\ Len(g) + i \in 1..Len(g) + Len(some) /\ ~(Len(g) + i <= Len(g))
                                  /\ (Len(g) + i) - Len(g) = i
      BY ONLY <3>2
    <3>. QED BY ONLY <3>1, <3>3
  <2>4. m + (l + k) = m + l + k /\ Len(some) = l + k
    <3>1. Len(some) = l + k
      BY <1>3
    <3>. QED BY ONLY <1>2a, <3>1
  <2>. QED BY ONLY <2>1, <2>3, <2>4, m = Len(g)
<1>6. A = seen \o rest
  <2>1. \A a, b, e \in Seq(X) : (a \o b) \o e = a \o (b \o e)
    BY ONLY ConcatAssociative
  <2>2. g \in Seq(X) /\ cur \in Seq(X) /\ rest \in Seq(X)
    BY ONLY <1>1, <1>2, <1>3
  <2>3. A = g \o some
    BY ONLY <1>4
  <2>. QED BY ONLY <2>1, <2>2, <2>3, seen = g \o cur, some = cur \o rest
<1>7. c \in Nat /\ c <= Len(A)
  <2>1. pos \in Nat /\ 1 <= pos /\ pos <= l + 1
    BY ONLY <1>1, <1>2a, l = Len(cur)
  <2>2. c = m + pos - 1 /\ Len(A) = m + l + k
    BY ONLY <1>4, <1>5
  <2>. QED BY ONLY <1>2a, <2>1, <2>2
<1>8. AtEnd(sd) <=> pos > l
  BY DEF AtEnd
<1>9. ASSUME ~AtEnd(sd)
      PROVE  /\ c < Len(A) /\ cur[pos] = A[c + 1]
             /\ SideAt(X, A, c + 1, step) /\ step.unsorted = sd.unsorted
  <2>1. pos \in 1..l /\ pos \in 1..(l + k) /\ m + pos = c + 1 /\ c < Len(A)
    BY ONLY <1>1, <1>3, <1>4, <1>5, <1>8, <1>9, l = Len(cur)
  <2>2. cur[pos] = A[c + 1]
    BY ONLY <1>3, <1>5, <2>1
  <2>3. step = [sd EXCEPT !.pos = pos + 1]
    BY DEF Stepped
  <2>4. /\ step \in [todo : Seq(H), cur : H, pos : Nat, last : K, unsorted : BOOLEAN]
        /\ step.todo = sd.todo /\ step.cur = sd.cur /\ step.pos = pos + 1 /\ step.last = sd.last
        /\ step.unsorted = sd.unsorted
    <3>. PICK p : p = pos + 1
      OBVIOUS
    <3>1. p \in Nat /\ step = [sd EXCEPT !.pos = p]
      BY <1>1, <2>3
    <3>2. sd \in [todo : Seq(H), cur : H, pos : Nat, last : K, unsorted : BOOLEAN]
      BY <1>1
    <3>3. /\ step \in [todo : Seq(H), cur : H, pos : Nat, last : K, unsorted : BOOLEAN]
          /\ step.todo = sd.todo /\ step.cur = sd.cur /\ step.pos = p /\ step.last = sd.last
          /\ step.unsorted = sd.unsorted
      BY ONLY <3>1, <3>2
    <3>. QED BY <3>3
  <2>5. pos + 1 >= 1 /\ pos + 1 <= Len(cur) + 1 /\ c + 1 = m + (pos + 1) - 1
    BY ONLY <1>1, <1>3, <1>4, <2>1, l = Len(cur)
  <2>6. Stands(A, c + 1, step, g)
    <3>1. A = g \o (cur \o rest) /\ sd.last = LastKey(g) /\ (~sd.unsorted <=> InKeyOrder(g \o cur))
      BY <1>4
    <3>. QED BY <2>4, <2>5, <3>1 DEF Stands
  <2>. QED BY <2>1, <2>2, <2>4, <2>5, <2>6 DEF SideAt, SideRecord
<1>10. ASSUME AtEnd(sd), sd.todo = <<>> PROVE c = Len(A)
  <2>1. rest = <<>>
    BY <1>10 DEF FlattenSeq
  <2>2. k = 0
    BY ONLY <2>1, k = Len(rest)
  <2>. QED BY ONLY <1>1, <1>3, <1>4, <1>5, <1>8, <1>10, <2>2, l = Len(cur)
<1>11. c = Len(A) => AtEnd(sd)
  BY ONLY <1>1, <1>3, <1>4, <1>5, <1>8, l = Len(cur)
<1>12. ASSUME c = Len(A), ~sd.unsorted PROVE InKeyOrder(A)
  <2>1. k = 0
    BY ONLY <1>1, <1>3, <1>4, <1>5, <1>12, l = Len(cur)
  <2>2. rest = <<>>
    BY ONLY <1>2, <2>1, k = Len(rest), EmptySeq
  <2>3. seen \o rest = seen
    BY ONLY <1>3, <2>2, ConcatEmptySeq
  <2>. QED BY <1>4, <1>6, <1>12, <2>3
<1>13. ASSUME sd.unsorted PROVE ~InKeyOrder(A)
  <2>1. ~InKeyOrder(seen)
    BY <1>4, <1>13
  <2>2. InKeyOrder(seen \o rest) => InKeyOrder(seen)
    BY ONLY <1>2, <1>3, FrontInOrder
  <2>. QED BY <1>6, <2>1, <2>2
<1>. QED BY <1>1, <1>5, <1>7, <1>9, <1>10, <1>11, <1>12, <1>13 DEF SideSays

(* A side before anything of it was read.                                  *)
LEMMA SideBegins ==
  ASSUME NEW X \in SUBSET KeyedRow, NEW batches \in Seq(Seq(X))
  PROVE  SideAt(X, FlattenSeq(batches), 0, SideOf(batches))
<1>. PICK sd, K, H, f : sd = SideOf(batches) /\ K = Seq(Int \union {NullKey}) /\ H = Seq(X)
                        /\ f = FlattenSeq(batches)
  OBVIOUS
<1>1. <<>> \in Seq(X) /\ <<>> \in K /\ Len(<<>>) = 0
  OBVIOUS
<1>2. f \in Seq(X)
  BY TurnedReverses
<1>3. /\ sd.todo = batches /\ sd.cur = <<>> /\ sd.pos = 1 /\ sd.last = <<>> /\ sd.unsorted = FALSE
      /\ sd \in [todo : Seq(H), cur : H, pos : Nat, last : K, unsorted : BOOLEAN]
  BY <1>1 DEF SideOf
<1>4. <<>> \o (<<>> \o f) = f /\ <<>> \o <<>> = <<>>
  BY <1>1, <1>2, ConcatEmptySeq
<1>5. LastKey(<<>>) = <<>> /\ InKeyOrder(<<>>)
  BY <1>1 DEF LastKey, InKeyOrder
<1>6. 0 = Len(<<>>) + 1 - 1
  BY <1>1
<1>7. Stands(f, 0, sd, <<>>)
  BY <1>3, <1>4, <1>5, <1>6 DEF Stands
<1>8. 1 >= 1 /\ 1 <= Len(<<>>) + 1
  BY <1>1
<1>. QED BY <1>1, <1>3, <1>7, <1>8 DEF SideAt, SideRecord
(* The states of a merge of two frames, a row at a time.                   *)
MergedSteps(f, n, left, right) ==
  /\ f[0] = [left |-> SideOf(left), right |-> SideOf(right), rows |-> <<>>]
  /\ \A k \in 1..n : f[k] = NextRow(f[k - 1])
  /\ MergedBy(n, left, right) = f[n]

(* A merge of frames goes from row to row (mergeSortedOp.Next).            *)
LEMMA MergedStates ==
  ASSUME NEW n, NEW left, NEW right, n \in Nat
  PROVE  \E f : MergedSteps(f, n, left, right)
<1>. DEFINE Rec(f, k) == IF k = 0 THEN [left |-> SideOf(left), right |-> SideOf(right), rows |-> <<>>] ELSE NextRow(f[k - 1])
            Is(f) == f = [k \in 0..n |-> Rec(f, k)]
            Q == {m \in Nat : \E f : f = [k \in 0..m |-> Rec(f, k)]}
<1>1. 0 \in Q
  <2>1. [k \in 0..0 |-> [left |-> SideOf(left), right |-> SideOf(right), rows |-> <<>>]] = [k \in 0..0 |-> Rec([j \in 0..0 |-> [left |-> SideOf(left), right |-> SideOf(right), rows |-> <<>>]], k)]
    OBVIOUS
  <2>. HIDE DEF Rec
  <2>. QED BY <2>1
<1>2. ASSUME NEW m \in Nat, m \in Q PROVE m + 1 \in Q
  <2>1. PICK f : f = [k \in 0..m |-> Rec(f, k)]
    BY <1>2
  <2>. DEFINE h == [k \in 0..(m + 1) |-> Rec(f, k)]
  <2>2. \A k \in 0..m : h[k] = f[k]
    <3>1. \A k \in 0..m : f[k] = Rec(f, k)
      <4>. HIDE DEF Rec
      <4>. QED BY <2>1
    <3>2. \A k \in 0..m : k \in 0..(m + 1)
      OBVIOUS
    <3>. HIDE DEF Rec
    <3>. QED BY <3>1, <3>2
  <2>3. \A k \in 0..(m + 1) : k # 0 => k - 1 \in 0..m
    OBVIOUS
  <2>4. \A k \in 0..(m + 1) : Rec(f, k) = Rec(h, k)
    <3>. HIDE DEF h
    <3>. QED BY <2>2, <2>3
  <2>5. h = [k \in 0..(m + 1) |-> Rec(h, k)]
    <3>1. h = [k \in 0..(m + 1) |-> Rec(f, k)]
      OBVIOUS
    <3>. HIDE DEF h, Rec
    <3>. QED BY <2>4, <3>1
  <2>. HIDE DEF h, Rec
  <2>. QED BY <2>5
<1>3. n \in Q
  <2>. HIDE DEF Q
  <2>. QED BY <1>1, <1>2, NaturalInduction
<1>4. \E f : Is(f)
  <2>. HIDE DEF Rec
  <2>. QED BY <1>3
<1>5. PICK f : f = CHOOSE g : Is(g)
  OBVIOUS
<1>6. Is(f)
  <2>. HIDE DEF Is
  <2>. QED BY <1>4, <1>5
<1>7. MergedBy(n, left, right) = f[n]
  <2>1. MergedBy(n, left, right) = (CHOOSE g : Is(g))[n]
    BY DEF MergedBy
  <2>. HIDE DEF Is
  <2>. QED BY <1>5, <2>1
<1>8. f[0] = [left |-> SideOf(left), right |-> SideOf(right), rows |-> <<>>]
  <2>1. 0 \in 0..n
    OBVIOUS
  <2>. QED BY <1>6, <2>1
<1>9. \A k \in 1..n : f[k] = NextRow(f[k - 1])
  <2>1. \A k \in 1..n : k \in 0..n /\ k # 0
    OBVIOUS
  <2>2. \A k \in 1..n : f[k] = Rec(f, k)
    <3>. HIDE DEF Rec
    <3>. QED BY <1>6, <2>1
  <2>. QED BY <2>1, <2>2
<1>. QED BY <1>7, <1>8, <1>9 DEF MergedSteps


(* The rows put out: in order, and those taken of either side, all of them *)
(* before all that were not.                                               *)
RowsAt(X, n, A, B, i, j, rows) ==
  /\ rows \in Seq(X) /\ Rises(rows, n)
  /\ ToSet(rows) = {A[k] : k \in 1..i} \union {B[k] : k \in 1..j}
  /\ \A x \in ToSet(rows) : /\ \A k \in (i + 1)..Len(A) : n[x] < n[A[k]]
                            /\ \A k \in (j + 1)..Len(B) : n[x] < n[B[k]]

(* Of either side, in other words.                                         *)
LEMMA RowsEither ==
  ASSUME NEW X, NEW n, NEW A, NEW B, NEW i, NEW j, NEW rows
  PROVE  RowsAt(X, n, A, B, i, j, rows) <=> RowsAt(X, n, B, A, j, i, rows)
BY DEF RowsAt

(* A row after all the others, as it stands for the rows of a merge.       *)
Follows(X, n, rows, r) == rows \in Seq(X) /\ r \in X /\ Rises(rows, n) /\ \A x \in ToSet(rows) : n[x] < n[r]
RisesTo(X, n, rows, r, more) == more \in Seq(X) /\ Rises(more, n) /\ ToSet(more) = ToSet(rows) \union {r}

(* Such a row may be put last.                                             *)
LEMMA FollowsRises ==
  ASSUME NEW X, NEW n \in [X -> Int], NEW rows, NEW r, Follows(X, n, rows, r)
  PROVE  RisesTo(X, n, rows, r, Append(rows, r))
<1>1. rows \in Seq(X) /\ r \in X /\ Rises(rows, n) /\ \A x \in ToSet(rows) : n[x] < n[r]
  BY DEF Follows
<1>. QED BY <1>1, AppendRises DEF RisesTo

(* One more row of A, if it is before those of B to come.                  *)
LEMMA RowTaken ==
  ASSUME NEW X, NEW n \in [X -> Int], NEW A \in Seq(X), NEW B \in Seq(X), Rises(A, n),
         NEW i \in Nat, NEW j \in Nat, i < Len(A), NEW rows, RowsAt(X, n, A, B, i, j, rows),
         \A k \in (j + 1)..Len(B) : n[A[i + 1]] < n[B[k]]
  PROVE  RowsAt(X, n, A, B, i + 1, j, Append(rows, A[i + 1]))
<1>. PICK r, more : r = A[i + 1] /\ more = Append(rows, r)
  OBVIOUS
<1>1. /\ rows \in Seq(X) /\ Rises(rows, n) /\ i + 1 \in 1..Len(A) /\ i + 1 \in (i + 1)..Len(A)
      /\ r \in X /\ DOMAIN A = 1..Len(A) /\ Len(A) \in Nat
  BY DEF RowsAt
<1>2. \A x \in ToSet(rows) : n[x] < n[r]
  BY <1>1 DEF RowsAt
<1>3. more \in Seq(X) /\ Rises(more, n) /\ ToSet(more) = ToSet(rows) \union {r}
  <2>1. Follows(X, n, rows, r)
    BY <1>1, <1>2 DEF Follows
  <2>2. RisesTo(X, n, rows, r, more)
    BY <2>1, FollowsRises
  <2>. QED BY <2>2 DEF RisesTo
<1>4. {A[k] : k \in 1..(i + 1)} = {A[k] : k \in 1..i} \union {r}
  <2>1. \A k \in 1..(i + 1) : k \in 1..i \/ k = i + 1
    OBVIOUS
  <2>2. \A k \in 1..i : k \in 1..(i + 1)
    OBVIOUS
  <2>3. i + 1 \in 1..(i + 1)
    OBVIOUS
  <2>. QED BY ONLY <2>1, <2>2, <2>3, r = A[i + 1]
<1>5. ToSet(more) = {A[k] : k \in 1..(i + 1)} \union {B[k] : k \in 1..j}
  <2>1. ToSet(rows) = {A[k] : k \in 1..i} \union {B[k] : k \in 1..j}
    BY DEF RowsAt
  <2>. QED BY ONLY <1>3, <1>4, <2>1
<1>6. \A k \in ((i + 1) + 1)..Len(A) : n[r] < n[A[k]] /\ k \in (i + 1)..Len(A)
  <2>1. \A k \in ((i + 1) + 1)..Len(A) : i + 1 < k /\ k \in 1..Len(A) /\ k \in (i + 1)..Len(A)
    BY <1>1
  <2>2. \A k, l \in 1..Len(A) : k < l => n[A[k]] < n[A[l]]
    BY <1>1 DEF Rises
  <2>. QED BY ONLY <1>1, <2>1, <2>2, r = A[i + 1]
<1>7. \A x \in ToSet(rows) : /\ \A k \in (i + 1)..Len(A) : n[x] < n[A[k]]
                             /\ \A k \in (j + 1)..Len(B) : n[x] < n[B[k]]
  BY DEF RowsAt
<1>8. \A x \in ToSet(more) : /\ \A k \in ((i + 1) + 1)..Len(A) : n[x] < n[A[k]]
                             /\ \A k \in (j + 1)..Len(B) : n[x] < n[B[k]]
  <2>1. \A k \in (j + 1)..Len(B) : n[r] < n[B[k]]
    OBVIOUS
  <2>. QED BY ONLY <1>3, <1>6, <1>7, <2>1
<1>. QED BY <1>3, <1>5, <1>8 DEF RowsAt

(* Two frames that may be merged: their rows have numbers of their own,    *)
(* the left's before the right's.                                          *)
Mergeable(X, n, A, B) ==
  /\ Embeds(Ascending, X, n) /\ A \in Seq(X) /\ B \in Seq(X)
  /\ \A x \in ToSet(A), y \in ToSet(B) : x.id < y.id

(* A merge after k steps: so many rows were taken, unless a side is not in *)
(* order or both are at their end.                                         *)
MergeAt(X, n, A, B, k, s) ==
  /\ s = [left |-> s.left, right |-> s.right, rows |-> s.rows]
  /\ \E i, j \in Nat :
       /\ SideAt(X, A, i, s.left) /\ SideAt(X, B, j, s.right)
       /\ ~s.left.unsorted /\ ~s.right.unsorted => i + j = k \/ (i = Len(A) /\ j = Len(B))
       /\ Rises(A, n) /\ Rises(B, n) => RowsAt(X, n, A, B, i, j, s.rows)

(* A row more, or none, keeps it (mergeSortedOp.Next).                     *)
LEMMA RowMerged ==
  ASSUME NEW X \in SUBSET KeyedRow, NEW n, NEW A, NEW B, Mergeable(X, n, A, B),
         NEW k \in Nat, NEW s, MergeAt(X, n, A, B, k, s)
  PROVE  MergeAt(X, n, A, B, k + 1, NextRow(s))
<1>. PICK i \in Nat, j \in Nat :
       /\ SideAt(X, A, i, s.left) /\ SideAt(X, B, j, s.right)
       /\ ~s.left.unsorted /\ ~s.right.unsorted => i + j = k \/ (i = Len(A) /\ j = Len(B))
       /\ Rises(A, n) /\ Rises(B, n) => RowsAt(X, n, A, B, i, j, s.rows)
       /\ s = [left |-> s.left, right |-> s.right, rows |-> s.rows]
  BY DEF MergeAt
<1>. PICK l, r : l = Fill(s.left) /\ r = Fill(s.right)
  OBVIOUS
<1>0. /\ n \in [X -> Int] /\ A \in Seq(X) /\ B \in Seq(X)
      /\ \A x, y \in X : Precedes(Ascending, x, y) <=> n[x] < n[y]
      /\ \A x \in ToSet(A), y \in ToSet(B) : x.id < y.id
  BY DEF Mergeable, Embeds
<1>1. /\ SideAt(X, A, i, l) /\ (s.left.unsorted => l.unsorted)
      /\ AtEnd(l) /\ ~l.unsorted => l.todo = <<>>
  BY ONLY X \in SUBSET KeyedRow, SideAt(X, A, i, s.left), l = Fill(s.left), FillHolds
<1>2. /\ SideAt(X, B, j, r) /\ (s.right.unsorted => r.unsorted)
      /\ AtEnd(r) /\ ~r.unsorted => r.todo = <<>>
  BY ONLY X \in SUBSET KeyedRow, SideAt(X, B, j, s.right), r = Fill(s.right), FillHolds
<1>3. SideSays(X, A, i, l)
  BY ONLY X \in SUBSET KeyedRow, <1>1, SideStands
<1>4. SideSays(X, B, j, r)
  BY ONLY X \in SUBSET KeyedRow, <1>2, SideStands
<1>. DEFINE Stops == l.unsorted \/ r.unsorted \/ (AtEnd(l) /\ AtEnd(r))
            TakesLeft == AtEnd(r) \/ (~AtEnd(l) /\ ~Before(Ascending, r.cur[r.pos].key, l.cur[l.pos].key))
<1>. PICK rows, t : rows = s.rows /\ t = NextRow(s)
  OBVIOUS
<1>5. CASE Stops
  <2>1. t.left = l /\ t.right = r /\ t.rows = rows /\ t = [left |-> l, right |-> r, rows |-> rows]
    <3>1. t = [s EXCEPT !.left = l, !.right = r] /\ s = [left |-> s.left, right |-> s.right, rows |-> rows]
      BY <1>5 DEF NextRow
    <3>. PICK u, v : u = s.left /\ v = s.right
      OBVIOUS
    <3>2. s = [left |-> u, right |-> v, rows |-> rows]
      BY <3>1
    <3>3. t = [left |-> l, right |-> r, rows |-> rows]
      BY ONLY <3>1, <3>2
    <3>. QED BY ONLY <3>3
  <2>2. ~l.unsorted /\ ~r.unsorted => i = Len(A) /\ j = Len(B)
    BY <1>1, <1>2, <1>3, <1>4, <1>5 DEF SideSays
  <2>. QED BY <1>1, <1>2, <2>1, <2>2 DEF MergeAt
<1>6. CASE ~Stops /\ TakesLeft
  <2>. PICK a : a = A[i + 1]
    OBVIOUS
  <2>1. ~AtEnd(l) /\ ~l.unsorted /\ ~r.unsorted /\ i < Len(A) /\ l.cur[l.pos] = a
    BY <1>3, <1>6 DEF SideSays
  <2>2. SideAt(X, A, i + 1, Stepped(l)) /\ SideAt(X, B, j, r)
    BY <1>2, <1>3, <2>1 DEF SideSays
  <2>3. t = [left |-> Stepped(l), right |-> r, rows |-> Append(rows, a)]
    BY <1>6, <2>1 DEF NextRow
  <2>4. t.left = Stepped(l) /\ t.right = r /\ t.rows = Append(rows, a)
    BY ONLY <2>3
  <2>5. i + j = k
    <3>1. ~s.left.unsorted /\ ~s.right.unsorted
      BY <1>1, <1>2, <2>1
    <3>2. i # Len(A)
      BY <1>0, <2>1
    <3>. QED BY <3>1, <3>2
  <2>6. (i + 1) + j = k + 1 /\ i + 1 \in Nat
    BY ONLY <2>5, i \in Nat, j \in Nat, k \in Nat
  <2>7. ASSUME Rises(A, n), Rises(B, n) PROVE RowsAt(X, n, A, B, i + 1, j, Append(rows, a))
    <3>1. RowsAt(X, n, A, B, i, j, rows)
      BY <2>7
    <3>2. \A m \in (j + 1)..Len(B) : n[A[i + 1]] < n[B[m]]
      <4>1. CASE AtEnd(r)
        <5>1. j = Len(B)
          BY <1>2, <1>4, <2>1, <4>1 DEF SideSays
        <5>2. (j + 1)..Len(B) = {}
          BY ONLY <5>1, j \in Nat
        <5>. QED BY ONLY <5>2
      <4>2. CASE ~AtEnd(r)
        <5>. PICK b : b = B[j + 1]
          OBVIOUS
        <5>1. j < Len(B) /\ r.cur[r.pos] = b
          BY <1>4, <4>2 DEF SideSays
        <5>2. ~Before(Ascending, b.key, a.key)
          BY <1>6, <2>1, <4>2, <5>1
        <5>3. i + 1 \in DOMAIN A /\ j + 1 \in DOMAIN B /\ a \in X /\ b \in X
          BY <1>0, <2>1, <5>1
        <5>4. a.id < b.id
          BY <1>0, <5>3 DEF ToSet
        <5>5. n[a] < n[b]
          BY <1>0, <5>2, <5>3, <5>4 DEF Precedes
        <5>6. \A m \in (j + 1)..Len(B) : m = j + 1 \/ n[b] < n[B[m]]
          <6>1. \A m \in (j + 1)..Len(B) : m = j + 1 \/ (j + 1 < m /\ m \in DOMAIN B)
            BY <1>0
          <6>. QED BY <2>7, <5>3, <6>1 DEF Rises
        <5>7. \A m \in (j + 1)..Len(B) : B[m] \in X
          BY <1>0
        <5>. QED BY <1>0, <5>3, <5>5, <5>6, <5>7
      <4>. QED BY <4>1, <4>2
    <3>3. RowsAt(X, n, A, B, i + 1, j, Append(rows, A[i + 1]))
      BY ONLY <1>0, <2>1, <2>7, <3>1, <3>2, i \in Nat, j \in Nat, RowTaken
    <3>. QED BY <3>3
  <2>. QED BY <2>2, <2>3, <2>4, <2>6, <2>7 DEF MergeAt
<1>7. CASE ~Stops /\ ~TakesLeft
  <2>. PICK b : b = B[j + 1]
    OBVIOUS
  <2>1. ~AtEnd(r) /\ ~l.unsorted /\ ~r.unsorted /\ j < Len(B) /\ r.cur[r.pos] = b
    BY <1>4, <1>7 DEF SideSays
  <2>2. SideAt(X, B, j + 1, Stepped(r)) /\ SideAt(X, A, i, l)
    BY <1>1, <1>4, <2>1 DEF SideSays
  <2>3. t = [left |-> l, right |-> Stepped(r), rows |-> Append(rows, b)]
    BY <1>7, <2>1 DEF NextRow
  <2>4. t.left = l /\ t.right = Stepped(r) /\ t.rows = Append(rows, b)
    BY ONLY <2>3
  <2>5. i + j = k
    <3>1. ~s.left.unsorted /\ ~s.right.unsorted
      BY <1>1, <1>2, <2>1
    <3>2. j # Len(B)
      BY <1>0, <2>1
    <3>. QED BY <3>1, <3>2
  <2>6. i + (j + 1) = k + 1 /\ j + 1 \in Nat
    BY ONLY <2>5, i \in Nat, j \in Nat, k \in Nat
  <2>7. ASSUME Rises(A, n), Rises(B, n) PROVE RowsAt(X, n, A, B, i, j + 1, Append(rows, b))
    <3>1. RowsAt(X, n, B, A, j, i, rows)
      BY <2>7, RowsEither
    <3>2. \A m \in (i + 1)..Len(A) : n[B[j + 1]] < n[A[m]]
      <4>1. CASE AtEnd(l)
        <5>1. i = Len(A)
          BY <1>1, <1>3, <2>1, <4>1 DEF SideSays
        <5>2. (i + 1)..Len(A) = {}
          BY ONLY <5>1, i \in Nat
        <5>. QED BY ONLY <5>2
      <4>2. CASE ~AtEnd(l)
        <5>. PICK a : a = A[i + 1]
          OBVIOUS
        <5>1. i < Len(A) /\ l.cur[l.pos] = a
          BY <1>3, <4>2 DEF SideSays
        <5>2. Before(Ascending, b.key, a.key)
          BY <1>7, <2>1, <4>2, <5>1
        <5>3. i + 1 \in DOMAIN A /\ j + 1 \in DOMAIN B /\ a \in X /\ b \in X
          BY <1>0, <2>1, <5>1
        <5>4. n[b] < n[a]
          BY <1>0, <5>2, <5>3 DEF Precedes
        <5>5. \A m \in (i + 1)..Len(A) : m = i + 1 \/ n[a] < n[A[m]]
          <6>1. \A m \in (i + 1)..Len(A) : m = i + 1 \/ (i + 1 < m /\ m \in DOMAIN A)
            BY <1>0
          <6>. QED BY <2>7, <5>3, <6>1 DEF Rises
        <5>6. \A m \in (i + 1)..Len(A) : A[m] \in X
          BY <1>0
        <5>. QED BY <1>0, <5>3, <5>4, <5>5, <5>6
      <4>. QED BY <4>1, <4>2
    <3>3. RowsAt(X, n, B, A, j + 1, i, Append(rows, B[j + 1]))
      BY ONLY <1>0, <2>1, <2>7, <3>1, <3>2, i \in Nat, j \in Nat, RowTaken
    <3>. QED BY <3>3, RowsEither
  <2>. QED BY <2>2, <2>3, <2>4, <2>6, <2>7 DEF MergeAt
<1>. QED BY <1>5, <1>6, <1>7

(* Neighbours that rise: all of them do.                                   *)
LEMMA NeighboursRise ==
  ASSUME NEW S, NEW n \in [S -> Int], NEW s \in Seq(S), \A i \in 2..Len(s) : n[s[i - 1]] < n[s[i]]
  PROVE  Rises(s, n)
<1>. DEFINE Q == {d \in Nat : \A i \in 1..Len(s) : i + d + 1 <= Len(s) => n[s[i]] < n[s[i + d + 1]]}
<1>0. Len(s) \in Nat /\ DOMAIN s = 1..Len(s) /\ \A i \in 1..Len(s) : s[i] \in S /\ n[s[i]] \in Int
  OBVIOUS
<1>1. \A i \in 1..Len(s) : i + 1 <= Len(s) => i + 1 \in 1..Len(s) /\ n[s[i]] < n[s[i + 1]]
  <2>. SUFFICES ASSUME NEW i \in 1..Len(s), i + 1 <= Len(s)
                PROVE  i + 1 \in 1..Len(s) /\ n[s[i]] < n[s[i + 1]]
    OBVIOUS
  <2>1. i + 1 \in 2..Len(s) /\ (i + 1) - 1 = i /\ i + 1 \in 1..Len(s)
    BY <1>0
  <2>2. n[s[(i + 1) - 1]] < n[s[i + 1]]
    BY <2>1
  <2>. QED BY <2>1, <2>2
<1>2. 0 \in Q
  BY <1>1
<1>3. ASSUME NEW d \in Nat, d \in Q PROVE d + 1 \in Q
  <2>. SUFFICES ASSUME NEW i \in 1..Len(s), i + (d + 1) + 1 <= Len(s)
                PROVE  n[s[i]] < n[s[i + (d + 1) + 1]]
    OBVIOUS
  <2>. PICK j : j = i + d + 1
    OBVIOUS
  <2>1. j \in 1..Len(s) /\ j + 1 \in 1..Len(s) /\ j + 1 <= Len(s) /\ i + d + 1 <= Len(s)
        /\ i + (d + 1) + 1 = j + 1
    BY <1>0
  <2>2. n[s[i]] < n[s[j]]
    BY <1>3, <2>1
  <2>3. n[s[j]] < n[s[j + 1]]
    BY <1>1, <2>1
  <2>4. n[s[i]] \in Int /\ n[s[j]] \in Int /\ n[s[j + 1]] \in Int
    BY <1>0, <2>1
  <2>. QED BY ONLY <2>1, <2>2, <2>3, <2>4
<1>4. Nat \subseteq Q
  <2>. HIDE DEF Q
  <2>. QED BY <1>2, <1>3, NaturalInduction
<1>5. ASSUME NEW i \in 1..Len(s), NEW j \in 1..Len(s), i < j PROVE n[s[i]] < n[s[j]]
  <2>. PICK d : d = j - i - 1
    OBVIOUS
  <2>1. d \in Nat /\ i + d + 1 = j /\ i + d + 1 <= Len(s)
    BY <1>0, <1>5
  <2>2. d \in Q
    BY <1>4, <2>1
  <2>3. n[s[i]] < n[s[i + d + 1]]
    BY <2>1, <2>2
  <2>. QED BY <2>1, <2>3
<1>. QED BY <1>0, <1>5 DEF Rises

(* Numbered rows are in order if they rise, and are then their own sort.   *)
LEMMA InOrderRises ==
  ASSUME NEW X, NEW n, Embeds(Ascending, X, n), NEW A \in Seq(X), Numbered(A)
  PROVE  /\ InKeyOrder(A) <=> Rises(A, n)
         /\ Sorted(Ascending, A) = A <=> Rises(A, n)
<1>1. /\ n \in [X -> Int] /\ X \subseteq KeyedRow /\ A \in Seq(X)
      /\ \A x, y \in X : Precedes(Ascending, x, y) <=> n[x] < n[y]
      /\ \A x, y \in X : x.id = y.id => x = y
  BY DEF Embeds
<1>2. Len(A) \in Nat /\ DOMAIN A = 1..Len(A) /\ \A i \in 1..Len(A) : A[i] \in X /\ A[i].id \in Int
  <2>1. \A r \in KeyedRow : r.id \in Int
    BY DEF KeyedRow
  <2>. QED BY <1>1, <2>1
<1>3. \A i, j \in 1..Len(A) : i < j => A[i].id < A[j].id
  BY <1>2 DEF Numbered
<1>4. \A i \in 2..Len(A) : i \in 1..Len(A) /\ i - 1 \in 1..Len(A) /\ i - 1 < i
  BY <1>2
<1>5. ASSUME InKeyOrder(A) PROVE Rises(A, n)
  <2>1. \A i \in 2..Len(A) : Precedes(Ascending, A[i - 1], A[i])
    BY <1>3, <1>4, <1>5 DEF InKeyOrder, Precedes
  <2>2. \A i \in 2..Len(A) : n[A[i - 1]] < n[A[i]]
    BY ONLY <1>1, <1>2, <1>4, <2>1
  <2>. QED BY ONLY <1>1, <2>2, NeighboursRise
<1>6. ASSUME Rises(A, n) PROVE InKeyOrder(A)
  <2>1. \A i \in 2..Len(A) : n[A[i - 1]] < n[A[i]]
    BY <1>2, <1>4, <1>6 DEF Rises
  <2>2. \A i \in 2..Len(A) : Precedes(Ascending, A[i - 1], A[i])
    BY ONLY <1>1, <1>2, <1>4, <2>1
  <2>3. \A x, y \in X : Precedes(Ascending, x, y) => ~Before(Ascending, y.key, x.key)
    <3>1. Directed(Ascending)
      BY DEF Directed, Ascending
    <3>2. \A x, y \in X : n[x] \in Int /\ n[y] \in Int
      BY <1>1
    <3>3. \A x, y \in X : Before(Ascending, y.key, x.key) => Precedes(Ascending, y, x)
      BY DEF Precedes
    <3>4. \A x, y \in X : ~(n[x] < n[y] /\ n[y] < n[x])
      BY <3>2
    <3>. QED BY ONLY <1>1, <3>3, <3>4
  <2>. QED BY <1>2, <1>4, <2>2, <2>3 DEF InKeyOrder
<1>7. Sorted(Ascending, A) \in Seq(X) /\ Rises(Sorted(Ascending, A), n) /\ ToSet(Sorted(Ascending, A)) = ToSet(A)
  <2>1. Directed(Ascending)
    BY DEF Directed, Ascending
  <2>2. Stable(Ascending, A)
    BY <1>2, <1>3 DEF Stable
  <2>3. \A i, j \in DOMAIN A : i # j => A[i] # A[j]
    <3>1. \A i, j \in 1..Len(A) : i # j => i < j \/ j < i
      OBVIOUS
    <3>2. \A i, j \in 1..Len(A) : i # j => A[i].id # A[j].id
      BY ONLY <1>2, <1>3, <3>1
    <3>. QED BY <1>2, <3>2
  <2>. QED BY ONLY <1>1, <2>1, <2>2, <2>3, Embeds(Ascending, X, n), SortedIsRising
<1>8. ASSUME Rises(A, n) PROVE Sorted(Ascending, A) = A
  BY ONLY <1>1, <1>7, <1>8, RisingAgree
<1>. QED BY <1>5, <1>6, <1>7, <1>8

(* What a merge of two frames answers.                                     *)
LEMMA MergeAnswers ==
  ASSUME NEW left \in Seq(Seq(KeyedRow)), NEW right \in Seq(Seq(KeyedRow)),
         Numbered(FlattenSeq(left) \o FlattenSeq(right))
  PROVE  LET A   == FlattenSeq(left)
             B   == FlattenSeq(right)
             out == MergeSorted(left, right)
         IN  IF Sorted(Ascending, A) = A /\ Sorted(Ascending, B) = B
             THEN ~out.refused /\ out.rows = Sorted(Ascending, A \o B)
             ELSE out.refused
<1>. PICK A, B, all, X, N, out :
       /\ A = FlattenSeq(left) /\ B = FlattenSeq(right) /\ all = A \o B /\ X = ToSet(all)
       /\ N = Len(A) + Len(B) + 1 /\ out = MergeSorted(left, right)
  OBVIOUS
<1>1. A \in Seq(KeyedRow) /\ B \in Seq(KeyedRow) /\ all \in Seq(KeyedRow) /\ Numbered(all)
      /\ Len(A) \in Nat /\ Len(B) \in Nat /\ N \in Nat
  <2>1. A \in Seq(KeyedRow) /\ B \in Seq(KeyedRow)
    BY TurnedReverses
  <2>. QED BY <2>1
<1>2. X \subseteq KeyedRow /\ IsFiniteSet(X) /\ Holdable(Ascending, X, all) /\ \A r, x \in X : r.id = x.id => r = x
  BY <1>1, NumberedHoldable
<1>3. Directed(Ascending)
  BY DEF Directed, Ascending
<1>4. PICK n : Embeds(Ascending, X, n)
  BY <1>2, <1>3, EmbeddingExists
<1>5. n \in [X -> Int]
  BY <1>4 DEF Embeds
<1>6. /\ X = ToSet(A) \union ToSet(B) /\ Numbered(A) /\ Numbered(B)
      /\ \A x \in ToSet(A), y \in ToSet(B) : x.id < y.id
  <2>1. \A r \in KeyedRow : r.id \in Int
    BY DEF KeyedRow
  <2>2. /\ ToSet(A \o B) = ToSet(A) \union ToSet(B)
        /\ Numbered(A \o B) <=> /\ Numbered(A) /\ Numbered(B)
                                /\ \A x \in ToSet(A), y \in ToSet(B) : x.id < y.id
    BY ONLY <1>1, <2>1, NumberedJoin
  <2>. QED BY <1>1, <2>2
<1>7. A \in Seq(X) /\ B \in Seq(X) /\ left \in Seq(Seq(X)) /\ right \in Seq(Seq(X))
  <2>1. A \in Seq(ToSet(A)) /\ B \in Seq(ToSet(B)) /\ left \in Seq(Seq(ToSet(A))) /\ right \in Seq(Seq(ToSet(B)))
    BY <1>1, SeqOverSet, BatchesWithin
  <2>2. \A S, T : S \subseteq T => Seq(S) \subseteq Seq(T)
    OBVIOUS
  <2>3. Seq(ToSet(A)) \subseteq Seq(X) /\ Seq(ToSet(B)) \subseteq Seq(X)
    BY <1>6, <2>2
  <2>4. Seq(Seq(ToSet(A))) \subseteq Seq(Seq(X)) /\ Seq(Seq(ToSet(B))) \subseteq Seq(Seq(X))
    BY ONLY <2>2, <2>3
  <2>. QED BY <2>1, <2>3, <2>4
<1>8. Mergeable(X, n, A, B)
  BY <1>4, <1>6, <1>7 DEF Mergeable
<1>9. PICK f : MergedSteps(f, N, left, right)
  BY <1>1, MergedStates
<1>10. /\ f[0] = [left |-> SideOf(left), right |-> SideOf(right), rows |-> <<>>]
       /\ MergedBy(N, left, right) = f[N] /\ \A k \in 1..N : f[k] = NextRow(f[k - 1])
  BY <1>9 DEF MergedSteps
<1>. DEFINE Q == {k \in Nat : k <= N => MergeAt(X, n, A, B, k, f[k])}
<1>11. 0 \in Q
  <2>1. SideAt(X, A, 0, SideOf(left)) /\ SideAt(X, B, 0, SideOf(right))
    BY <1>2, <1>7, SideBegins
  <2>2. RowsAt(X, n, A, B, 0, 0, <<>>)
    BY DEF RowsAt, Rises, ToSet
  <2>. PICK s : s = f[0]
    OBVIOUS
  <2>3. s = [left |-> SideOf(left), right |-> SideOf(right), rows |-> <<>>] /\ s.left = SideOf(left)
        /\ s.right = SideOf(right) /\ s.rows = <<>>
    BY <1>10
  <2>4. 0 \in Nat /\ 0 + 0 = 0
    OBVIOUS
  <2>5. MergeAt(X, n, A, B, 0, s)
    BY ONLY <2>1, <2>2, <2>3, <2>4 DEF MergeAt
  <2>. QED BY <2>5
<1>12. ASSUME NEW k \in Nat, k \in Q PROVE k + 1 \in Q
  <2>. SUFFICES ASSUME k + 1 <= N PROVE MergeAt(X, n, A, B, k + 1, f[k + 1])
    OBVIOUS
  <2>1. k <= N /\ k + 1 \in 1..N /\ (k + 1) - 1 = k
    BY <1>1
  <2>2. MergeAt(X, n, A, B, k, f[k]) /\ f[k + 1] = NextRow(f[k]) /\ X \in SUBSET KeyedRow
    BY <1>2, <1>10, <1>12, <2>1
  <2>3. MergeAt(X, n, A, B, k + 1, NextRow(f[k]))
    BY ONLY <1>8, <2>2, k \in Nat, RowMerged
  <2>. QED BY <2>2, <2>3
<1>13. N \in Q
  <2>. HIDE DEF Q
  <2>. QED BY <1>1, <1>11, <1>12, NaturalInduction
<1>. PICK s : s = f[N]
  OBVIOUS
<1>14. PICK i \in Nat, j \in Nat :
         /\ SideAt(X, A, i, s.left) /\ SideAt(X, B, j, s.right)
         /\ ~s.left.unsorted /\ ~s.right.unsorted => i + j = N \/ (i = Len(A) /\ j = Len(B))
         /\ Rises(A, n) /\ Rises(B, n) => RowsAt(X, n, A, B, i, j, s.rows)
  <2>1. MergeAt(X, n, A, B, N, s)
    BY <1>1, <1>13
  <2>. QED BY <2>1 DEF MergeAt
<1>15. SideSays(X, A, i, s.left) /\ SideSays(X, B, j, s.right)
  BY <1>2, <1>14, SideStands
<1>16. out.rows = s.rows /\ (out.refused <=> s.left.unsorted \/ s.right.unsorted)
  BY <1>10 DEF MergeSorted
<1>17. /\ InKeyOrder(A) <=> Rises(A, n)
       /\ Sorted(Ascending, A) = A <=> Rises(A, n)
  BY <1>4, <1>6, <1>7, InOrderRises
<1>18. /\ InKeyOrder(B) <=> Rises(B, n)
       /\ Sorted(Ascending, B) = B <=> Rises(B, n)
  BY <1>4, <1>6, <1>7, InOrderRises
<1>19. ASSUME ~out.refused PROVE i = Len(A) /\ j = Len(B) /\ InKeyOrder(A) /\ InKeyOrder(B)
  <2>1. ~s.left.unsorted /\ ~s.right.unsorted
    BY <1>16, <1>19
  <2>2. i <= Len(A) /\ j <= Len(B)
    BY <1>15 DEF SideSays
  <2>3. i + j # N
    BY ONLY <1>1, <2>2, N = Len(A) + Len(B) + 1, i \in Nat, j \in Nat
  <2>4. i = Len(A) /\ j = Len(B)
    BY <1>14, <2>1, <2>3
  <2>. QED BY <1>15, <2>1, <2>4 DEF SideSays
<1>20. ASSUME out.refused PROVE ~InKeyOrder(A) \/ ~InKeyOrder(B)
  BY <1>15, <1>16, <1>20 DEF SideSays
<1>21. ASSUME InKeyOrder(A), InKeyOrder(B) PROVE ~out.refused /\ out.rows = Sorted(Ascending, all)
  <2>1. ~out.refused
    BY <1>20, <1>21
  <2>2. i = Len(A) /\ j = Len(B)
    BY <1>19, <2>1
  <2>3. RowsAt(X, n, A, B, i, j, s.rows)
    BY <1>14, <1>17, <1>18, <1>21
  <2>4. {A[k] : k \in 1..Len(A)} = ToSet(A) /\ {B[k] : k \in 1..Len(B)} = ToSet(B)
    <3>1. DOMAIN A = 1..Len(A) /\ DOMAIN B = 1..Len(B)
      BY <1>1
    <3>. QED BY ONLY <3>1 DEF ToSet
  <2>5. s.rows \in Seq(X) /\ Rises(s.rows, n) /\ ToSet(s.rows) = X
    BY <1>6, <2>2, <2>3, <2>4 DEF RowsAt
  <2>6. /\ Sorted(Ascending, all) \in Seq(X) /\ Rises(Sorted(Ascending, all), n)
        /\ ToSet(Sorted(Ascending, all)) = X
    <3>1. all \in Seq(X) /\ Stable(Ascending, all) /\ \A k, m \in DOMAIN all : k # m => all[k] # all[m]
      BY <1>2 DEF Holdable, Apart
    <3>. QED BY ONLY <3>1, <1>3, <1>4, X = ToSet(all), SortedIsRising
  <2>7. s.rows = Sorted(Ascending, all)
    <3>1. ToSet(s.rows) = ToSet(Sorted(Ascending, all))
      BY <2>5, <2>6
    <3>. QED BY ONLY <1>5, <2>5, <2>6, <3>1, RisingAgree
  <2>. QED BY <1>16, <2>1, <2>7
<1>. QED BY <1>17, <1>18, <1>19, <1>20, <1>21

-----------------------------------------------------------------------------
(* The four of them.                                                       *)

(* The answer is what its operator answers to the question.               *)
OrderPosed ==
  answer # NoAnswer =>
    \/ op = "sort"    /\ \E x \in Sorts : question = x /\ answer = SortAnswer(x.q, x.batches)
    \/ op = "merge"   /\ \E x \in Merges : question = x /\ answer = MergeSorted(x.left, x.right)
    \/ op = "tail"    /\ \E x \in Tails : question = x /\ answer = TailAnswer(x.q, x.batches)
    \/ op = "reverse" /\ \E x \in Reverses :
         /\ question = x
         /\ answer = ReverseAnswer(Merge(x.merged, ReversePieces(x.over, x.early),
                                                   ReversePieces(x.over, x.late)))

(* An answer is to a question of its own operator (sort.go,                *)
(* mergesorted.go, tail.go, reverse.go).                                   *)
LEMMA OrderPosedHolds == OrderSpec => []OrderPosed
<1>1. OrderInit => OrderPosed
  BY DEF OrderInit, OrderPosed
<1>2. OrderPosed /\ [OrderNext]_vars => OrderPosed'
  <2>. SUFFICES ASSUME OrderPosed, [OrderNext]_vars PROVE OrderPosed'
    OBVIOUS
  <2>1. CASE AnswerSort
    BY <2>1 DEF AnswerSort, Asks, OrderPosed
  <2>2. CASE AnswerMerge
    BY <2>2 DEF AnswerMerge, Asks, OrderPosed
  <2>3. CASE AnswerTail
    BY <2>3 DEF AnswerTail, Asks, OrderPosed
  <2>4. CASE AnswerReverse
    BY <2>4 DEF AnswerReverse, Asks, OrderPosed
  <2>5. CASE UNCHANGED vars
    BY <2>5 DEF vars, OrderPosed
  <2>. QED BY <2>1, <2>2, <2>3, <2>4, <2>5 DEF OrderNext
<1>. QED BY <1>1, <1>2, PTL DEF OrderSpec

(* A sort, and a top-k, give the stable sort of all the input or the first *)
(* rows of it: for any batches, direction, place of nulls, limit, fan-in   *)
(* and course of the budget, whatever runs it made (sort.go, extsort.go).  *)
THEOREM SortExact == OrderSpec => []SortIsExact
<1>1. OrderPosed => SortIsExact
  <2>. SUFFICES ASSUME OrderPosed, op = "sort", answer # NoAnswer PROVE SortIsExact
    BY DEF SortIsExact, Answered
  <2>1. PICK x \in Sorts : question = x /\ answer = SortAnswer(x.q, x.batches)
    BY DEF OrderPosed
  <2>2. x.batches \in Seq(Seq(KeyedRow)) /\ Numbered(FlattenSeq(x.batches)) /\ Limits(x.q)
    BY OrderAssumption DEF Limits, Directed
  <2>3. SortAnswer(x.q, x.batches) = Limited(x.q, Sorted(x.q, FlattenSeq(x.batches)))
    BY ONLY <2>2, SortAnswers
  <2>. QED BY <2>1, <2>3 DEF SortIsExact
<1>. QED BY <1>1, OrderPosedHolds, PTL

(* A merge of two frames is refused unless both are sorted, and is then    *)
(* the stable sort of the two, left first: for any two frames, wherever    *)
(* their batches are cut (kernel/merge.go, mergesorted.go).                *)
THEOREM MergeExact == OrderSpec => []MergeIsExact
<1>1. OrderPosed => MergeIsExact
  <2>. SUFFICES ASSUME OrderPosed, op = "merge", answer # NoAnswer PROVE MergeIsExact
    BY DEF MergeIsExact, Answered
  <2>1. PICK x \in Merges : question = x /\ answer = MergeSorted(x.left, x.right)
    BY DEF OrderPosed
  <2>2. /\ x.left \in Seq(Seq(KeyedRow)) /\ x.right \in Seq(Seq(KeyedRow))
        /\ Numbered(FlattenSeq(x.left) \o FlattenSeq(x.right))
    BY OrderAssumption
  <2>3. LET A   == FlattenSeq(x.left)
            B   == FlattenSeq(x.right)
            out == MergeSorted(x.left, x.right)
        IN  IF Sorted(Ascending, A) = A /\ Sorted(Ascending, B) = B
            THEN ~out.refused /\ out.rows = Sorted(Ascending, A \o B)
            ELSE out.refused
    BY ONLY <2>2, MergeAnswers
  <2>. QED BY <2>1, <2>3 DEF MergeIsExact
<1>. QED BY <1>1, OrderPosedHolds, PTL

(* A tail gives the last n rows of the input, or the slice of them: for    *)
(* any batches, n, slice and course of the budget (tail.go).               *)
THEOREM TailExact == OrderSpec => []TailIsExact
<1>1. OrderPosed => TailIsExact
  <2>. SUFFICES ASSUME OrderPosed, op = "tail", answer # NoAnswer PROVE TailIsExact
    BY DEF TailIsExact, Answered
  <2>1. PICK x \in Tails : question = x /\ answer = TailAnswer(x.q, x.batches)
    BY DEF OrderPosed
  <2>. PICK q, batches : q = x.q /\ batches = x.batches
    OBVIOUS
  <2>2. /\ batches \in Seq(Seq(PlainRow)) /\ Numbered(FlattenSeq(batches))
        /\ q.n \in Int /\ q.limited \in BOOLEAN /\ q.take \in Int
    BY OrderAssumption
  <2>3. LET rows  == FlattenSeq(batches)
            first == Len(rows) - q.n + 1
            here  == {i \in DOMAIN rows : i >= first /\ (q.limited => i < first + q.take)}
            out   == TailAnswer(q, batches)
        IN Len(out) = Cardinality(here) /\ ToSet(out) = {rows[i] : i \in here}
           /\ \A i, j \in DOMAIN out : i < j => out[i].id < out[j].id
    BY ONLY <2>2, TailAnswers
  <2>. QED BY <2>1, <2>3 DEF TailIsExact
<1>. QED BY <1>1, OrderPosedHolds, PTL

(* A reverse gives its input backwards, of one sink or of two: for any     *)
(* batches and course of the budget (reverse.go).                          *)
THEOREM ReverseExact == OrderSpec => []ReverseIsExact
<1>1. OrderPosed => ReverseIsExact
  <2>. SUFFICES ASSUME OrderPosed, op = "reverse", answer # NoAnswer PROVE ReverseIsExact
    BY DEF ReverseIsExact, Answered
  <2>1. PICK x \in Reverses :
          /\ question = x
          /\ answer = ReverseAnswer(Merge(x.merged, ReversePieces(x.over, x.early),
                                                    ReversePieces(x.over, x.late)))
    BY DEF OrderPosed
  <2>2. x.early \in Seq(Seq(PlainRow)) /\ x.late \in Seq(Seq(PlainRow))
    BY OrderAssumption
  <2>3. ReverseAnswer(Merge(x.merged, ReversePieces(x.over, x.early), ReversePieces(x.over, x.late)))
          = Reverse(FlattenSeq(x.early) \o FlattenSeq(x.late))
    BY ONLY <2>2, ReverseAnswers
  <2>. QED BY <2>1, <2>3 DEF ReverseIsExact
<1>. QED BY <1>1, OrderPosedHolds, PTL

(* Whatever is asked of the four, for any input, fan-in and course of the  *)
(* budget, it is answered as it would be in memory (extsort.go, tail.go,   *)
(* reverse.go).                                                            *)
THEOREM OrderExact == OrderSpec => []OrderIsExact
<1>1. SortIsExact /\ MergeIsExact /\ TailIsExact /\ ReverseIsExact => OrderIsExact
  BY DEF OrderIsExact
<1>. QED BY SortExact, MergeExact, TailExact, ReverseExact, <1>1, PTL
=============================================================================
