----------------------------- MODULE SpillOrder -----------------------------
(***************************************************************************)
(* What the operators that put rows in order answer, or keep them in it:   *)
(* the sort and the merge of ExternalSort, the tail and the reverse of     *)
(* SpillRing.  A row of theirs is its number and, of the first two, a key. *)
(***************************************************************************)
EXTENDS SpillKeys, ExternalSort, SpillRing

CONSTANTS
  Sorts,           \* the sorts and the top-k: [q, batches]
  Merges,          \* the merges of two frames: [left, right]
  Tails,           \* the tails and the slices from the end: [q, batches]
  Reverses         \* the reverses, of two sinks: [early, late, over, merged]

KeyedRow  == [key : Int \union {NullKey}, id : Nat]
PlainRow  == [id : Nat]

(* A merge of fewer than two runs would leave as many as it found.         *)
ASSUME OrderAssumption ==
  /\ NullKey \notin Int
  /\ SortFanIn \in Nat \ {0, 1}
  /\ \A x \in Sorts :
       /\ x.batches \in Seq(Seq(KeyedRow)) /\ Numbered(FlattenSeq(x.batches))
       /\ x.q.descending \in BOOLEAN /\ x.q.nullsLast \in BOOLEAN /\ x.q.limit \in Nat
  /\ \A x \in Merges :
       /\ x.left \in Seq(Seq(KeyedRow)) /\ x.right \in Seq(Seq(KeyedRow))
       /\ Numbered(FlattenSeq(x.left) \o FlattenSeq(x.right))
  /\ \A x \in Tails :
       /\ x.batches \in Seq(Seq(PlainRow)) /\ Numbered(FlattenSeq(x.batches))
       /\ x.q.n \in Int /\ x.q.limited \in BOOLEAN /\ x.q.take \in Int
  /\ \A x \in Reverses : x.early \in Seq(Seq(PlainRow)) /\ x.late \in Seq(Seq(PlainRow))

Asks(o)     == op = o /\ answer = NoAnswer /\ UNCHANGED op
Answered(o) == op = o /\ answer # NoAnswer

OrderInit == /\ op \in {"sort", "merge", "tail", "reverse"}
             /\ question = NoAnswer /\ answer = NoAnswer

AnswerSort ==
  /\ Asks("sort")
  /\ \E x \in Sorts : question' = x /\ answer' = SortAnswer(x.q, x.batches)

AnswerMerge ==
  /\ Asks("merge")
  /\ \E x \in Merges : question' = x /\ answer' = MergeSorted(x.left, x.right)

AnswerTail ==
  /\ Asks("tail")
  /\ \E x \in Tails : question' = x /\ answer' = TailAnswer(x.q, x.batches)

AnswerReverse ==
  /\ Asks("reverse")
  /\ \E x \in Reverses :
       /\ question' = x
       /\ answer' = ReverseAnswer(Merge(x.merged, ReversePieces(x.over, x.early),
                                                  ReversePieces(x.over, x.late)))

OrderNext == AnswerSort \/ AnswerMerge \/ AnswerTail \/ AnswerReverse

OrderSpec == OrderInit /\ [][OrderNext]_vars

-----------------------------------------------------------------------------

(* A sort is the stable sort of its input, or the first limit rows of it,  *)
(* whatever runs it made and merged (sort.go, extsort.go).                 *)
SortIsExact ==
  Answered("sort") =>
    answer = Limited(question.q, Sorted(question.q, FlattenSeq(question.batches)))

(* A merge of two frames is their stable sort, left first, if both are     *)
(* sorted, and is refused if either is not, wherever its batches are cut   *)
(* (kernel/merge.go, mergesorted.go).                                      *)
MergeIsExact ==
  Answered("merge") =>
    LET left  == FlattenSeq(question.left)
        right == FlattenSeq(question.right)
        InOrder(rows) == Sorted(Ascending, rows) = rows
    IN IF InOrder(left) /\ InOrder(right)
       THEN ~answer.refused /\ answer.rows = Sorted(Ascending, left \o right)
       ELSE answer.refused

(* A tail is the last n rows of the input, or the slice of them from where *)
(* it would begin in an input that long (tail.go).                         *)
TailIsExact ==
  Answered("tail") =>
    LET rows  == FlattenSeq(question.batches)
        first == Len(rows) - question.q.n + 1
        here  == {i \in DOMAIN rows : i >= first
                    /\ (question.q.limited => i < first + question.q.take)}
    IN Len(answer) = Cardinality(here) /\ ToSet(answer) = {rows[i] : i \in here}
       /\ \A i, j \in DOMAIN answer : i < j => answer[i].id < answer[j].id

(* A reverse is its input backwards, of one sink or of two (reverse.go).   *)
ReverseIsExact ==
  Answered("reverse") =>
    answer = Reverse(FlattenSeq(question.early) \o FlattenSeq(question.late))

(* An operator that orders answers as it would in memory, whenever it      *)
(* spilled (extsort.go, tail.go, reverse.go).                              *)
OrderIsExact == SortIsExact /\ MergeIsExact /\ TailIsExact /\ ReverseIsExact
=============================================================================
