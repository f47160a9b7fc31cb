----------------------------- MODULE SpillRing -----------------------------
(***************************************************************************)
(* The operators that hold their input as pieces (internal/physical/       *)
(* tail.go, reverse.go): the batches in memory, always the last piece, and *)
(* before it the run files they went to each time the query was over.      *)
(*                                                                         *)
(* A piece is a record of its batches and whether they are a run.  A tail  *)
(* q is a record: n, the rows kept; limited and take, the slice of them;   *)
(* over, the batches after which the query is over.                        *)
(***************************************************************************)
EXTENDS Integers, Sequences, SequencesExt

Batches(pieces) == FlattenSeq([i \in DOMAIN pieces |-> pieces[i].batches])
Rows(pieces)    == FlattenSeq(Batches(pieces))

(* hold: to the batches held, or to a new piece of them after a run.       *)
Hold(pieces, in) ==
  IF pieces # <<>> /\ ~Last(pieces).run
  THEN [pieces EXCEPT ![Len(pieces)].batches = Append(@, in)]
  ELSE Append(pieces, [run |-> FALSE, batches |-> <<in>>])

(* spillHeld.                                                              *)
Spill(pieces) ==
  IF pieces # <<>> /\ Last(pieces).batches # <<>>
  THEN [pieces EXCEPT ![Len(pieces)].run = TRUE] ELSE pieces

(* Mutant of Covered: a row more than the rest is thought to cover n.      *)
CoveredLess(n, rest) == Len(Rows(rest)) >= n - 1

Covered(n, rest) == Len(Rows(rest)) >= n

(* dropFront: whole runs, and then whole batches, while the rest covers n. *)
DropOne(n, pieces) ==
  LET p    == Head(pieces)
      rest == IF p.run THEN Tail(pieces)
              ELSE <<[p EXCEPT !.batches = Tail(@)]>> \o Tail(pieces)
  IN IF pieces = <<>> \/ p.batches = <<>> \/ ~Covered(n, rest) THEN pieces ELSE rest

DropFront(n, pieces) ==
  LET dropped[k \in 0..Len(Batches(pieces))] ==
        IF k = 0 THEN pieces ELSE DropOne(n, dropped[k - 1])
  IN dropped[Len(Batches(pieces))]

(* The pieces after the k-th batch, once the query may have been over.     *)
TailBatch(q, k, pieces, in) ==
  LET t == DropFront(q.n, Hold(pieces, in)) IN IF k \in q.over THEN Spill(t) ELSE t

TailPieces(q, batches) ==
  LET s[k \in 0..Len(batches)] ==
        IF k = 0 THEN <<>> ELSE TailBatch(q, k, s[k - 1], batches[k])
  IN s[Len(batches)]

(* drain and tailOut: the pieces forward, less the rows past n in front,   *)
(* and of a slice as many rows less as the input fell short.               *)
TailAnswer(q, batches) ==
  LET rows == Rows(TailPieces(q, batches))
      held == Len(rows)
      skip == IF held > q.n THEN held - q.n ELSE 0
      kept == held - skip
      take == IF q.limited THEN q.take - (q.n - kept) ELSE kept
  IN IF q.n <= 0 \/ take <= 0 THEN <<>>
     ELSE SubSeq(rows, skip + 1, skip + (IF take < kept THEN take ELSE kept))

-----------------------------------------------------------------------------
(* reverseSink's Consume, of the k-th batch.                               *)
ReverseBatch(over, k, pieces, in) ==
  CASE in = <<>>                  -> pieces
    [] in # <<>> /\ k \in over    -> Spill(Hold(pieces, in))
    [] OTHER                      -> Hold(pieces, in)

ReversePieces(over, batches) ==
  LET s[k \in 0..Len(batches)] ==
        IF k = 0 THEN <<>> ELSE ReverseBatch(over, k, s[k - 1], batches[k])
  IN s[Len(batches)]

HoldAll(pieces, batches) ==
  LET s[k \in 0..Len(batches)] == IF k = 0 THEN pieces ELSE Hold(s[k - 1], batches[k])
  IN s[Len(batches)]

(* Merge: others is of a later portion of the input.  A run of it is kept  *)
(* behind the batches held, which are a run first.                         *)
MergePiece(pieces, p) == IF p.run THEN Append(pieces, p) ELSE HoldAll(pieces, p.batches)

MergeAll(pieces, others) ==
  LET s[k \in 0..Len(others)] ==
        IF k = 0 THEN pieces ELSE MergePiece(s[k - 1], others[k])
  IN s[Len(others)]

Merge(over, mine, others) ==
  LET first  == IF others # <<>> /\ Head(others).run THEN Spill(mine) ELSE mine
      merged == MergeAll(first, others)
  IN IF over THEN Spill(merged) ELSE merged

(* reverseOp: the pieces last to first, their batches so, each backwards.  *)
ReverseAnswer(pieces) ==
  FlattenSeq(FlattenSeq([i \in DOMAIN pieces |->
    LET p == pieces[Len(pieces) - i + 1] IN
    [j \in DOMAIN p.batches |-> Reverse(p.batches[Len(p.batches) - j + 1])]]))
=============================================================================
