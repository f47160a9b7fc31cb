---------------------------- MODULE MCParallelOp ----------------------------
(* Small instances of ParallelOp. *)
EXTENDS ParallelOp

(* Every stream of at most n batches, whatever they are and however it ends. *)
ShortStreams(n) ==
  {b \o <<e>> : b \in UNION {[1..k -> Batches] : k \in 0..n}, e \in Ends}

(* And two that, while the caller reads nothing, fill every lane.          *)
LongStreams == {[k \in 1..9 |-> IF k < 9 THEN "rows" ELSE e] : e \in {"eof", "err"}}

MCStreams == ShortStreams(2) \union LongStreams
=============================================================================
