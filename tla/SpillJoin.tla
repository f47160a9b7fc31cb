----------------------------- MODULE SpillJoin -----------------------------
(***************************************************************************)
(* The hash join and its spill (internal/physical/extjoin.go, joinsink.go, *)
(* joinprobe.go, joinmatch.go, joinemit.go, joinorder.go).                 *)
(*                                                                         *)
(* The build side is kept until it passes the budget, then in part, then   *)
(* not at all: the rest goes to a file per hash bucket, as do the probe    *)
(* rows a bucket's file could match, and each bucket is joined again by    *)
(* itself with another hash.  A row is its key and its number; 0 is the    *)
(* number of a row that is not there.  A join q is a record:               *)
(*   kind    "semiIf" and "antiIf" carry a residual predicate              *)
(*   nullsEqual, leftUnique, rightUnique, alone                            *)
(*   holds   the pairs of numbers that satisfy the residual                *)
(*   hash    the bucket of a key at each level                             *)
(*   over    the batches, by level and place, after which the budget is    *)
(*           found to be passed, whoever holds what passes it              *)
(***************************************************************************)
EXTENDS Integers, Sequences, FiniteSets, SequencesExt

CONSTANTS
  NullKey,        \* the key of a row whose key is null
  Parts,          \* the hash buckets
  MaxSpillDepth,  \* the level from which one key alone is not split
  MaxSpillLevels  \* the levels past which a bucket is not joined again

NullBucket == Cardinality(Parts)
Buckets    == Parts \union {NullBucket}

(* newJoinSpec: what each kind emits, and whether it needs the build rows. *)
MaskOnly(q)           == q.kind \in {"semi", "anti", "semiIf", "antiIf"}
EmitMatched(q)        == q.kind \notin {"anti", "antiIf"}
EmitProbeUnmatched(q) == q.kind \in {"left", "full", "anti", "antiIf"}
EmitBuildUnmatched(q) == q.kind \in {"right", "full"}
NeedBuildRows(q)      == q.kind \notin {"semi", "anti"}
Satisfies(q, l, r)    == q.kind \in {"semiIf", "antiIf"} => <<l.id, r.id>> \in q.holds

Keyed(q, r)  == q.nullsEqual \/ r.key # NullKey
KeysOf(q, rows) == {r.key : r \in {x \in ToSet(rows) : Keyed(q, x)}}
BucketOf(q, level, r) == IF Keyed(q, r) THEN q.hash[level][r.key] ELSE NullBucket

(* Two keyed rows of one key, in a side that Validate wants unique.        *)
Duplicated(q, rows) == \E i, j \in DOMAIN rows :
  i < j /\ Keyed(q, rows[i]) /\ rows[i].key = rows[j].key

-----------------------------------------------------------------------------
(* The build side: st.held are the batches in the table, st.files each     *)
(* bucket's file, batch by batch.                                          *)

(* residentKey: a hash bucket stays; for a join that keeps keys and no     *)
(* rows, the keys there are.                                               *)
Resident(q, st, r) ==
  /\ Keyed(q, r)
  /\ CASE st.split = "none" -> TRUE
       [] st.split = "all"  -> FALSE
       [] OTHER -> IF NeedBuildRows(q) THEN BucketOf(q, st.level, r) = 0
                   ELSE r.key \in KeysOf(q, FlattenSeq(st.held))

Admit(q, st, in) ==
  LET held == IF in = <<>> THEN st.held ELSE Append(st.held, in) IN
  [st EXCEPT !.held = held,
             !.duplicate = @ \/ (q.rightUnique /\ Duplicated(q, FlattenSeq(held)))]

(* The rows with no key go to a bucket of their own, where they are owed.  *)
Classify(q, st, in) ==
  LET goes(p) == SelectSeq(in, LAMBDA r : /\ ~Resident(q, st, r)
                                          /\ BucketOf(q, st.level, r) = p
                                          /\ Keyed(q, r) \/ EmitBuildUnmatched(q))
      routed  == [p \in Buckets |-> IF goes(p) = <<>> THEN st.files[p]
                                    ELSE Append(st.files[p], goes(p))]
  IN Admit(q, [st EXCEPT !.files = routed],
           SelectSeq(in, LAMBDA r : Resident(q, st, r)))

Repartition(q, st, split) ==
  FoldLeft(LAMBDA s, b : Classify(q, s, b),
           [st EXCEPT !.split = split, !.held = <<>>], st.held)

Escalate(q, st) ==
  CASE st.split = "none" /\ NeedBuildRows(q)   -> Repartition(q, st, "hybrid")
    [] st.split = "none" /\ ~NeedBuildRows(q)  -> [st EXCEPT !.split = "hybrid"]
    [] st.split = "hybrid" /\ NeedBuildRows(q) -> Repartition(q, st, "all")
    [] OTHER                                   -> st

(* The split is decided at the end of a batch.  A deep level that holds one *)
(* key refuses, if the query alone is over, and else holds it (oneKeyOver). *)
Consume(q, st, in) ==
  LET settled(s) ==
        CASE <<st.level, st.batch>> \notin q.over \/ s.split = "all" -> s
          [] st.level >= MaxSpillDepth /\ Cardinality(KeysOf(q, FlattenSeq(s.held))) <= 1 ->
               [s EXCEPT !.refused = q.alone]
          [] OTHER -> Escalate(q, s)
  IN settled([(IF st.split = "none" THEN Admit(q, st, in) ELSE Classify(q, st, in))
                EXCEPT !.batch = @ + 1])

Build(q, level, batches) ==
  FoldLeft(LAMBDA st, b : Consume(q, st, b),
           [level |-> level, batch |-> 1, split |-> "none", held |-> <<>>,
            files |-> [p \in Buckets |-> <<>>], duplicate |-> FALSE, refused |-> FALSE],
           batches)

-----------------------------------------------------------------------------
(* The probe side.                                                         *)

(* Mutant of Routed: a bucket's rows are routed whether or not it has a    *)
(* build file to be replayed with.                                         *)
RoutedAlways(q, st, r) == Keyed(q, r) /\ r.key \notin KeysOf(q, FlattenSeq(st.held))
                            /\ st.split # "none"

(* A key not in the table is in its bucket's file, if it is anywhere.      *)
Routed(q, st, r) ==
  /\ Keyed(q, r) /\ r.key \notin KeysOf(q, FlattenSeq(st.held))
  /\ st.files[BucketOf(q, st.level, r)] # <<>>

(* The rows one probe row gives, in the order of the table.                *)
Matches(q, l, table) ==
  LET partners == SelectSeq(table, LAMBDA r : /\ Keyed(q, r) /\ r.key = l.key
                                              /\ Satisfies(q, l, r))
      pair(r)  == [l |-> l.id, r |-> r]
  IN CASE partners = <<>> -> IF EmitProbeUnmatched(q) THEN <<pair(0)>> ELSE <<>>
       [] partners # <<>> /\ MaskOnly(q) -> IF EmitMatched(q) THEN <<pair(0)>> ELSE <<>>
       [] OTHER -> [i \in DOMAIN partners |-> pair(partners[i].id)]

Probe(q, table, probe) == FlattenSeq([i \in DOMAIN probe |-> Matches(q, probe[i], table)])

(* flushStep, and the null bucket's streamer.                              *)
Padded(rows) == [i \in DOMAIN rows |-> [l |-> 0, r |-> rows[i].id]]
Flush(q, table, probe) ==
  IF EmitBuildUnmatched(q)
  THEN Padded(SelectSeq(table, LAMBDA r : ~(Keyed(q, r) /\ r.key \in KeysOf(q, probe))))
  ELSE <<>>

(* The join at a level: its table's rows as the probe side is read, what   *)
(* the table holds unmatched, then each bucket that has a build file.      *)
RECURSIVE Join(_, _, _, _)

(* sub are the joins of the buckets that have a build file.                *)
Joined(q, st, table, inline, sub) ==
  LET replay(p) == CASE p \in DOMAIN sub -> sub[p].out
                     [] p = NullBucket   -> Padded(FlattenSeq(st.files[p]))
                     [] OTHER            -> <<>>
  IN [out |-> Probe(q, table, inline) \o Flush(q, table, inline)
                \o FlattenSeq([p \in 1..Cardinality(Buckets) |-> replay(p - 1)]),
      duplicate |-> \/ st.duplicate
                    \/ q.leftUnique /\ Duplicated(q, inline)
                    \/ \E p \in DOMAIN sub : sub[p].duplicate,
      refused |-> st.refused \/ \E p \in DOMAIN sub : sub[p].refused]

Probed(q, level, probe, st) ==
  LET sent(p) == SelectSeq(probe, LAMBDA r : Routed(q, st, r) /\ BucketOf(q, level, r) = p)
      subs    == {p \in Parts : st.files[p] # <<>>}
  IN Joined(q, st, FlattenSeq(st.held), SelectSeq(probe, LAMBDA r : ~Routed(q, st, r)),
            [p \in subs |-> Join(q, level + 1, st.files[p], sent(p))])

Join(q, level, build, probe) ==
  IF level > MaxSpillLevels
  THEN [out |-> <<>>, duplicate |-> FALSE, refused |-> TRUE]
  ELSE Probed(q, level, probe, Build(q, level, build))

(* orderedProbe: a spilled join's rows sorted back, stably, by the number  *)
(* of the probe row, and those without one by the number of the build row. *)
OrderedProbe(out, lefts, rights) ==
  FlattenSeq([i \in 1..lefts  |-> SelectSeq(out, LAMBDA o : o.l = i)])
    \o FlattenSeq([j \in 1..rights |-> SelectSeq(out, LAMBDA o : o.l = 0 /\ o.r = j)])

-----------------------------------------------------------------------------

(* The join by its definition: the pairs of rows that match, and the rows  *)
(* of either side that no row of the other does.                           *)
JoinRows(q, build, probe) ==
  LET B == ToSet(build)
      P == ToSet(probe)
      met(l, r)  == Keyed(q, l) /\ Keyed(q, r) /\ l.key = r.key /\ Satisfies(q, l, r)
      lonely     == {l \in P : ~\E r \in B : met(l, r)}
      unmatched  == {r \in B : ~\E l \in P : met(l, r)}
      pairs      == {[l |-> x[1].id, r |-> x[2].id] : x \in {y \in P \X B : met(y[1], y[2])}}
      lefts(L)   == {[l |-> l.id, r |-> 0] : l \in L}
      rights(R)  == {[l |-> 0, r |-> r.id] : r \in R}
  IN CASE q.kind = "inner"              -> pairs
       [] q.kind = "left"               -> pairs \union lefts(lonely)
       [] q.kind = "right"              -> pairs \union rights(unmatched)
       [] q.kind = "full"               -> pairs \union lefts(lonely) \union rights(unmatched)
       [] q.kind \in {"semi", "semiIf"} -> lefts(P \ lonely)
       [] q.kind \in {"anti", "antiIf"} -> lefts(lonely)

(* maintain_order: by the probe row, then the build row, and the build     *)
(* rows without a probe row last.                                          *)
InProbeOrder(out) == \A i, j \in DOMAIN out : i < j =>
  LET a == out[i]
      b == out[j]
  IN IF a.l = b.l THEN a.r < b.r ELSE b.l = 0 \/ (a.l # 0 /\ a.l < b.l)
=============================================================================
