----------------------------- MODULE MCAnswers -----------------------------
(* Answers for small inputs.                                               *)
EXTENDS Answers

CONSTANTS ka, kb, kc, null, sep, quote, newline, return, comment, bad

(* Rows with these keys, numbered from first.                              *)
RowsOf(keys, first) == [i \in DOMAIN keys |-> [key |-> keys[i], id |-> first + i - 1]]

(* Cut after the first two rows, and then after every row.                 *)
Batched(rows) == <<SubSeq(rows, 1, 2)>> \o [i \in 1..(Len(rows) - 2) |-> <<rows[i + 2]>>]

Builds == {Batched(RowsOf(k, 1)) : k \in [1..4 -> {ka, kb, null}]}
ProbeKeys == <<ka, null, kc, kb, ka>>

JoinKinds == {"inner", "left", "right", "full", "semi", "anti", "semiIf", "antiIf"}

(* Both buckets hold keys at the first level, or one holds them all; and   *)
(* what fell together there is parted at the next, or never is.            *)
Hashes ==
  {[l \in 0..2 |-> IF l = 0 THEN h ELSE g] :
     h \in {(ka :> 0 @@ kb :> 1 @@ kc :> 0 @@ null :> 1), (ka :> 1 @@ kb :> 1 @@ kc :> 1 @@ null :> 1)},
     g \in {(ka :> 0 @@ kb :> 1 @@ kc :> 1 @@ null :> 0), (ka :> 1 @@ kb :> 1 @@ kc :> 0 @@ null :> 1)}}

Overs ==
  {({0} \X f) \union ({1} \X g) : f \in {{}, {1}, {2}, {1, 2}, {2, 3}}, g \in {{}, {1}, {1, 2}}}

Flags(nullsEqual, unique, alone) ==
  [nullsEqual |-> nullsEqual, leftUnique |-> unique, rightUnique |-> unique, alone |-> alone]

(* Every hash for the plain join, one for those with a flag.               *)
Flagged ==
  LET some == CHOOSE h \in Hashes : h[0][ka] # h[0][kb] /\ h[1][ka] = h[1][kb] IN
  ({Flags(FALSE, FALSE, TRUE)} \X Hashes)
    \union ({Flags(TRUE, FALSE, FALSE), Flags(FALSE, TRUE, FALSE)} \X {some})

SmallJoins ==
  [q : {f[1] @@ [kind |-> k, holds |-> {<<1, 1>>, <<1, 4>>, <<4, 2>>, <<5, 2>>},
                 hash |-> f[2], over |-> o] : k \in JoinKinds, f \in Flagged, o \in Overs},
   build : Builds, probe : {RowsOf(ProbeKeys, 1)}]

(* Five rows; the budget is passed at a point of no level, of the first or *)
(* of both, which is where a key alone is refused.                         *)
KeyedInputs == {Batched(RowsOf(k, 1)) : k \in [1..5 -> Keys]}

KeyedOvers ==
  {{}} \union {{<<0, f>>} : f \in 1..3}
       \union {{<<0, f>>, <<1, g>>} : f \in 1..3, g \in 1..2}

SmallGroupings ==
  [q : [ordered : BOOLEAN, alone : BOOLEAN, hash : Hashes, over : KeyedOvers],
   batches : KeyedInputs]

SmallUniques ==
  [q : [alone : BOOLEAN, hash : Hashes, over : KeyedOvers], batches : KeyedInputs]

(* Six batches of a row, an empty one among them: runs of three levels.    *)
SortInputs ==
  {LET rows == RowsOf(k, 1) IN
   <<<<rows[1]>>, <<rows[2]>>, <<>>, <<rows[3]>>, <<rows[4]>>, <<rows[5]>>>> :
     k \in [1..5 -> {1, 2, null}]}

SmallSorts ==
  [q : {[descending |-> d, nullsLast |-> n, limit |-> m, over |-> x[1], large |-> x[2]] :
     d \in BOOLEAN, n \in BOOLEAN, m \in {0, 2},
     x \in {<<{}, {}>>, <<{3}, {}>>, <<{2, 4}, {4}>>, <<{1, 2, 4}, {1, 2, 4}>>,
            <<{1, 2, 3, 4, 5}, {1, 2, 3, 4, 5}>>, <<{1, 2, 3, 4}, {2, 3, 4}>>}},
   batches : SortInputs]

(* Each side cut in three ways, with an empty batch in it.                 *)
Sides(keys, first) ==
  LET rows == RowsOf(keys, first) IN
  {<<rows>>, <<<<rows[1]>>, <<>>, <<rows[2], rows[3]>>>>,
   <<<<>>, <<rows[1], rows[2]>>, <<rows[3]>>>>}

SmallMerges ==
  UNION {{[left |-> l, right |-> r] : l \in Sides(k, 1), r \in Sides(m, 4)} :
           k \in [1..3 -> {1, 2, null}], m \in [1..3 -> {1, 2, null}]}

Cuts == {<<<<1>>, <<2, 3>>, <<>>, <<4>>, <<5, 6>>>>, <<<<1, 2, 3>>, <<4>>>>, <<<<>>, <<1>>>>}
NumberedCuts ==
  {[i \in DOMAIN cut |-> [j \in DOMAIN cut[i] |-> [id |-> cut[i][j]]]] : cut \in Cuts}

SmallTails ==
  [q : [n : 0..7, limited : BOOLEAN, take : {1, 3}, over : SUBSET (1..5)],
   batches : NumberedCuts]

SmallReverses ==
  [early : NumberedCuts, late : NumberedCuts, over : SUBSET (1..5), merged : BOOLEAN]

(* Streams of a few characters of every kind, and of more of the kinds a   *)
(* quoted field needs, in blocks of one or two of them and a window of     *)
(* three: a quote may open in one block and close in a later one, and no   *)
(* line may end within the limit.                                          *)
Streams ==
  (UNION {[1..k -> {sep, quote, newline, return, comment, bad, ka}] : k \in 0..4})
    \union [1..5 -> {sep, quote, newline, return, comment}]
    \union [1..5 -> {sep, quote, newline, bad, ka}]
    \union [1..6 -> {sep, quote, newline, bad}]

SmallCsvs ==
  [q : [stream : Streams, fault : BOOLEAN, width : {2}, size : {1, 2}, slack : {1},
        ahead : {3}, maxRec : {3, 9}]]

(* Four left rows and five right, cut with an empty batch in each; each    *)
(* side is in order, or goes backwards in one group, or in another.        *)
NumberedRows(keys, bys) == [i \in DOMAIN keys |-> [key |-> keys[i], by |-> bys[i], id |-> i]]

AsOfLefts ==
  {<<SubSeq(r, 1, 1), <<>>, SubSeq(r, 2, 3), SubSeq(r, 4, 4)>> :
     r \in {NumberedRows(k, b) :
              k \in {<<1, 2, 2, 4>>, <<2, 2, 3, 3>>, <<2, 1, 3, 3>>, <<1, 2, 3, 2>>},
              b \in {<<ka, kb, ka, kb>>, <<kc, ka, null, kb>>, <<ka, ka, kb, ka>>}}}

AsOfRights ==
  {<<SubSeq(r, 1, 2), <<>>, SubSeq(r, 3, 3), SubSeq(r, 4, 4), SubSeq(r, 5, 5)>> :
     r \in {NumberedRows(k, b) :
              k \in {<<1, 1, 2, 3, 4>>, <<2, 2, 2, 2, 3>>, <<2, 3, 3, 5, 5>>,
                     <<1, 3, 2, 4, 4>>, <<1, 1, 2, 2, 1>>},
              b \in {<<ka>> \o x : x \in [1..4 -> {ka, kb}]}
                       \union {<<ka, null, kb, null, ka>>}}}

SmallAsOfs ==
  [left : AsOfLefts, right : AsOfRights,
   q : [strategy : {"backward", "forward", "nearest"}, exact : BOOLEAN,
        tolerance : {<<>>, <<0>>, <<1>>}]]

(* Five rows, of one group or two, with ties and gaps, in order or not, in *)
(* batches that end among them; every closed and offset, windows that      *)
(* overlap, touch or leave gaps, and as many of them as the limit or more. *)
TimedRows(ticks, keys) == [i \in DOMAIN ticks |-> [key |-> keys[i], t |-> ticks[i], id |-> i]]

Timelines ==
  UNION {{<<SubSeq(r, 1, 2), <<>>, SubSeq(r, 3, 3), SubSeq(r, 4, 5)>>,
          <<SubSeq(r, 1, 1), SubSeq(r, 2, 2), SubSeq(r, 3, 4), SubSeq(r, 5, 5)>>} :
            r \in {TimedRows(t, b) :
                     t \in {<<1, 1, 2, 4, 4>>, <<0, 2, 3, 3, 6>>, <<3, 3, 3, 3, 4>>,
                            <<1, 3, 2, 5, 4>>, <<1, 2, 2, 1, 6>>},
                     b \in {<<ka, kb, ka, kb, ka>>, <<ka, ka, kb, kb, kb>>, <<ka, kb, kb, ka, ka>>}}}

RollingWindows ==
  [rolling : {TRUE}, every : {0}, period : {1, 2}, offset : {<<>>, <<-1>>, <<-2>>, <<0>>, <<1>>},
   label : {"left"}, datapoint : {FALSE}, rowOrder : BOOLEAN]

GridWindows ==
  [rolling : {FALSE}, every : {1, 2}, period : {1, 2, 3}, offset : {<<>>, <<-1>>, <<1>>},
   label : {"left", "right", "datapoint"}, datapoint : BOOLEAN, rowOrder : {FALSE}]

SmallTemporals ==
  [q : {w @@ c : w \in RollingWindows \union GridWindows,
                 c \in {f \in [lowerOpen : BOOLEAN, upperClosed : BOOLEAN, keyed : BOOLEAN,
                              spilled : BOOLEAN] : f.spilled => f.keyed}},
   batches : Timelines]

(* Every function alone over one partition of six rows that streams from   *)
(* its first batch: nulls anywhere, ties, three orders and cuts in the     *)
(* input, and batches of one row or two in what is sorted.                 *)
Plain == [fn |-> "agg", by |-> "none", ordered |-> FALSE, back |-> FALSE, n |-> 0,
          min |-> 1, center |-> FALSE, how |-> "right"]

Ordering == {[Plain EXCEPT !.fn = f, !.back = b, !.ordered = o] :
               f \in {"cum_sum", "cum_count"}, b \in BOOLEAN, o \in BOOLEAN}
              \union {[Plain EXCEPT !.fn = "fill", !.back = b, !.ordered = o, !.n = n] :
                        b \in BOOLEAN, o \in BOOLEAN, n \in {0, 1, 2}}
              \union {[Plain EXCEPT !.fn = "shift", !.ordered = o, !.n = n] :
                        o \in BOOLEAN, n \in {-3, -1, 1, 2}}
              \union {[Plain EXCEPT !.fn = f, !.ordered = o, !.n = n, !.center = c, !.min = m] :
                        f \in {"rolling", "rolling_float"}, o \in BOOLEAN, n \in {2, 4},
                        c \in BOOLEAN, m \in {1, 2}}
              \union {[Plain EXCEPT !.fn = "rank", !.back = b, !.how = h] : b \in BOOLEAN,
                        h \in {"ordinal", "dense", "min", "max", "average"}}
              \union {[Plain EXCEPT !.fn = "interpolate", !.ordered = o, !.how = h] :
                        o \in BOOLEAN, h \in {"nearest", "linear"}}
              \union {[Plain EXCEPT !.fn = "rolling_by", !.n = n, !.min = m, !.how = h] :
                        n \in {1, 3}, m \in {1, 2}, h \in {"right", "left", "both", "none"}}

WindowRows(vals, ords, keys, others) ==
  [i \in DOMAIN vals |->
     [id |-> i, val |-> vals[i], ord |-> ords[i], key |-> keys[i], also |-> others[i]]]

AllOf(k) == <<k, k, k, k, k, k>>
Values(mask) == [i \in DOMAIN mask |-> IF mask[i] = 0 THEN <<>> ELSE <<mask[i]>>]
Masked(mask, seq) == [i \in DOMAIN mask |-> IF mask[i] THEN <<seq[i]>> ELSE <<>>]
Masks == [1..6 -> BOOLEAN]

Cut3(r) == <<SubSeq(r, 1, 1), SubSeq(r, 2, 4), SubSeq(r, 5, 6)>>
Cut5(r) == <<SubSeq(r, 1, 3), <<>>, SubSeq(r, 4, 4), SubSeq(r, 5, 5), SubSeq(r, 6, 6)>>

SixRows(mask, ords) == WindowRows(Masked(mask, <<2, 1, 2, 3, 1, 2>>), ords, AllOf(ka), AllOf(ka))

Streams6 ==
  [q : [ws : {<<w>> : w \in Ordering}, hash : {[l \in 0..2 |-> [k \in {ka} |-> 0]]},
        over : {{<<0, 1>>}}, alone : {TRUE}, size : {2}],
   batches : UNION {{Cut3(SixRows(m, Values(<<3, 1, 2, 2, 0, 1>>))),
                     Cut5(SixRows(m, Values(<<5, 0, 1, 4, 0, 2>>))),
                     Cut5(SixRows(m, Values(<<1, 1, 2, 2, 2, 4>>)))} : m \in Masks}]

(* One partitioning, two, and one of no key; read ahead for one function   *)
(* and not the other; and a function that needs all of its partition.  A   *)
(* budget is passed at none of three levels, or at up to all of them.      *)
By(k, f) == [Plain EXCEPT !.by = k, !.fn = f]

KeyedWindows ==
  {<<By("key", "cum_sum")>>,
   <<By("key", "agg"), [By("none", "cum_sum") EXCEPT !.ordered = TRUE]>>,
   <<[By("key", "rank") EXCEPT !.how = "max"], [By("also", "shift") EXCEPT !.n = -1]>>,
   <<[By("key", "rolling_float") EXCEPT !.n = 2], [By("key", "shift") EXCEPT !.n = -2]>>,
   <<By("also", "whole"), [By("key", "interpolate") EXCEPT !.how = "linear"]>>,
   <<By("none", "whole"), By("key", "cum_count")>>}

WindowOvers ==
  {{}, {<<0, 1>>}, {<<0, 3>>}, {<<0, 1>>, <<1, 1>>}, {<<0, 2>>, <<1, 2>>},
   {<<0, 1>>, <<1, 1>>, <<2, 1>>}, {<<0, 2>>, <<1, 1>>, <<2, 1>>}}

Keyed5 ==
  [q : [ws : KeyedWindows, hash : Hashes, over : WindowOvers, alone : BOOLEAN, size : {2}],
   batches : {Batched(WindowRows(<<<<2>>, <<1>>, <<>>, <<2>>, <<3>>>>, Values(<<3, 1, 2, 2, 0>>),
                                 k \o <<kb, kc>>, <<ka, kb, kb, ka, kb>>)) :
                k \in [1..3 -> {ka, kb, kc}]}]

SmallWindows == Streams6 \union Keyed5

(* Every aggregate, of six rows in five batches: serially, spilled after   *)
(* any of some batches; by sinks one after another; and, where the order   *)
(* of rows is no matter, by sinks in turn.  Values that repeat, are null,  *)
(* wrap a word, are NaN or -0, as the aggregate has them.                  *)
PlainKind == [fn |-> "len", n |-> 1, wide |-> FALSE, narrow |-> FALSE, temporal |-> FALSE,
              desc |-> FALSE, nullsLast |-> FALSE, bias |-> TRUE, maintain |-> FALSE,
              allowEmpty |-> FALSE, interp |-> "linear", at |-> <<1, 2>>, tries |-> 6]

KindsOf(fns) == {[PlainKind EXCEPT !.fn = f] : f \in fns}
Both(kinds) == {[k EXCEPT !.desc = d, !.nullsLast = n] : k \in kinds, d \in BOOLEAN, n \in BOOLEAN}

SumKinds == {[PlainKind EXCEPT !.fn = f, !.wide = w = "wide", !.narrow = w = "narrow",
                               !.temporal = w = "temporal"] :
               f \in {"sum", "mean"}, w \in {"int", "wide", "narrow", "temporal"}}
FloatKinds  == KindsOf({"min", "max", "nan_min"}) \union Both(KindsOf({"is_sorted"}))
                 \union {[k EXCEPT !.maintain = b] : k \in KindsOf({"mode"}), b \in BOOLEAN}
TopKinds    == {[PlainKind EXCEPT !.fn = f, !.n = n] :
                  f \in {"top_k", "bottom_k", "top_k_by", "bottom_k_by"}, n \in {1, 2}}
MomentKinds == {[PlainKind EXCEPT !.fn = f, !.n = n] : f \in {"var", "cov"}, n \in {0, 1}}
                 \union {[PlainKind EXCEPT !.fn = f, !.bias = b] :
                           f \in {"skew", "kurtosis"}, b \in BOOLEAN}
                 \union KindsOf({"corr"})
QuantileKinds == {[PlainKind EXCEPT !.fn = "quantile", !.interp = i, !.at = a, !.tries = t] :
                    i \in {"lower", "higher", "nearest", "midpoint", "linear"},
                    a \in {<<1, 2>>, <<1, 3>>, <<1, 1>>}, t \in {0, 6}}
RowKinds    == KindsOf({"first", "last", "min_by", "max_by", "arg_min", "arg_max", "implode"})
                 \union {[k EXCEPT !.allowEmpty = b] : k \in KindsOf({"item"}), b \in BOOLEAN}

AggRows(vals, bys, keys, fails) ==
  [i \in DOMAIN vals |-> [key |-> keys[i], val |-> vals[i], by |-> bys[i], pass |-> i \notin fails]]

Cut52(r) == <<SubSeq(r, 1, 1), SubSeq(r, 2, 3), <<>>, SubSeq(r, 4, 4), SubSeq(r, 5, 6)>>

InputsOf(patterns) ==
  {Cut52(AggRows(v, x[1], x[2], x[3])) : v \in patterns,
     x \in {<<<<3, 1, 2, null, 1, 3>>, <<ka, kb, ka, kc, kb, ka>>, {}>>,
            <<<<1, 1, 1, 2, 1, 1>>, <<kb, kb, kb, kb, kb, kb>>, {}>>,
            <<<<null, 3, 2, 1, 2, 1>>, <<ka, ka, kb, ka, kb, kb>>, {2, 5}>>,
            <<<<2, 3, 1, 1, null, 1>>, <<ka, kc, ka, ka, kc, ka>>, {4}>>}}

Repeated == {<<1, 2, 3, 1, 2, 3>>, <<2, 1, null, 3, 1, 2>>, <<1, 1, 3, 1, 3, 1>>, <<null, 0, null, null, 0, 1>>,
             <<3, 2, 2, 1, 0, null>>, <<0, 1, 2, 2, 3, 3>>, AllOf(null)}
Wrapping == {<<7, 7, -8, 7, 5, -8>>, <<-8, -8, -8, 7, 7, 7>>, <<7, 7, 7, 7, null, 7>>,
             <<-8, null, -8, -8, -8, 3>>}
Floats   == {<<NaN, 2, NegZero, 0, null, 1>>, <<0, NegZero, NaN, NaN, 1, NegZero>>,
             <<NaN, null, NaN, 2, 1, 0>>}
Alike    == {<<NaN, 2, 1, 0, null, 1>>, <<2, NaN, NaN, 1, NaN, 0>>}

AskOf(kinds, courses, patterns) ==
  [q : {[k |-> k] @@ c @@ [hash |-> (ka :> 1 @@ kb :> 2 @@ kc :> 1)] : k \in kinds, c \in courses},
   batches : InputsOf(patterns) \union {<<>>}]

Course(keyless, workers, owner, over, room) ==
  [keyless |-> keyless, workers |-> workers, owner |-> owner, over |-> over, room |-> room]

Serial(overs) == {Course(b, 1, <<1, 1, 1, 1, 1>>, o, FALSE) : b \in BOOLEAN, o \in overs}
InTurn  == {Course(FALSE, 2, <<1, 1, 2, 2, 2>>, {}, FALSE), Course(FALSE, 2, <<1, 2, 2, 2, 2>>, {}, TRUE),
            Course(TRUE, 2, <<1, 1, 1, 2, 2>>, {}, FALSE), Course(TRUE, 3, <<1, 1, 2, 2, 3>>, {}, FALSE),
            Course(FALSE, 3, <<1, 1, 2, 2, 3>>, {}, FALSE)}
Anyhow  == {Course(FALSE, 3, <<3, 1, 2, 1, 3>>, {}, TRUE), Course(FALSE, 2, <<2, 1, 1, 2, 1>>, {}, FALSE),
            Course(TRUE, 3, <<3, 1, 1, 2, 3>>, {}, TRUE)}
Spilled == Serial({{1}, {2}, {1, 2}, {2, 4}, {1, 2, 4}, {1, 2, 3, 4, 5}})

SmallAggregations ==
  LET Counts == KindsOf({"len", "count", "null_count"})
      Bits   == KindsOf({"bit_xor", "product"})
      Uniq   == KindsOf({"n_unique"})
      Spear  == KindsOf({"spearman"})
      Modes  == {k \in FloatKinds : k.fn = "mode"}
      Tops   == {k \in TopKinds : k.fn \in {"top_k", "bottom_k"}}
      Fits   == {k \in SumKinds : ~k.narrow}
  IN UNION {
       AskOf(Counts \union SumKinds \union Bits \union MomentKinds \union TopKinds \union Uniq \union Spear,
             Serial({{}}) \union InTurn \union Anyhow, Repeated),
       AskOf(FloatKinds \union RowKinds, Serial({{}}) \union InTurn, Repeated),
       AskOf(FloatKinds, Serial({{}}) \union InTurn, Floats),
       AskOf(Tops, Serial({{}}) \union InTurn \union Anyhow, Floats),
       AskOf(Fits, Serial({{}}) \union InTurn \union Anyhow, Wrapping),
       AskOf(QuantileKinds, Serial({{}}) \union InTurn \union Anyhow, Alike),
       AskOf(QuantileKinds, Serial({{}}) \union Anyhow, {<<2, 1, null, 3, 1, 2>>}),
       AskOf(QuantileKinds, Spilled, Alike \ {<<NaN, 2, 1, 0, null, 1>>}),
       AskOf(Uniq \union Modes \union Spear, Spilled, Repeated),
       AskOf(Modes, Spilled, Floats)}

=============================================================================
