---------------------------- MODULE Accumulators ----------------------------
(***************************************************************************)
(* What an aggregate keeps of the rows it is given: an accumulator takes   *)
(* batches of rows, each with its group, merges another that saw other     *)
(* rows of the input, under a map of that one's groups to its own, and     *)
(* tells each group's answer (internal/kernel/agg*.go, topk.go, topkby.go, *)
(* quantspill.go).  A row is [g, val, by]; a value is an integer, NaN or   *)
(* -0.  The floats are exact: a moment is a ratio, and what only rounding  *)
(* tells apart is not told apart.  An accumulator has room for every slot  *)
(* at once, where the code's grows as groups are met.                      *)
(***************************************************************************)
EXTENDS Integers, Sequences, FiniteSets, SequencesExt

CONSTANTS
  NullKey,      \* stands for null
  NaN,          \* stands for a float that is not a number
  NegZero,      \* stands for the float -0
  Slots,        \* the groups an accumulator has room for, 1..n
  HalfWord,     \* a word holds -HalfWord..HalfWord-1
  NarrowFold,   \* narrowFold, the rows added in a word before they are folded
  MaxDead       \* 1<<16, the rows no group points at that are kept

-----------------------------------------------------------------------------

(* The floats' order: NaN the greatest, -0 and 0 alike; and the order that *)
(* tells the zeros apart.                                                  *)
OrderKey(v) == CASE v = NaN -> 1000 [] v = NegZero -> 0 [] OTHER -> v
SignedKey(v) == IF v = NegZero THEN -1 ELSE 2 * OrderKey(v)

RECURSIVE Gcd(_, _)
Gcd(a, b) == IF b = 0 THEN a ELSE Gcd(b, a % b)

(* The ratio of two integers, <<n, d>> reduced with d positive; and sums,  *)
(* differences, products of ratios, and one of a ratio to an integer.      *)
Ratios == Int \X (Nat \ {0})
Ratio[n \in Int, d \in Nat \ {0}] == LET c == Gcd(IF n < 0 THEN -n ELSE n, d) IN <<n \div c, d \div c>>
Plus[a, b \in Ratios]  == Ratio[a[1] * b[2] + b[1] * a[2], a[2] * b[2]]
Less[a, b \in Ratios]  == Ratio[a[1] * b[2] - b[1] * a[2], a[2] * b[2]]
Times[a, b \in Ratios] == Ratio[a[1] * b[1], a[2] * b[2]]
Over[a \in Ratios, n \in Nat \ {0}] == Ratio[a[1], a[2] * n]
Whole(n) == <<n, 1>>
Zero == Whole(0)

(* mergeEach under a map of some of the other's groups: the group of the   *)
(* other's that goes to g, if one does.                                    *)
Goes(remap, g) == \E s \in DOMAIN remap : remap[s] = g
Source(remap, g) == CHOOSE s \in DOMAIN remap : remap[s] = g

-----------------------------------------------------------------------------
(* The aggregates that keep a state a group, and take a row at a time.     *)

Counting == {"len", "count", "null_count"}
Totals   == {"sum", "mean"}
Folding  == {"min", "max", "nan_min", "bit_xor", "product"}
Spreads  == {"var", "cov", "corr"}
Pairs    == {"cov", "corr", "spearman"}
Shapes   == {"skew", "kurtosis"}
Holding  == {"top_k", "bottom_k", "top_k_by", "bottom_k_by"}

NoSpread == [n |-> 0, kx |-> 0, ky |-> 0, mx |-> Zero, my |-> Zero,
             cxy |-> Zero, m2x |-> Zero, m2y |-> Zero]
NoShape  == [n |-> 0, k |-> 0, mean |-> Zero, m2 |-> Zero, m3 |-> Zero, m4 |-> Zero]
NoRun    == [ok |-> TRUE, hasNull |-> FALSE, hasValue |-> FALSE, first |-> 0, last |-> 0]

Nothing(k) ==
  CASE k.fn \in Counting -> 0
    [] k.fn \in Totals   -> [i |-> 0, carry |-> 0, n |-> 0]
    [] k.fn \in Spreads  -> NoSpread
    [] k.fn \in Shapes   -> NoShape
    [] k.fn = "is_sorted" -> NoRun
    [] OTHER -> <<>>

Counts(k, row) ==
  CASE k.fn = "len"   -> TRUE
    [] k.fn = "count" -> row.val # NullKey
    [] OTHER          -> row.val = NullKey

Wrap(x) == ((x + HalfWord) % (2 * HalfWord)) - HalfWord

(* A sum that leaves its word, and by which end.                           *)
AddCarry(a, b) ==
  LET s == Wrap(a + b) IN
  [s |-> s, c |-> CASE a >= 0 /\ b >= 0 /\ s < 0 -> 1
                    [] a < 0 /\ b < 0 /\ s >= 0  -> -1
                    [] OTHER -> 0]

(* Mutant of AddTotal: the carries of the total added are left behind.     *)
AddTotalOwn(k, st, i, carry, n) ==
  IF k.wide
  THEN LET t == AddCarry(st.i, i)
       IN [i |-> t.s, carry |-> st.carry + t.c, n |-> st.n + n]
  ELSE [st EXCEPT !.i = @ + i, !.n = @ + n]

AddTotal(k, st, i, carry, n) ==
  IF k.wide
  THEN LET t == AddCarry(st.i, i)
       IN [i |-> t.s, carry |-> st.carry + carry + t.c, n |-> st.n + n]
  ELSE [st EXCEPT !.i = @ + i, !.n = @ + n]

(* Of numbers of two bits.                                                 *)
Xor(x, y) == ((x + y) % 2) + 2 * ((x \div 2 + y \div 2) % 2)

(* One value kept: the first, and then the one that wins over it, or both  *)
(* folded into one.                                                        *)
Kept(k, cur, x) ==
  CASE k.fn = "max"     -> IF OrderKey(cur) < OrderKey(x) THEN x ELSE cur
    [] k.fn = "min"     -> IF OrderKey(x) < OrderKey(cur) THEN x ELSE cur
    [] k.fn = "nan_min" -> IF \/ x = NaN /\ cur # NaN
                              \/ cur # NaN /\ OrderKey(x) < OrderKey(cur) THEN x ELSE cur
    [] k.fn = "bit_xor" -> Xor(cur, x)
    [] OTHER            -> x * cur

Fold(k, st, x) == IF st = <<>> THEN <<x>> ELSE <<Kept(k, st[1], x)>>

(* Co-moments of values less the first pair, a pair at a time; and of two  *)
(* such, each less its own first pair.                                     *)
SpreadOf(st, x, y) ==
  LET s  == IF st.n = 0 THEN [st EXCEPT !.kx = x, !.ky = y] ELSE st
      n  == s.n + 1
      dx == Less[Whole(x - s.kx), s.mx]
      dy == Less[Whole(y - s.ky), s.my]
      mx == Plus[s.mx, Over[dx, n]]
      my == Plus[s.my, Over[dy, n]]
      ex == Less[Whole(x - s.kx), mx]
      ey == Less[Whole(y - s.ky), my]
  IN [s EXCEPT !.n = n, !.mx = mx, !.my = my, !.cxy = Plus[@, Times[dx, ey]],
               !.m2x = Plus[@, Times[dx, ex]], !.m2y = Plus[@, Times[dy, ey]]]

JoinSpread(d, b) ==
  LET t  == d.n + b.n
      dx == Less[Plus[b.mx, Whole(b.kx - d.kx)], d.mx]
      dy == Less[Plus[b.my, Whole(b.ky - d.ky)], d.my]
      w  == Ratio[d.n * b.n, t]
  IN IF b.n = 0 THEN d ELSE IF d.n = 0 THEN b ELSE
     [d EXCEPT !.cxy = Plus[@, Plus[b.cxy, Times[Times[dx, dy], w]]],
               !.m2x = Plus[@, Plus[b.m2x, Times[Times[dx, dx], w]]],
               !.m2y = Plus[@, Plus[b.m2y, Times[Times[dy, dy], w]]],
               !.mx = Plus[@, Over[Times[dx, Whole(b.n)], t]],
               !.my = Plus[@, Over[Times[dy, Whole(b.n)], t]],
               !.n = t]

(* Powers of the deviations up to the fourth, in the same way.             *)
ShapeOf(st, v) ==
  LET s    == IF st.n = 0 THEN [st EXCEPT !.k = v] ELSE st
      n    == s.n + 1
      d    == Less[Whole(v - s.k), s.mean]
      dn   == Over[d, n]
      dn2  == Times[dn, dn]
      term == Times[Times[d, dn], Whole(s.n)]
  IN [s EXCEPT
        !.n = n, !.mean = Plus[@, dn], !.m2 = Plus[@, term],
        !.m3 = Plus[@, Less[Times[Times[term, dn], Whole(n - 2)],
                            Times[Times[Whole(3), dn], s.m2]]],
        !.m4 = Plus[@, Plus[Times[Times[term, dn2], Whole(n * n - 3 * n + 3)],
                            Less[Times[Times[Whole(6), dn2], s.m2],
                                 Times[Times[Whole(4), dn], s.m3]]]]]

JoinShape(d, b) ==
  LET na == d.n
      nb == b.n
      n  == na + nb
      e  == Less[Plus[b.mean, Whole(b.k - d.k)], d.mean]
      e2 == Times[e, e]
      e3 == Times[e2, e]
      e4 == Times[e2, e2]
      Sum3(x, y, z) == Plus[x, Plus[y, z]]
  IN IF nb = 0 THEN d ELSE IF na = 0 THEN b ELSE
     [d EXCEPT
        !.n = n, !.mean = Plus[@, Over[Times[e, Whole(nb)], n]],
        !.m2 = Sum3(@, b.m2, Times[e2, Ratio[na * nb, n]]),
        !.m3 = Sum3(Plus[@, b.m3], Times[e3, Ratio[na * nb * (na - nb), n * n]],
                    Times[e, Less[Times[b.m2, Ratio[3 * na, n]], Times[d.m2, Ratio[3 * nb, n]]]]),
        !.m4 = Sum3(Sum3(@, b.m4, Times[e4, Ratio[na * nb * (na * na - na * nb + nb * nb), n * n * n]]),
                    Times[e2, Plus[Times[b.m2, Ratio[6 * na * na, n * n]],
                                   Times[d.m2, Ratio[6 * nb * nb, n * n]]]],
                    Times[e, Less[Times[b.m3, Ratio[4 * na, n]], Times[d.m3, Ratio[4 * nb, n]]]])]

(* Whether the rows so far are in order: what is kept of them is a run,    *)
(* and a run that is not stays as it is.                                   *)
InOrder(k, x, y) ==
  IF k.desc THEN ~(OrderKey(x) < OrderKey(y)) ELSE ~(OrderKey(y) < OrderKey(x))

RunOn(k, r, v) ==
  IF ~r.ok THEN r
  ELSE IF v = NullKey
  THEN [r EXCEPT !.ok = k.nullsLast \/ ~r.hasValue, !.hasNull = TRUE]
  ELSE [r EXCEPT !.ok = /\ ~(k.nullsLast /\ r.hasNull)
                        /\ r.hasValue => InOrder(k, r.last, v),
                 !.first = IF r.hasValue THEN @ ELSE v, !.last = v, !.hasValue = TRUE]

JoinRun(k, r, b) ==
  [ok |-> /\ r.ok /\ b.ok
          /\ ~(~k.nullsLast /\ r.hasValue /\ b.hasNull)
          /\ ~(k.nullsLast /\ r.hasNull /\ b.hasValue)
          /\ r.hasValue /\ b.hasValue => InOrder(k, r.last, b.first),
   first |-> IF r.hasValue THEN r.first ELSE b.first,
   last  |-> IF b.hasValue THEN b.last ELSE r.last,
   hasNull |-> r.hasNull \/ b.hasNull, hasValue |-> r.hasValue \/ b.hasValue]

(* The k best values, or the values of the k best rows, best first; of two *)
(* alike, the one held stays ahead.                                        *)
Better(k, x, y) ==
  IF k.fn \in {"top_k", "top_k_by"} THEN SignedKey(x) > SignedKey(y)
                                    ELSE SignedKey(x) < SignedKey(y)

Ahead(k, x, y) ==
  LET ByApart == k.fn \in {"top_k_by", "bottom_k_by"} /\ OrderKey(x.by) # OrderKey(y.by)
      ValApart == SignedKey(x.val) # SignedKey(y.val)
  IN IF k.fn \in {"top_k", "bottom_k"} THEN Better(k, x.val, y.val)
     ELSE \/ x.by # NullKey /\ y.by = NullKey
          \/ x.by # NullKey /\ y.by # NullKey /\ ByApart /\ Better(k, x.by, y.by)
          \/ /\ \/ x.by = NullKey /\ y.by = NullKey
                \/ x.by # NullKey /\ y.by # NullKey /\ ~ByApart
             /\ \/ x.val # NullKey /\ y.val = NullKey
                \/ x.val # NullKey /\ y.val # NullKey /\ ValApart /\ Better(k, x.val, y.val)

Offer(k, held, e) ==
  LET at == CHOOSE i \in 1..(Len(held) + 1) :
              /\ i = Len(held) + 1 \/ Ahead(k, e, held[i])
              /\ \A j \in 1..(i - 1) : ~Ahead(k, e, held[j])
  IN SubSeq(InsertAt(held, at, e), 1, IF Len(held) >= k.n THEN k.n ELSE Len(held) + 1)

Skips(k, row) ==
  \/ k.fn \in Counting /\ ~Counts(k, row)
  \/ k.fn \in Pairs /\ NullKey \in {row.val, row.by}
  \/ row.val = NullKey /\ k.fn \notin Counting \union {"is_sorted", "top_k_by", "bottom_k_by"}

Enter(k, st, row) ==
  IF Skips(k, row) THEN st ELSE
  CASE k.fn \in Counting -> st + 1
    [] k.fn = "is_sorted" -> RunOn(k, st, row.val)
    [] k.fn \in Pairs \ {"spearman"} -> SpreadOf(st, row.val, row.by)
    [] k.fn = "spearman" -> Append(st, <<row.val, row.by>>)
    [] k.fn \in Holding -> Offer(k, st, [val |-> row.val,
                                         by |-> IF k.fn \in {"top_k", "bottom_k"} THEN NullKey ELSE row.by])
    [] k.fn \in Totals   -> AddTotal(k, st, row.val, 0, 1)
    [] k.fn \in Folding  -> Fold(k, st, row.val)
    [] k.fn = "var"      -> SpreadOf(st, row.val, row.val)
    [] k.fn \in Shapes   -> ShapeOf(st, row.val)
    [] k.fn = "quantile" -> Append(st, row.val)

Join(k, st, b) ==
  CASE k.fn \in Counting  -> st + b
    [] k.fn \in Totals    -> AddTotal(k, st, b.i, b.carry, b.n)
    [] k.fn \in Folding   -> IF b = <<>> THEN st ELSE Fold(k, st, b[1])
    [] k.fn \in Spreads   -> JoinSpread(st, b)
    [] k.fn \in Shapes    -> JoinShape(st, b)
    [] k.fn = "is_sorted" -> JoinRun(k, st, b)
    [] k.fn \in Holding   -> FoldLeft(LAMBDA held, e : Offer(k, held, e), st, b)
    [] OTHER -> st \o b

-----------------------------------------------------------------------------
(* A quantile: the values at two ranks, found by parting the values until  *)
(* the lower rank is in place, and sorting them when that takes too long.  *)
InTotal(v) == SortSeq(v, LAMBDA x, y : OrderKey(x) < OrderKey(y))

Median3(a, b, c) ==
  LET s == InTotal(<<a, b, c>>) IN s[2]

Swap(v, i, j) == [v EXCEPT ![i] = v[j], ![j] = v[i]]

Parted(v, lo, hi, pivot) ==
  FoldLeft(LAMBDA p, step :
             LET x == OrderKey(p.v[p.i])
             IN CASE x < p.y -> [p EXCEPT !.v = Swap(p.v, p.lt, p.i), !.lt = @ + 1, !.i = @ + 1]
                  [] x > p.y -> [p EXCEPT !.v = Swap(p.v, p.i, p.gt), !.gt = @ - 1]
                  [] OTHER -> [p EXCEPT !.i = @ + 1],
           [v |-> v, lt |-> lo, i |-> lo, gt |-> hi, y |-> OrderKey(pivot)],
           [n \in 1..(hi - lo + 1) |-> n])

RECURSIVE SelectNth(_, _, _, _, _)
SelectNth(v, k, lo, hi, rounds) ==
  LET p == Parted(v, lo, hi, Median3(v[lo], v[lo + (hi - lo) \div 2], v[hi]))
  IN IF hi <= lo THEN v
     ELSE IF rounds = 0
     THEN SubSeq(v, 1, lo - 1) \o InTotal(SubSeq(v, lo, hi)) \o SubSeq(v, hi + 1, Len(v))
     ELSE CASE k < p.lt -> SelectNth(p.v, k, lo, p.lt - 1, rounds - 1)
            [] k > p.gt -> SelectNth(p.v, k, p.gt + 1, hi, rounds - 1)
            [] OTHER    -> p.v

Ranks(k, n) ==
  LET pos == k.at[1] * (n - 1)
      lo  == pos \div k.at[2]
  IN [lo |-> lo, hi |-> IF pos % k.at[2] = 0 THEN lo ELSE lo + 1,
      frac |-> <<pos % k.at[2], k.at[2]>>]

Exact(v) == IF v = NaN THEN NaN ELSE Whole(v)

Interpolate(k, frac) ==
  [a, b \in Int \union {NaN} |->
     CASE k.interp = "lower"   -> Exact(a)
       [] k.interp = "higher"  -> Exact(b)
       [] k.interp = "nearest" -> IF 2 * frac[1] < frac[2] THEN Exact(a) ELSE Exact(b)
       [] OTHER -> IF k.interp = "linear" /\ frac[1] = 0 THEN Exact(a)
                   ELSE IF NaN \in {a, b} THEN NaN
                   ELSE IF k.interp = "midpoint" THEN Ratio[a + b, 2]
                   ELSE Plus[Whole(a), Ratio[(b - a) * frac[1], frac[2]]]]

QuantileOf(k, v) ==
  LET at == Ranks(k, Len(v))
      Of[s \in Seq(Int \union {NaN})] ==
        Interpolate(k, at.frac)[s[at.lo + 1],
          IF at.hi > at.lo THEN InTotal(SubSeq(s, at.lo + 2, Len(s)))[1] ELSE s[at.lo + 1]]
  IN IF Len(v) = 1 THEN Exact(v[1]) ELSE Of[SelectNth(v, at.lo + 1, 1, Len(v), k.tries)]

(* A rank correlation: twice the average ranks, from the order of each     *)
(* side; and the sums of their products, less the mean.                    *)
Doubled(v) ==
  LET s == InTotal(v)
      lo(x) == CHOOSE i \in DOMAIN s : /\ OrderKey(s[i]) = OrderKey(x)
                                       /\ i = 1 \/ OrderKey(s[i - 1]) < OrderKey(x)
      hi(x) == CHOOSE i \in DOMAIN s : /\ OrderKey(s[i]) = OrderKey(x)
                                       /\ i = Len(s) \/ OrderKey(s[i + 1]) > OrderKey(x)
  IN [i \in DOMAIN v |-> lo(v[i]) + hi(v[i])]

Total(s) == FoldLeft(LAMBDA x, y : x + y, 0, s)

Correlation(sxy, sxx, syy) == IF sxx = 0 \/ syy = 0 THEN NaN ELSE <<sxy, sxx, syy>>

Spearman(pairs) ==
  LET n  == Len(pairs)
      rx == Doubled([i \in 1..n |-> pairs[i][1]])
      ry == Doubled([i \in 1..n |-> pairs[i][2]])
      dx == [i \in 1..n |-> rx[i] - (n + 1)]
      dy == [i \in 1..n |-> ry[i] - (n + 1)]
  IN IF n < 2 THEN NaN
     ELSE Correlation(Total([i \in 1..n |-> dx[i] * dy[i]]),
                      Total([i \in 1..n |-> dx[i] * dx[i]]),
                      Total([i \in 1..n |-> dy[i] * dy[i]]))

(* A group's answer, <<>> if there is none to give: a sum that overflows.  *)
(* A skew or a correlation is the moments it is made of.                   *)
Toward0(i, n) == IF i < 0 THEN -((-i) \div n) ELSE i \div n

ToldTotal(k, st) ==
  IF st.n = 0 THEN <<NullKey>>
  ELSE IF k.fn = "sum"
  THEN IF st.carry # 0 \/ (k.temporal /\ st.i # Wrap(st.i)) THEN <<>> ELSE <<st.i>>
  ELSE <<IF k.temporal THEN Toward0(st.i, st.n)
         ELSE Ratio[st.i + st.carry * 2 * HalfWord, st.n]>>

Told(k, st) ==
  CASE k.fn \in Counting -> <<st>>
    [] k.fn \in Totals -> ToldTotal(k, st)
    [] k.fn \in Folding -> IF st = <<>> THEN <<NullKey>> ELSE st
    [] k.fn = "corr" -> <<IF Zero \in {st.m2x, st.m2y} THEN NaN ELSE <<st.cxy, st.m2x, st.m2y>>>>
    [] k.fn \in {"var", "cov"} -> <<IF st.n <= k.n THEN NullKey ELSE Over[st.cxy, st.n - k.n]>>
    [] k.fn \in Shapes ->
         <<IF st.n = 0 \/ (~k.bias /\ st.n < (IF k.fn = "skew" THEN 3 ELSE 4)) THEN NullKey
           ELSE <<st.n, st.m2, st.m3, IF k.fn = "skew" THEN 0 ELSE st.m4>>>>
    [] k.fn = "is_sorted" -> <<st.ok>>
    [] k.fn \in Holding -> <<IF st = <<>> /\ k.fn \in {"top_k", "bottom_k"} THEN NullKey
                             ELSE [i \in DOMAIN st |-> st[i].val]>>
    [] k.fn = "quantile" -> <<IF st = <<>> THEN NullKey ELSE QuantileOf(k, st)>>
    [] k.fn = "spearman" -> <<Spearman(st)>>

-----------------------------------------------------------------------------
(* The aggregates that keep rows of all groups together, or look at a      *)
(* batch as a whole.                                                       *)
Placed == {"first", "last", "item"}
Bys    == {"min_by", "max_by"}
Args   == {"arg_min", "arg_max"}
Narrow(k) == k.fn \in Totals /\ k.narrow

Each(x) == [g \in Slots |-> x]

NoRows == [parts |-> <<>>, at |-> Each(0), live |-> 0, dead |-> 0, n |-> Each(0), kept |-> Each(0)]

Fresh(k) ==
  CASE Narrow(k) -> [s |-> Each(0), i |-> Each(0), n |-> Each(0), pend |-> 0]
    [] k.fn \in Placed \union Bys -> NoRows
    [] k.fn \in Args -> [n |-> Each(0), best |-> Each(0), has |-> Each(FALSE), kept |-> Each(0)]
    [] k.fn = "implode" -> [parts |-> <<>>, rows |-> Each(<<>>)]
    [] k.fn = "n_unique" -> [tab |-> {}, counts |-> Each(0)]
    [] k.fn = "mode" -> [nums |-> <<>>, rows |-> <<>>, seen |-> 0]
    [] OTHER -> Each(Nothing(k))

(* Sums of small integers are added in a word, at most NarrowFold rows     *)
(* before the words are folded into the exact sums.                        *)
FoldWords(a) == [a EXCEPT !.i = [g \in Slots |-> a.i[g] + a.s[g]], !.s = Each(0), !.pend = 0]

RECURSIVE AddWords(_, _)
AddWords(a, batch) ==
  LET part == SubSeq(batch, 1, IF Len(batch) > NarrowFold THEN NarrowFold ELSE Len(batch))
      room == IF a.pend + Len(part) > NarrowFold THEN FoldWords(a) ELSE a
      Add(b, r) == IF r.val = NullKey THEN b
                   ELSE [b EXCEPT !.s[r.g] = Wrap(@ + r.val), !.n[r.g] = @ + 1]
  IN IF batch = <<>> THEN a
     ELSE AddWords(FoldLeft(Add, [room EXCEPT !.pend = @ + Len(part)], part),
                   SubSeq(batch, Len(part) + 1, Len(batch)))

(* Rows gathered of batches, each group pointing at one; and the rows no   *)
(* group points at let go once they are many.                              *)
Compact(a) ==
  LET sel == SelectSeq([g \in Slots |-> g], LAMBDA g : a.at[g] # 0)
  IN [a EXCEPT !.parts = [j \in DOMAIN sel |-> a.parts[a.at[sel[j]]]],
               !.at = [g \in Slots |-> IF a.at[g] = 0 THEN 0
                                       ELSE CHOOSE j \in DOMAIN sel : sel[j] = g],
               !.dead = 0]

Place(a, picks) ==
  LET base  == Len(a.parts)
      fresh == Cardinality({j \in DOMAIN picks : a.at[picks[j].g] = 0})
      Of(g) == {j \in DOMAIN picks : picks[j].g = g}
      b == [a EXCEPT !.parts = @ \o [j \in DOMAIN picks |-> picks[j].val],
                     !.at = [g \in Slots |-> IF Of(g) = {} THEN @[g]
                                             ELSE base + CHOOSE j \in Of(g) : TRUE],
                     !.live = @ + fresh, !.dead = @ + (Len(picks) - fresh)]
  IN IF b.dead > MaxDead /\ b.dead > 2 * b.live THEN Compact(b) ELSE b

FirstOfEach(rows) ==
  LET firsts == {i \in DOMAIN rows : \A j \in 1..(i - 1) : rows[j].g # rows[i].g}
  IN [n \in 1..Cardinality(firsts) |->
        rows[CHOOSE i \in firsts : Cardinality({j \in firsts : j <= i}) = n]]

AddPlaced(k, a, batch) ==
  LET c == [a EXCEPT !.n = [g \in Slots |-> @[g] + Cardinality({i \in DOMAIN batch : batch[i].g = g})]]
  IN IF k.fn = "last" THEN Place(c, FirstOfEach(Reverse(batch)))
     ELSE Place(c, FirstOfEach(SelectSeq(batch, LAMBDA r : a.at[r.g] = 0)))

(* The best row of each group of a batch, the earlier of two alike; which  *)
(* then takes the place of the one kept if it is better.                   *)
Beats(k, x, y) ==
  IF k.fn \in {"max_by", "arg_max"} THEN OrderKey(x) > OrderKey(y) ELSE OrderKey(x) < OrderKey(y)

Candidates(k, rows) ==
  LET seen == FirstOfEach(rows)
      Best(g) == FoldLeft(LAMBDA c, r : IF r.g = g /\ Beats(k, r.by, c.by) THEN r ELSE c,
                          CHOOSE r \in ToSet(seen) : r.g = g, rows)
  IN [n \in DOMAIN seen |-> Best(seen[n].g)]

Keep(a, picks) ==
  [a EXCEPT !.kept = [g \in Slots |-> IF \E r \in ToSet(picks) : r.g = g
                                      THEN (CHOOSE r \in ToSet(picks) : r.g = g).by ELSE @[g]]]

AddBy(k, a, batch) ==
  LET rows  == SelectSeq(batch, LAMBDA r : r.by # NullKey)
      picks == SelectSeq(Candidates(k, rows),
                         LAMBDA r : a.at[r.g] = 0 \/ Beats(k, r.by, a.kept[r.g]))
  IN Place(Keep(a, picks), picks)

(* The place of the best value in its group, nulls counted.                *)
AddArg(k, a, batch) ==
  LET Pos(i) == a.n[batch[i].g] + Cardinality({j \in 1..(i - 1) : batch[j].g = batch[i].g})
      rows  == [i \in DOMAIN batch |-> [g |-> batch[i].g, by |-> batch[i].val, pos |-> Pos(i)]]
      best  == Candidates(k, SelectSeq(rows, LAMBDA r : r.by # NullKey))
      picks == SelectSeq(best, LAMBDA r : ~a.has[r.g] \/ Beats(k, r.by, a.kept[r.g]))
      Pick(g) == CHOOSE r \in ToSet(picks) : r.g = g
      Picked(g) == \E r \in ToSet(picks) : r.g = g
  IN [Keep(a, picks) EXCEPT
        !.n = [g \in Slots |-> @[g] + Cardinality({i \in DOMAIN batch : batch[i].g = g})],
        !.best = [g \in Slots |-> IF Picked(g) THEN Pick(g).pos ELSE @[g]],
        !.has = [g \in Slots |-> @[g] \/ Picked(g)]]

AddImplode(a, batch) ==
  [parts |-> a.parts \o [i \in DOMAIN batch |-> batch[i].val],
   rows |-> [g \in Slots |->
               a.rows[g] \o SelectSeq([i \in DOMAIN batch |-> Len(a.parts) + i],
                                      LAMBDA i : batch[i - Len(a.parts)].g = g)]]

(* The pairs of a group and a value, each once.                            *)
AddUnique(a, pairs) ==
  [tab |-> a.tab \union pairs,
   counts |-> [g \in Slots |-> a.counts[g] + Cardinality({p \in pairs \ a.tab : p[1] = g})]]

(* The rows of a mode, each with its value's number: a value is numbered   *)
(* when it is first met, null with the others.                             *)
ValueKey(v) == IF v = NullKey THEN v ELSE OrderKey(v)
Number(nums, key) == CHOOSE n \in DOMAIN nums : nums[n] = key
Numbered(nums, keys) ==
  FoldLeft(LAMBDA ns, key : IF key \in ToSet(ns) THEN ns ELSE Append(ns, key), nums, keys)

AddMode(a, batch) ==
  LET nums == Numbered(a.nums, [i \in DOMAIN batch |-> ValueKey(batch[i].val)])
  IN [a EXCEPT !.nums = nums,
               !.rows = @ \o [i \in DOMAIN batch |->
                                [g |-> batch[i].g, bits |-> batch[i].val,
                                 vid |-> Number(nums, ValueKey(batch[i].val))]]]

AddBatch(k, a, batch) ==
  CASE Narrow(k)          -> AddWords(a, batch)
    [] k.fn \in Placed    -> AddPlaced(k, a, batch)
    [] k.fn \in Bys       -> AddBy(k, a, batch)
    [] k.fn \in Args      -> AddArg(k, a, batch)
    [] k.fn = "implode"   -> AddImplode(a, batch)
    [] k.fn = "n_unique"  -> AddUnique(a, {<<r.g, r.val>> : r \in {x \in ToSet(batch) : x.val # NullKey}})
    [] k.fn = "mode"      -> AddMode(a, batch)
    [] OTHER -> FoldLeft(LAMBDA b, r : [b EXCEPT ![r.g] = Enter(k, @, r)], a, batch)

(* Without keys, a batch is of one group: small integers go to the exact   *)
(* sum, and one row is gathered.  What else takes a batch whole counts and *)
(* folds it as it would each row.                                          *)
TakesWhole(k) == Narrow(k) \/ k.fn \in {"first", "last"}

AddAll(k, a, batch) ==
  LET there == SelectSeq(batch, LAMBDA r : r.val # NullKey) IN
  CASE Narrow(k) -> [a EXCEPT !.i[1] = @ + Total([i \in DOMAIN there |-> there[i].val]),
                              !.n[1] = @ + Len(there)]
    [] OTHER -> IF batch = <<>> \/ (k.fn = "first" /\ a.at[1] # 0) THEN a
                ELSE Place(a, <<batch[IF k.fn = "last" THEN Len(batch) ELSE 1]>>)

-----------------------------------------------------------------------------
(* The other's groups that go somewhere are merged there, its rows taken   *)
(* to be those after; rows gathered are adopted whole, and a group's place *)
(* among them moves by as many as there were.                              *)
Shared(a, o, remap, g) == a.at[g] # 0 /\ Goes(remap, g) /\ o.at[Source(remap, g)] # 0

AdoptRows(a, o, remap, takes) ==
  [a EXCEPT !.parts = @ \o o.parts,
            !.at = [g \in Slots |-> IF g \in takes THEN Len(a.parts) + o.at[Source(remap, g)] ELSE @[g]],
            !.live = @ + Cardinality({g \in takes : a.at[g] = 0}),
            !.dead = @ + o.dead + Cardinality({g \in Slots : Shared(a, o, remap, g)})]

MergePlaced(k, a, o, remap) ==
  LET has == {g \in Slots : Goes(remap, g) /\ o.at[Source(remap, g)] # 0}
      m   == AdoptRows(a, o, remap, IF k.fn = "last" THEN has ELSE {g \in has : a.at[g] = 0})
  IN [m EXCEPT !.n = [g \in Slots |-> IF Goes(remap, g) THEN @[g] + o.n[Source(remap, g)] ELSE @[g]]]

MergeBy(k, a, o, remap) ==
  LET takes == {g \in Slots : /\ Goes(remap, g) /\ o.at[Source(remap, g)] # 0
                              /\ a.at[g] = 0 \/ Beats(k, o.kept[Source(remap, g)], a.kept[g])}
  IN [AdoptRows(a, o, remap, takes) EXCEPT
        !.kept = [g \in Slots |-> IF g \in takes THEN o.kept[Source(remap, g)] ELSE @[g]]]

MergeArg(k, a, o, remap) ==
  LET takes == {g \in Slots : /\ Goes(remap, g) /\ o.has[Source(remap, g)]
                              /\ ~a.has[g] \/ Beats(k, o.kept[Source(remap, g)], a.kept[g])}
  IN [n    |-> [g \in Slots |-> a.n[g] + IF Goes(remap, g) THEN o.n[Source(remap, g)] ELSE 0],
      best |-> [g \in Slots |-> IF g \in takes THEN a.n[g] + o.best[Source(remap, g)] ELSE a.best[g]],
      has  |-> [g \in Slots |-> a.has[g] \/ g \in takes],
      kept |-> [g \in Slots |-> IF g \in takes THEN o.kept[Source(remap, g)] ELSE a.kept[g]]]

MergeImplode(a, o, remap) ==
  [parts |-> a.parts \o o.parts,
   rows |-> [g \in Slots |->
               IF ~Goes(remap, g) THEN a.rows[g]
               ELSE LET rows == o.rows[Source(remap, g)]
                    IN a.rows[g] \o [i \in DOMAIN rows |-> Len(a.parts) + rows[i]]]]

MergeMode(a, o, remap) ==
  LET nums == Numbered(a.nums, o.nums)
      rows == SelectSeq(o.rows, LAMBDA r : r.g \in DOMAIN remap)
  IN [a EXCEPT !.nums = nums,
               !.rows = @ \o [i \in DOMAIN rows |->
                                [g |-> remap[rows[i].g], bits |-> rows[i].bits,
                                 vid |-> Number(nums, o.nums[rows[i].vid])]]]

(* The other's words are added to the exact sums, as they are not folded.  *)
MergeWords(a, o, remap) ==
  LET From(f, g) == IF Goes(remap, g) THEN f[Source(remap, g)] ELSE 0
  IN [a EXCEPT !.i = [g \in Slots |-> @[g] + From(o.i, g) + From(o.s, g)],
               !.n = [g \in Slots |-> @[g] + From(o.n, g)]]

Merge(k, a, o, remap) ==
  CASE Narrow(k)         -> MergeWords(a, o, remap)
    [] k.fn \in Placed   -> MergePlaced(k, a, o, remap)
    [] k.fn \in Bys      -> MergeBy(k, a, o, remap)
    [] k.fn \in Args     -> MergeArg(k, a, o, remap)
    [] k.fn = "implode"  -> MergeImplode(a, o, remap)
    [] k.fn = "n_unique" -> AddUnique(a, {<<remap[p[1]], p[2]>> : p \in {x \in o.tab : x[1] \in DOMAIN remap}})
    [] k.fn = "mode"     -> MergeMode(a, o, remap)
    [] OTHER -> [g \in Slots |-> IF Goes(remap, g) THEN Join(k, a[g], o[Source(remap, g)]) ELSE a[g]]

-----------------------------------------------------------------------------
(* A group's values in the order they are first met, with how often.       *)
Counted(a, g) ==
  LET rows   == {i \in DOMAIN a.rows : a.rows[i].g = g}
      Alike(i) == {j \in rows : a.rows[j].vid = a.rows[i].vid}
      firsts == {i \in rows : \A j \in Alike(i) : i <= j}
  IN [n \in 1..Cardinality(firsts) |->
        LET i == CHOOSE x \in firsts : Cardinality({y \in firsts : y <= x}) = n
        IN [key |-> a.nums[a.rows[i].vid], val |-> a.rows[i].bits, first |-> i,
            rows |-> Cardinality(Alike(i))]]

KeyLess(x, y) == IF NullKey \in {x, y} THEN x = NullKey /\ y # NullKey ELSE x < y

(* Values in order, null first, unless the order they were met in is kept. *)
Listed(k, modes) ==
  LET s == SortSeq(modes, LAMBDA x, y : IF k.maintain THEN x.first < y.first
                                        ELSE KeyLess(ValueKey(x.val), ValueKey(y.val)))
  IN [i \in DOMAIN s |-> s[i].val]

Modes(k, a, g) ==
  LET counts == Counted(a, g)
      Most(c) == \A d \in ToSet(counts) : d.rows <= c.rows
  IN Listed(k, SelectSeq(counts, Most))

(* The answer of each of the first n groups, <<>> where there is none.     *)
Answered(k, a, g) ==
  CASE Narrow(k) -> LET f == FoldWords(a) IN ToldTotal(k, [i |-> f.i[g], carry |-> 0, n |-> f.n[g]])
    [] k.fn = "item" /\ a.n[g] # 1 -> IF a.n[g] = 0 /\ k.allowEmpty THEN <<NullKey>> ELSE <<>>
    [] k.fn \in {"first", "last"} \union Bys \/ (k.fn = "item" /\ a.n[g] = 1) ->
         <<IF a.at[g] = 0 THEN NullKey ELSE a.parts[a.at[g]]>>
    [] k.fn \in Args    -> <<IF a.has[g] THEN a.best[g] ELSE NullKey>>
    [] k.fn = "implode" -> <<[i \in DOMAIN a.rows[g] |-> a.parts[a.rows[g][i]]]>>
    [] k.fn = "n_unique" -> <<a.counts[g]>>
    [] k.fn = "mode"    -> <<Modes(k, a, g)>>
    [] OTHER -> Told(k, a[g])

Finish(k, a, n) == [g \in 1..n |-> Answered(k, a, g)]
=============================================================================
