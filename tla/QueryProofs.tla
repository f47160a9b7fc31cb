---------------------------- MODULE QueryProofs ----------------------------
(***************************************************************************)
(* Proofs about two things a query's operators share.                      *)
(*                                                                         *)
(* Ledger, for any set of operators and any set of allocations: every      *)
(* reference is counted, every view is covered, and the totals are the     *)
(* sums of what the accounts hold.                                         *)
(*                                                                         *)
(* SharedResult, for any number of sites, any subplan and any budget:      *)
(* every site is given the subplan's batches in their order, and the last  *)
(* to close, and only it, releases them.                                   *)
(***************************************************************************)
EXTENDS Ledger, SharedResult, FoldFacts, FiniteSetTheorems, TLAPS

-----------------------------------------------------------------------------
(* The ledger's inductive invariant.                                       *)

(* What an account holds it holds by a view, and a Release gives up only   *)
(* what its account holds.                                                 *)
GivesUpItsOwn == \A a \in Accounts : released[a] \subseteq Holds(a)

LInv ==
  /\ TypeOK
  /\ GivesUpItsOwn
  /\ RefsExact
  /\ SpanCoversHolders

-----------------------------------------------------------------------------
(* Lemmas.                                                                 *)

(* Accounts are few, so those that hold an allocation can be counted.      *)
LEMMA HoldersFinite == ASSUME NEW id \in Ids PROVE IsFiniteSet(Holders(id))
<1>1. IsFiniteSet(Accounts)
  BY LedgerAssumption, FS_Singleton, FS_Union DEF Accounts
<1>. QED BY <1>1, FS_Subset DEF Holders

(* A view is one a column may have, and no view is none.                   *)
LEMMA SpanFacts ==
  ASSUME NEW s \in Spans, NEW t \in Spans
  PROVE  /\ s # NoSpan /\ With(s, t) \in Spans
         /\ s.lo \in Int /\ s.hi \in Int /\ Size(s) \in Nat
         /\ Covers(s, s) /\ Covers(With(s, t), s) /\ Covers(With(s, t), t)
         /\ \A u \in Spans \union {NoSpan} : Covers(s, u) => Covers(With(s, t), u)
BY LedgerAssumption DEF NoSpan, With, Covers, Size

(* One more holder, and one less, as the entry counts them.                *)
LEMMA CountJoin ==
  ASSUME NEW H, IsFiniteSet(H), NEW a, a \notin H
  PROVE  /\ Cardinality(H \union {a}) = Cardinality(H) + 1
         /\ Cardinality((H \union {a}) \intersect {Collect})
              = Cardinality(H \intersect {Collect}) + IF IsResult(a) THEN 1 ELSE 0
         /\ Cardinality(H) \in Nat /\ Cardinality(H \intersect {Collect}) \in Nat
<1>1. IsFiniteSet(H \intersect {Collect})
  BY FS_Subset
<1>2. Cardinality(H) \in Nat /\ Cardinality(H \intersect {Collect}) \in Nat
  BY <1>1, FS_CardinalityType
<1>3. Cardinality(H \union {a}) = Cardinality(H) + 1
  BY FS_AddElement
<1>4. CASE a = Collect
  <2>1. (H \union {a}) \intersect {Collect} = {Collect} /\ H \intersect {Collect} = {}
    BY <1>4
  <2>2. Cardinality({Collect}) = 1 /\ Cardinality({}) = 0
    BY FS_EmptySet, FS_Singleton
  <2>. QED BY <1>2, <1>3, <1>4, <2>1, <2>2 DEF IsResult
<1>5. CASE a # Collect
  <2>1. (H \union {a}) \intersect {Collect} = H \intersect {Collect}
    BY <1>5
  <2>. QED BY <1>2, <1>3, <1>5, <2>1 DEF IsResult
<1>. QED BY <1>4, <1>5

(* The same of one that lets go.                                           *)
LEMMA CountLeave ==
  ASSUME NEW H, IsFiniteSet(H), NEW a \in H
  PROVE  /\ Cardinality(H \ {a}) = Cardinality(H) - 1
         /\ Cardinality((H \ {a}) \intersect {Collect})
              = Cardinality(H \intersect {Collect}) - IF IsResult(a) THEN 1 ELSE 0
         /\ Cardinality(H \ {a}) \in Nat /\ Cardinality((H \ {a}) \intersect {Collect}) \in Nat
         /\ Cardinality(H) = 1 => H \ {a} = {}
<1>1. IsFiniteSet(H \ {a}) /\ a \notin H \ {a} /\ (H \ {a}) \union {a} = H
  BY FS_RemoveElement
<1>2. /\ Cardinality(H) = Cardinality(H \ {a}) + 1
      /\ Cardinality(H \intersect {Collect})
           = Cardinality((H \ {a}) \intersect {Collect}) + IF IsResult(a) THEN 1 ELSE 0
      /\ Cardinality(H \ {a}) \in Nat /\ Cardinality((H \ {a}) \intersect {Collect}) \in Nat
  BY <1>1, CountJoin
<1>3. Cardinality(H) = 1 => H \ {a} = {}
  BY <1>1, <1>2, FS_EmptySet
<1>. QED BY <1>2, <1>3

(* The totals are numbers.                                                 *)
LEMMA CountedType ==
  ASSUME NEW e \in [span : Spans \union {NoSpan}, refs : Nat, kept : Nat]
  PROVE  CountedOps(e) \in Nat /\ CountedKept(e) \in Nat
<1>1. Size(e.span) \in Nat
  BY LedgerAssumption DEF Size, NoSpan
<1>. QED BY <1>1 DEF CountedOps, CountedKept

(* An entry changed with its totals keeps their types.                     *)
LEMMA MoveType ==
  ASSUME TypeOK, NEW id \in Ids,
         NEW e \in [span : Spans \union {NoSpan}, refs : Nat, kept : Nat], Move(id, e)
  PROVE  /\ held' \in [Ids -> [span : Spans \union {NoSpan}, refs : Nat, kept : Nat]]
         /\ total' \in Int /\ kept' \in Int /\ peak' \in Nat
         /\ held'[id] = e /\ \A x \in Ids : x # id => held'[x] = held[x]
<1>1. CountedOps(e) \in Nat /\ CountedKept(e) \in Nat
  BY CountedType
<1>2. CountedOps(held[id]) \in Nat /\ CountedKept(held[id]) \in Nat
  <2>1. held[id] \in [span : Spans \union {NoSpan}, refs : Nat, kept : Nat]
    BY DEF TypeOK
  <2>. QED BY <2>1, CountedType
<1>3. total' \in Int /\ kept' \in Int
  BY <1>1, <1>2 DEF Move, TypeOK
<1>4. peak' \in Nat
  BY <1>3 DEF Move, TypeOK, Larger
<1>. QED BY <1>3, <1>4 DEF Move, TypeOK

-----------------------------------------------------------------------------
(* Every step keeps the invariant.                                         *)

(* No account holds anything at first.                                     *)
LEMMA InitLInv == LedgerInit => LInv
<1>. SUFFICES ASSUME LedgerInit PROVE LInv
  OBVIOUS
<1>1. TypeOK
  BY DEF LedgerInit, TypeOK, NoEntry
<1>2. \A id \in Ids : Holders(id) = {}
  BY DEF LedgerInit, Holders, Holds
<1>3. RefsExact
  <2>. SUFFICES ASSUME NEW id \in Ids
       PROVE  /\ held[id].refs = Cardinality(Holders(id))
              /\ held[id].kept = Cardinality(Holders(id) \intersect {Collect})
    BY DEF RefsExact
  <2>1. Holders(id) = {} /\ Holders(id) \intersect {Collect} = {}
    BY <1>2
  <2>. QED BY <2>1, FS_EmptySet DEF LedgerInit, NoEntry
<1>. QED BY <1>1, <1>2, <1>3 DEF LInv, GivesUpItsOwn, SpanCoversHolders, LedgerInit

(* One more account holds an allocation.                                   *)
LEMMA RetainNewInv ==
  ASSUME LInv, NEW a \in Accounts, NEW id \in Ids, NEW sp \in Spans, RetainNew(a, id, sp)
  PROVE  LInv'
<1>. USE DEF LInv
<1> DEFINE e == [span |-> IF held[id].refs = 0 THEN sp ELSE With(held[id].span, sp),
                 refs |-> held[id].refs + 1,
                 kept |-> held[id].kept + IF IsResult(a) THEN 1 ELSE 0]
<1>1. /\ a \notin Holders(id) /\ IsFiniteSet(Holders(id))
      /\ held[id].refs = Cardinality(Holders(id))
      /\ held[id].kept = Cardinality(Holders(id) \intersect {Collect})
      /\ held[id] \in [span : Spans \union {NoSpan}, refs : Nat, kept : Nat]
  BY HoldersFinite DEF RetainNew, Holders, RefsExact, TypeOK
<1>2. held[id].refs # 0 => held[id].span \in Spans
  <2>1. ASSUME held[id].refs # 0 PROVE \E b \in Accounts : b \in Holders(id)
    BY <1>1, <2>1, FS_EmptySet DEF Holders
  <2>2. ASSUME NEW b \in Holders(id) PROVE held[id].span # NoSpan
    <3>1. ids[b][id] \in Spans
      BY <2>2 DEF Holders, Holds, TypeOK
    <3>. QED BY <2>2, <3>1, LedgerAssumption DEF SpanCoversHolders, Covers, NoSpan
  <2>. QED BY <1>1, <2>1, <2>2
<1>3. e \in [span : Spans \union {NoSpan}, refs : Nat, kept : Nat]
  BY <1>1, <1>2, SpanFacts
<1>4. Move(id, e)
  BY DEF RetainNew, RetainEntry
<1>5. /\ held' \in [Ids -> [span : Spans \union {NoSpan}, refs : Nat, kept : Nat]]
      /\ total' \in Int /\ kept' \in Int /\ peak' \in Nat
      /\ held'[id] = e /\ \A x \in Ids : x # id => held'[x] = held[x]
  BY <1>3, <1>4, MoveType
<1>6. /\ ids'[a][id] = sp /\ sp # NoSpan
      /\ \A b \in Accounts : \A x \in Ids : b # a \/ x # id => ids'[b][x] = ids[b][x]
      /\ ids' \in [Accounts -> [Ids -> Spans \union {NoSpan}]]
  BY SpanFacts DEF RetainNew, TypeOK
<1>7. TypeOK'
  <2>1. used' \in [Accounts -> Int]
    <3>1. Size(sp) \in Nat
      BY SpanFacts
    <3>. QED BY <3>1 DEF RetainNew, TypeOK
  <2>. QED BY <1>5, <1>6, <2>1 DEF RetainNew, TypeOK
<1>8. GivesUpItsOwn'
  BY <1>6 DEF GivesUpItsOwn, Holds, RetainNew
<1>9. /\ Holders(id)' = Holders(id) \union {a}
      /\ \A x \in Ids : x # id => Holders(x)' = Holders(x)
  BY <1>6 DEF Holders, Holds, RetainNew, Open
<1>10. RefsExact'
  <2>1. /\ e.refs = Cardinality(Holders(id) \union {a})
        /\ e.kept = Cardinality((Holders(id) \union {a}) \intersect {Collect})
    BY <1>1, CountJoin
  <2>. QED BY <1>5, <1>9, <2>1 DEF RefsExact
<1>11. SpanCoversHolders'
  <2>1. ASSUME NEW x \in Ids, x # id, NEW b \in Holders(x)' PROVE Covers(held'[x].span, ids'[b][x])
    BY <1>5, <1>6, <1>9, <2>1 DEF SpanCoversHolders, Holders
  <2>2. ASSUME NEW b \in Holders(id)' PROVE Covers(held'[id].span, ids'[b][id])
    <3>1. CASE b = a
      <4>1. Covers(e.span, sp)
        <5>1. CASE held[id].refs = 0
          BY <5>1, SpanFacts
        <5>2. CASE held[id].refs # 0
          BY <1>2, <5>2, SpanFacts
        <5>. QED BY <5>1, <5>2
      <4>. QED BY <1>5, <1>6, <3>1, <4>1
    <3>2. CASE b # a
      <4>1. b \in Holders(id) /\ b \in Accounts
        BY <1>9, <3>2 DEF Holders
      <4>2. Covers(held[id].span, ids[b][id]) /\ held[id].refs # 0
        BY <1>1, <4>1, FS_EmptySet DEF SpanCoversHolders
      <4>3. ids[b][id] \in Spans \union {NoSpan}
        BY <4>1 DEF TypeOK
      <4>. QED BY <1>2, <1>5, <1>6, <3>2, <4>1, <4>2, <4>3, SpanFacts
    <3>. QED BY <3>1, <3>2
  <2>. QED BY <2>1, <2>2 DEF SpanCoversHolders
<1>. QED BY <1>7, <1>8, <1>10, <1>11


(* An account's view of an allocation it holds widens.                     *)
LEMMA RetainWiderInv ==
  ASSUME LInv, NEW a \in Accounts, NEW id \in Ids, NEW sp \in Spans, RetainWider(a, id, sp)
  PROVE  LInv'
<1>. USE DEF LInv
<1> DEFINE u == With(ids[a][id], sp)
           e == [held[id] EXCEPT !.span = With(@, u)]
<1>1. /\ a \in Holders(id) /\ ids[a][id] \in Spans /\ u \in Spans
      /\ held[id] \in [span : Spans \union {NoSpan}, refs : Nat, kept : Nat]
  BY SpanFacts DEF RetainWider, Holders, Holds, Open, TypeOK
<1>2. held[id].span \in Spans
  BY <1>1, LedgerAssumption DEF SpanCoversHolders, Covers, NoSpan
<1>3. /\ e \in [span : Spans \union {NoSpan}, refs : Nat, kept : Nat]
      /\ e.span = With(held[id].span, u) /\ e.refs = held[id].refs /\ e.kept = held[id].kept
  BY <1>1, <1>2, SpanFacts
<1>4. Move(id, e)
  BY DEF RetainWider
<1>5. /\ held' \in [Ids -> [span : Spans \union {NoSpan}, refs : Nat, kept : Nat]]
      /\ total' \in Int /\ kept' \in Int /\ peak' \in Nat
      /\ held'[id] = e /\ \A x \in Ids : x # id => held'[x] = held[x]
  BY <1>3, <1>4, MoveType
<1>6. /\ ids'[a][id] = u /\ u # NoSpan
      /\ \A b \in Accounts : \A x \in Ids : b # a \/ x # id => ids'[b][x] = ids[b][x]
      /\ ids' \in [Accounts -> [Ids -> Spans \union {NoSpan}]]
  BY <1>1, SpanFacts DEF RetainWider, TypeOK
<1>7. TypeOK'
  <2>1. used' \in [Accounts -> Int]
    <3>1. Size(u) \in Nat /\ Size(ids[a][id]) \in Nat
      BY <1>1, SpanFacts
    <3>. QED BY <3>1 DEF RetainWider, TypeOK
  <2>. QED BY <1>5, <1>6, <2>1 DEF RetainWider, TypeOK
<1>8. GivesUpItsOwn'
  BY <1>6 DEF GivesUpItsOwn, Holds, RetainWider
<1>9. \A x \in Ids : Holders(x)' = Holders(x)
  BY <1>1, <1>6 DEF Holders, Holds, RetainWider, Open
<1>10. RefsExact'
  BY <1>3, <1>5, <1>9 DEF RefsExact
<1>11. SpanCoversHolders'
  <2>1. ASSUME NEW x \in Ids, x # id, NEW b \in Holders(x)' PROVE Covers(held'[x].span, ids'[b][x])
    BY <1>5, <1>6, <1>9, <2>1 DEF SpanCoversHolders, Holders
  <2>2. ASSUME NEW b \in Holders(id)' PROVE Covers(held'[id].span, ids'[b][id])
    <3>1. CASE b = a
      BY <1>1, <1>2, <1>3, <1>5, <1>6, <3>1, SpanFacts
    <3>2. CASE b # a
      <4>1. b \in Holders(id) /\ b \in Accounts
        BY <1>9 DEF Holders
      <4>2. Covers(held[id].span, ids[b][id]) /\ ids[b][id] \in Spans \union {NoSpan}
        BY <4>1 DEF SpanCoversHolders, TypeOK
      <4>. QED BY <1>1, <1>2, <1>3, <1>5, <1>6, <3>2, <4>1, <4>2, SpanFacts
    <3>. QED BY <3>1, <3>2
  <2>. QED BY <2>1, <2>2 DEF SpanCoversHolders
<1>. QED BY <1>7, <1>8, <1>10, <1>11

(* An account lets go of an allocation.                                    *)
LEMMA ReleaseOneInv ==
  ASSUME LInv, NEW a \in Accounts, NEW id \in Ids, ReleaseOne(a, id)
  PROVE  LInv'
<1>. USE DEF LInv
<1> DEFINE e == IF held[id].refs - 1 <= 0
                THEN NoEntry
                ELSE [span |-> held[id].span,
                      refs |-> held[id].refs - 1,
                      kept |-> held[id].kept - IF IsResult(a) THEN 1 ELSE 0]
           H == Holders(id)
<1>1. /\ a \in H /\ IsFiniteSet(H)
      /\ held[id].refs = Cardinality(H)
      /\ held[id].kept = Cardinality(H \intersect {Collect})
      /\ held[id] \in [span : Spans \union {NoSpan}, refs : Nat, kept : Nat]
  BY HoldersFinite DEF ReleaseOne, Holders, RefsExact, TypeOK
<1>2. /\ Cardinality(H \ {a}) = held[id].refs - 1
      /\ Cardinality((H \ {a}) \intersect {Collect}) = held[id].kept - IF IsResult(a) THEN 1 ELSE 0
      /\ Cardinality(H \ {a}) \in Nat /\ Cardinality((H \ {a}) \intersect {Collect}) \in Nat
      /\ held[id].refs = 1 => H \ {a} = {}
  <2>1. /\ Cardinality(H \ {a}) = Cardinality(H) - 1
        /\ Cardinality((H \ {a}) \intersect {Collect})
             = Cardinality(H \intersect {Collect}) - IF IsResult(a) THEN 1 ELSE 0
        /\ Cardinality(H \ {a}) \in Nat /\ Cardinality((H \ {a}) \intersect {Collect}) \in Nat
        /\ Cardinality(H) = 1 => H \ {a} = {}
    <3> HIDE DEF LInv, H, e
    <3>. QED BY <1>1, CountLeave
  <2>. QED BY <1>1, <2>1
<1>3. /\ e.refs = Cardinality(H \ {a})
      /\ e.kept = Cardinality((H \ {a}) \intersect {Collect})
      /\ H \ {a} # {} => e.span = held[id].span
      /\ e \in [span : Spans \union {NoSpan}, refs : Nat, kept : Nat]
  <2>1. CASE held[id].refs - 1 <= 0
    <3>1. H \ {a} = {} /\ (H \ {a}) \intersect {Collect} = {}
      BY <1>1, <1>2, <2>1
    <3>. QED BY <2>1, <3>1, FS_EmptySet DEF NoEntry
  <2>2. CASE ~(held[id].refs - 1 <= 0)
    BY <1>1, <1>2, <2>2
  <2>. QED BY <2>1, <2>2
<1>4. Move(id, e)
  BY DEF ReleaseOne, ReleaseEntry
<1>5. /\ held' \in [Ids -> [span : Spans \union {NoSpan}, refs : Nat, kept : Nat]]
      /\ total' \in Int /\ kept' \in Int /\ peak' \in Nat
      /\ held'[id] = e /\ \A x \in Ids : x # id => held'[x] = held[x]
  BY <1>3, <1>4, MoveType
<1>6. /\ released' \in [Accounts -> SUBSET Ids]
      /\ released'[a] = released[a] \union {id}
      /\ \A b \in Accounts : b # a => released'[b] = released[b]
      /\ ids' = ids
  BY DEF ReleaseOne, TypeOK
<1>7. TypeOK'
  BY <1>5, <1>6 DEF ReleaseOne, TypeOK
<1>8. GivesUpItsOwn'
  BY <1>6 DEF GivesUpItsOwn, Holds, ReleaseOne
<1>9. /\ Holders(id)' = H \ {a}
      /\ \A x \in Ids : x # id => Holders(x)' = Holders(x)
  BY <1>6 DEF Holders, Holds
<1>10. RefsExact'
  BY <1>3, <1>5, <1>9 DEF RefsExact
<1>11. SpanCoversHolders'
  <2>1. ASSUME NEW x \in Ids, x # id, NEW b \in Holders(x)' PROVE Covers(held'[x].span, ids'[b][x])
    BY <1>5, <1>6, <1>9, <2>1 DEF SpanCoversHolders
  <2>2. ASSUME NEW b \in Holders(id)' PROVE Covers(held'[id].span, ids'[b][id])
    BY <1>3, <1>5, <1>6, <1>9, <2>2 DEF SpanCoversHolders
  <2>. QED BY <2>1, <2>2 DEF SpanCoversHolders
<1>. QED BY <1>7, <1>8, <1>10, <1>11

(* Plain bytes touch no entry.                                             *)
LEMMA AddExtraType ==
  ASSUME TypeOK, NEW a, NEW n \in Int, AddExtra(a, n)
  PROVE  total' \in Int /\ kept' \in Int /\ peak' \in Nat
BY DEF TypeOK, AddExtra, Larger

(* Nor do they change who holds what.                                      *)
LEMMA BytesInv ==
  ASSUME LInv, NEW a \in Accounts, NEW n \in -MaxRaw..MaxRaw, RetainBytes(a, n)
  PROVE  LInv'
<1>. USE DEF LInv
<1>1. UNCHANGED <<ids, released, held>>
  BY DEF RetainBytes
<1>2. n \in Int /\ total' \in Int /\ kept' \in Int /\ peak' \in Nat
  BY AddExtraType, LedgerAssumption DEF RetainBytes
<1>3. raw' \in [Accounts -> Nat] /\ used' \in [Accounts -> Int]
  BY <1>2, LedgerAssumption DEF RetainBytes, TypeOK
<1>4. TypeOK'
  BY <1>1, <1>2, <1>3 DEF TypeOK
<1>. QED BY <1>1, <1>4 DEF GivesUpItsOwn, RefsExact, SpanCoversHolders, Holders, Holds

(* An account whose allocations are all given up forgets them.             *)
LEMMA ReleaseEndInv ==
  ASSUME LInv, NEW a \in Accounts, ReleaseEnd(a)
  PROVE  LInv'
<1>. USE DEF LInv
<1>1. /\ ids' \in [Accounts -> [Ids -> Spans \union {NoSpan}]]
      /\ released' \in [Accounts -> SUBSET Ids]
      /\ \A x \in Ids : ids'[a][x] = NoSpan
      /\ released'[a] = {}
      /\ \A b \in Accounts : b # a => ids'[b] = ids[b] /\ released'[b] = released[b]
      /\ held' = held
  BY DEF ReleaseEnd, TypeOK
<1>2. total' \in Int /\ kept' \in Int /\ peak' \in Nat
  <2>1. -raw[a] \in Int
    BY DEF TypeOK
  <2>. QED BY <2>1, AddExtraType DEF ReleaseEnd
<1>3. TypeOK'
  BY <1>1, <1>2 DEF ReleaseEnd, TypeOK
<1>4. GivesUpItsOwn'
  BY <1>1 DEF GivesUpItsOwn, Holds
<1>5. \A x \in Ids : Holders(x)' = Holders(x)
  BY <1>1 DEF Holders, Holds, ReleaseEnd
<1>6. RefsExact'
  BY <1>1, <1>5 DEF RefsExact
<1>7. SpanCoversHolders'
  <2>. SUFFICES ASSUME NEW x \in Ids, NEW b \in Holders(x) PROVE Covers(held[x].span, ids'[b][x])
    BY <1>1, <1>5 DEF SpanCoversHolders
  <2>1. b # a
    BY DEF Holders, ReleaseEnd
  <2>. QED BY <1>1, <2>1 DEF SpanCoversHolders, Holders
<1>. QED BY <1>3, <1>4, <1>6, <1>7

-----------------------------------------------------------------------------
(* What it all adds up to.                                                 *)

(* The invariant holds of every state of the ledger.                       *)
THEOREM LedgerInvariance == LedgerSpec => []LInv
<1>1. LInv /\ [LedgerNext]_ledgerVars => LInv'
  <2>. SUFFICES ASSUME LInv, [LedgerNext]_ledgerVars PROVE LInv'
    OBVIOUS
  <2>1. CASE LedgerNext
    BY <2>1, RetainNewInv, RetainWiderInv, BytesInv, ReleaseOneInv, ReleaseEndInv DEF LedgerNext
  <2>2. CASE UNCHANGED ledgerVars
    BY <2>2 DEF ledgerVars, LInv, TypeOK, GivesUpItsOwn, RefsExact, SpanCoversHolders, Holders, Holds
  <2>. QED BY <2>1, <2>2
<1>. QED BY InitLInv, <1>1, PTL DEF LedgerSpec

(* No reference is lost or counted twice, however the retains and releases *)
(* of any number of operators interleave.                                  *)
THEOREM RefsAreExact == LedgerSpec => []RefsExact
<1>1. LInv => RefsExact
  BY DEF LInv
<1>. QED BY LedgerInvariance, <1>1, PTL

(* What an operator still has a view of is never counted as less.          *)
THEOREM SpansCover == LedgerSpec => []SpanCoversHolders
<1>1. LInv => SpanCoversHolders
  BY DEF LInv
<1>. QED BY LedgerInvariance, <1>1, PTL

-----------------------------------------------------------------------------
(* The totals.                                                             *)

(* The totals as the code keeps them: each entry is in one of them, by its *)
(* two counts, and an account's figure is its own views'.                  *)
OpsSizes  == [id \in Ids |-> CountedOps(held[id])]
KeptSizes == [id \in Ids |-> CountedKept(held[id])]
ViewSizes(a) == [id \in Ids |-> Size(ids[a][id])]

EntriesExact ==
  /\ total = SumFunctionOnSet(OpsSizes, Ids) + SumFunctionOnSet(raw, Operators)
  /\ kept = SumFunctionOnSet(KeptSizes, Ids) + raw[Collect]
  /\ \A a \in Accounts : used[a] = SumFunctionOnSet(ViewSizes(a), Ids) + raw[a]

(* The peak is no less than the total: what makes a step that leaves the   *)
(* total alone leave the peak alone.                                       *)
PeakCovers == total <= peak

EInv == EntriesExact /\ PeakCovers

(* What the sums are taken of.                                             *)
LEMMA SizesAreNumbers ==
  ASSUME TypeOK
  PROVE  /\ \A id \in Ids : OpsSizes[id] \in Int /\ KeptSizes[id] \in Int
         /\ \A a \in Accounts : \A id \in Ids : ViewSizes(a)[id] \in Int
         /\ \A a \in Accounts : raw[a] \in Int
         /\ SumFunctionOnSet(OpsSizes, Ids) \in Int
         /\ SumFunctionOnSet(KeptSizes, Ids) \in Int
         /\ SumFunctionOnSet(raw, Operators) \in Int
         /\ \A a \in Accounts : SumFunctionOnSet(ViewSizes(a), Ids) \in Int
<1>1. \A id \in Ids : OpsSizes[id] \in Int /\ KeptSizes[id] \in Int
  BY CountedType DEF OpsSizes, KeptSizes, TypeOK
<1>2. ASSUME NEW a \in Accounts, NEW id \in Ids PROVE ViewSizes(a)[id] \in Int
  <2>1. ids[a][id] \in Spans \union {NoSpan}
    BY DEF TypeOK
  <2>2. Size(ids[a][id]) \in Int
    BY <2>1, LedgerAssumption DEF Size, NoSpan
  <2>. QED BY <2>2 DEF ViewSizes
<1>3. \A a \in Accounts : raw[a] \in Int
  BY DEF TypeOK
<1>4. /\ SumFunctionOnSet(OpsSizes, Ids) \in Int
      /\ SumFunctionOnSet(KeptSizes, Ids) \in Int
      /\ \A a \in Accounts : SumFunctionOnSet(ViewSizes(a), Ids) \in Int
  BY <1>1, <1>2, SumIsInteger, LedgerAssumption
<1>5. SumFunctionOnSet(raw, Operators) \in Int
  BY <1>3, SumIsInteger, LedgerAssumption DEF Accounts
<1>. QED BY <1>1, <1>2, <1>3, <1>4, <1>5

(* An entry changed moves both totals as it moves their sums.              *)
LEMMA MoveKeepsEntries ==
  ASSUME TypeOK, TypeOK', NEW id \in Ids, NEW e, Move(id, e), UNCHANGED raw, PeakCovers,
         total = SumFunctionOnSet(OpsSizes, Ids) + SumFunctionOnSet(raw, Operators),
         kept = SumFunctionOnSet(KeptSizes, Ids) + raw[Collect]
  PROVE  /\ total' = SumFunctionOnSet(OpsSizes', Ids) + SumFunctionOnSet(raw', Operators)
         /\ kept' = SumFunctionOnSet(KeptSizes', Ids) + raw'[Collect]
         /\ PeakCovers'
<1>1. held'[id] = e /\ \A x \in Ids : x # id => held'[x] = held[x]
  BY DEF Move, TypeOK
<1>2. /\ OpsSizes'[id] = CountedOps(e) /\ KeptSizes'[id] = CountedKept(e)
      /\ OpsSizes[id] = CountedOps(held[id]) /\ KeptSizes[id] = CountedKept(held[id])
      /\ \A x \in Ids : x # id => OpsSizes'[x] = OpsSizes[x] /\ KeptSizes'[x] = KeptSizes[x]
  BY <1>1 DEF OpsSizes, KeptSizes
<1>3. \A x \in Ids : OpsSizes'[x] \in Int /\ KeptSizes'[x] \in Int
  BY CountedType DEF OpsSizes, KeptSizes, TypeOK
<1>4. \A x \in Ids : OpsSizes[x] \in Int /\ KeptSizes[x] \in Int
  BY SizesAreNumbers
<1>5. /\ SumFunctionOnSet(OpsSizes', Ids)
           = SumFunctionOnSet(OpsSizes, Ids) - OpsSizes[id] + OpsSizes'[id]
      /\ SumFunctionOnSet(KeptSizes', Ids)
           = SumFunctionOnSet(KeptSizes, Ids) - KeptSizes[id] + KeptSizes'[id]
  <2>1. \A x \in Ids : OpsSizes[x] \in Int /\ OpsSizes'[x] \in Int
    BY <1>3, <1>4
  <2>2. \A x \in Ids : x # id => OpsSizes'[x] = OpsSizes[x]
    BY <1>2
  <2>3. \A x \in Ids : KeptSizes[x] \in Int /\ KeptSizes'[x] \in Int
    BY <1>3, <1>4
  <2>4. \A x \in Ids : x # id => KeptSizes'[x] = KeptSizes[x]
    BY <1>2
  <2>5. IsFiniteSet(Ids)
    BY LedgerAssumption
  <2>6. SumFunctionOnSet(OpsSizes', Ids)
          = SumFunctionOnSet(OpsSizes, Ids) - OpsSizes[id] + OpsSizes'[id]
    BY <2>1, <2>2, <2>5, SumChangesByOne
  <2>7. SumFunctionOnSet(KeptSizes', Ids)
          = SumFunctionOnSet(KeptSizes, Ids) - KeptSizes[id] + KeptSizes'[id]
    BY <2>3, <2>4, <2>5, SumChangesByOne
  <2>. QED BY <2>6, <2>7
<1>6. /\ SumFunctionOnSet(OpsSizes, Ids) \in Int /\ SumFunctionOnSet(KeptSizes, Ids) \in Int
      /\ SumFunctionOnSet(raw, Operators) \in Int /\ raw[Collect] \in Int
  BY SizesAreNumbers DEF Accounts
<1>7. /\ total' = total + CountedOps(e) - CountedOps(held[id])
      /\ kept' = kept + CountedKept(e) - CountedKept(held[id])
      /\ peak' = Larger(peak, total') /\ raw' = raw
  BY DEF Move
<1>8. PeakCovers'
  BY <1>7 DEF PeakCovers, Larger, TypeOK
<1>. QED BY <1>2, <1>3, <1>4, <1>5, <1>6, <1>7, <1>8

(* An account's views changed in one allocation move its figure by that.   *)
LEMMA ViewKeepsUsed ==
  ASSUME TypeOK, TypeOK', NEW a \in Accounts, NEW id \in Ids, UNCHANGED raw,
         \A b \in Accounts : \A x \in Ids : b # a \/ x # id => ids'[b][x] = ids[b][x],
         used'[a] = used[a] + Size(ids'[a][id]) - Size(ids[a][id]),
         \A b \in Accounts : b # a => used'[b] = used[b],
         \A b \in Accounts : used[b] = SumFunctionOnSet(ViewSizes(b), Ids) + raw[b]
  PROVE  \A b \in Accounts : used'[b] = SumFunctionOnSet(ViewSizes(b)', Ids) + raw'[b]
<1>1. ASSUME NEW b \in Accounts PROVE used'[b] = SumFunctionOnSet(ViewSizes(b)', Ids) + raw'[b]
  <2>1. /\ \A x \in Ids : ViewSizes(b)[x] \in Int
        /\ SumFunctionOnSet(ViewSizes(b), Ids) \in Int /\ raw[b] \in Int
    BY SizesAreNumbers
  <2>2. \A x \in Ids : ViewSizes(b)[x] \in Int /\ ViewSizes(b)'[x] \in Int
    <3>1. ASSUME NEW x \in Ids PROVE Size(ids'[b][x]) \in Int
      <4>1. ids'[b][x] \in Spans \union {NoSpan}
        BY DEF TypeOK
      <4>. QED BY <4>1, LedgerAssumption DEF Size, NoSpan
    <3>. QED BY <2>1, <3>1 DEF ViewSizes
  <2>a. IsFiniteSet(Ids)
    BY LedgerAssumption
  <2>3. CASE b = a
    <3>1. \A x \in Ids : x # id => ViewSizes(b)'[x] = ViewSizes(b)[x]
      BY DEF ViewSizes
    <3>2. SumFunctionOnSet(ViewSizes(b)', Ids)
            = SumFunctionOnSet(ViewSizes(b), Ids) - ViewSizes(b)[id] + ViewSizes(b)'[id]
      BY <2>a, <2>2, <3>1, SumChangesByOne
    <3>3. ViewSizes(b)[id] = Size(ids[a][id]) /\ ViewSizes(b)'[id] = Size(ids'[a][id])
      BY <2>3 DEF ViewSizes
    <3>4. used'[b] = used[b] + Size(ids'[a][id]) - Size(ids[a][id])
      BY <2>3 DEF TypeOK
    <3>. QED BY <2>1, <2>2, <3>2, <3>3, <3>4
  <2>4. CASE b # a
    <3>1. ViewSizes(b)' = ViewSizes(b) /\ used'[b] = used[b]
      BY <2>4 DEF ViewSizes, TypeOK
    <3>. QED BY <3>1
  <2>. QED BY <2>3, <2>4
<1>. QED BY <1>1

(* Plain bytes move their account's figure and one total.                  *)
LEMMA ExtraKeepsEntries ==
  ASSUME TypeOK, TypeOK', EInv, NEW a \in Accounts, NEW n \in Int, AddExtra(a, n),
         raw'[a] = raw[a] + n, \A b \in Accounts : b # a => raw'[b] = raw[b], UNCHANGED held
  PROVE  /\ total' = SumFunctionOnSet(OpsSizes', Ids) + SumFunctionOnSet(raw', Operators)
         /\ kept' = SumFunctionOnSet(KeptSizes', Ids) + raw'[Collect]
         /\ PeakCovers'
<1>1. OpsSizes' = OpsSizes /\ KeptSizes' = KeptSizes
  BY DEF OpsSizes, KeptSizes
<1>2. /\ raw'[a] = raw[a] + n /\ \A b \in Accounts : b # a => raw'[b] = raw[b]
      /\ \A b \in Accounts : raw[b] \in Int /\ raw'[b] \in Int
  BY DEF TypeOK
<1>3. /\ SumFunctionOnSet(OpsSizes, Ids) \in Int /\ SumFunctionOnSet(KeptSizes, Ids) \in Int
      /\ SumFunctionOnSet(raw, Operators) \in Int
  BY SizesAreNumbers
<1>4. CASE a = Collect
  <2>1. \A b \in Operators : raw'[b] = raw[b] /\ raw[b] \in Int
    BY <1>2, <1>4, LedgerAssumption DEF Accounts
  <2>2. SumFunctionOnSet(raw', Operators) = SumFunctionOnSet(raw, Operators)
    BY <2>1, SumDependsOnValues, LedgerAssumption
  <2>3. kept' = kept + n /\ total' = total /\ peak' = peak
    BY <1>4 DEF AddExtra, IsResult
  <2>. QED BY <1>1, <1>2, <1>3, <1>4, <2>2, <2>3 DEF EInv, EntriesExact, PeakCovers
<1>5. CASE a # Collect
  <2>1. a \in Operators /\ \A b \in Operators : raw[b] \in Int /\ raw'[b] \in Int
    BY <1>2, <1>5 DEF Accounts
  <2>2. SumFunctionOnSet(raw', Operators) = SumFunctionOnSet(raw, Operators) - raw[a] + raw'[a]
    <3>1. IsFiniteSet(Operators) /\ \A b \in Operators : b # a => raw'[b] = raw[b]
      BY <1>2, LedgerAssumption DEF Accounts
    <3>2. a \in Operators
      BY <2>1
    <3>3. \A b \in Operators : raw[b] \in Int /\ raw'[b] \in Int
      BY <2>1
    <3>. QED BY <3>1, <3>2, <3>3, SumChangesByOne
  <2>3. total' = total + n /\ kept' = kept /\ peak' = Larger(peak, total')
    BY <1>5 DEF AddExtra, IsResult
  <2>4. PeakCovers'
    BY <2>3 DEF PeakCovers, Larger, TypeOK
  <2>5. raw'[Collect] = raw[Collect]
    BY <1>2, <1>5 DEF Accounts
  <2>. QED BY <1>1, <1>2, <1>3, <2>2, <2>3, <2>4, <2>5 DEF EInv, EntriesExact
<1>. QED BY <1>4, <1>5

(* Nothing is held at first.                                               *)
LEMMA EntriesInit == LedgerInit => EInv
<1>. SUFFICES ASSUME LedgerInit PROVE EInv
  OBVIOUS
<1>. DEFINE zero(S) == \A f : (\A x \in S : f[x] = 0) => SumFunctionOnSet(f, S) = 0
<1>1. zero(Ids) /\ zero(Operators)
  <2>1. ASSUME NEW S, IsFiniteSet(S), NEW f, \A x \in S : f[x] = 0
        PROVE  SumFunctionOnSet(f, S) = 0
    <3>1. SumFunctionOnSet(f, S) = SumFunctionOnSet(f, {})
      BY <2>1, SumOverPart
    <3>. QED BY <3>1, SumOfNone
  <2>. QED BY <2>1, LedgerAssumption
<1>2. \A id \in Ids : OpsSizes[id] = 0 /\ KeptSizes[id] = 0
  BY DEF LedgerInit, OpsSizes, KeptSizes, CountedOps, CountedKept, NoEntry
<1>3. \A a \in Accounts : \A id \in Ids : ViewSizes(a)[id] = 0
  BY DEF LedgerInit, ViewSizes, Size, NoSpan
<1>4. \A a \in Accounts : raw[a] = 0 /\ used[a] = 0
  BY DEF LedgerInit
<1>5. SumFunctionOnSet(OpsSizes, Ids) = 0 /\ SumFunctionOnSet(KeptSizes, Ids) = 0
  BY <1>1, <1>2
<1>6. SumFunctionOnSet(raw, Operators) = 0
  BY <1>1, <1>4 DEF Accounts
<1>7. \A a \in Accounts : SumFunctionOnSet(ViewSizes(a), Ids) = 0
  BY <1>1, <1>3
<1>8. total = 0 /\ kept = 0 /\ peak = 0
  BY DEF LedgerInit
<1>. QED BY <1>4, <1>5, <1>6, <1>7, <1>8 DEF EInv, EntriesExact, PeakCovers, Accounts

(* Every step moves the totals by what it moves of the accounts.           *)
LEMMA EntriesStep ==
  ASSUME LInv, EInv, LedgerNext, LInv'
  PROVE  EInv'
<1>. USE DEF LInv
<1>0. /\ total = SumFunctionOnSet(OpsSizes, Ids) + SumFunctionOnSet(raw, Operators)
      /\ kept = SumFunctionOnSet(KeptSizes, Ids) + raw[Collect]
      /\ \A a \in Accounts : used[a] = SumFunctionOnSet(ViewSizes(a), Ids) + raw[a]
      /\ PeakCovers
  BY DEF EInv, EntriesExact
<1>1. ASSUME NEW a \in Accounts, NEW id \in Ids, NEW sp \in Spans, RetainNew(a, id, sp)
      PROVE  EInv'
  <2>1. UNCHANGED raw /\ \E e : Move(id, e)
    BY <1>1 DEF RetainNew, RetainEntry
  <2>2. /\ total' = SumFunctionOnSet(OpsSizes', Ids) + SumFunctionOnSet(raw', Operators)
        /\ kept' = SumFunctionOnSet(KeptSizes', Ids) + raw'[Collect]
        /\ PeakCovers'
    BY <1>0, <2>1, MoveKeepsEntries
  <2>3. /\ \A b \in Accounts : \A x \in Ids : b # a \/ x # id => ids'[b][x] = ids[b][x]
        /\ ids'[a][id] = sp /\ ids[a][id] = NoSpan
    BY <1>1 DEF RetainNew, Holds, TypeOK
  <2>4. Size(sp) \in Int /\ Size(NoSpan) = 0
    BY SpanFacts DEF Size, NoSpan
  <2>5. /\ used'[a] = used[a] + Size(ids'[a][id]) - Size(ids[a][id])
        /\ \A b \in Accounts : b # a => used'[b] = used[b]
    BY <1>1, <2>3, <2>4 DEF RetainNew, TypeOK
  <2>6. \A b \in Accounts : used'[b] = SumFunctionOnSet(ViewSizes(b)', Ids) + raw'[b]
    BY <1>0, <2>1, <2>3, <2>5, ViewKeepsUsed
  <2>. QED BY <2>2, <2>6 DEF EInv, EntriesExact
<1>2. ASSUME NEW a \in Accounts, NEW id \in Ids, NEW sp \in Spans, RetainWider(a, id, sp)
      PROVE  EInv'
  <2>1. UNCHANGED raw /\ \E e : Move(id, e)
    BY <1>2 DEF RetainWider
  <2>2. /\ total' = SumFunctionOnSet(OpsSizes', Ids) + SumFunctionOnSet(raw', Operators)
        /\ kept' = SumFunctionOnSet(KeptSizes', Ids) + raw'[Collect]
        /\ PeakCovers'
    BY <1>0, <2>1, MoveKeepsEntries
  <2>3. /\ \A b \in Accounts : \A x \in Ids : b # a \/ x # id => ids'[b][x] = ids[b][x]
        /\ ids'[a][id] = With(ids[a][id], sp)
    BY <1>2 DEF RetainWider, TypeOK
  <2>4. /\ used'[a] = used[a] + Size(ids'[a][id]) - Size(ids[a][id])
        /\ \A b \in Accounts : b # a => used'[b] = used[b]
    BY <1>2, <2>3 DEF RetainWider, TypeOK
  <2>5. \A b \in Accounts : used'[b] = SumFunctionOnSet(ViewSizes(b)', Ids) + raw'[b]
    BY <1>0, <2>1, <2>3, <2>4, ViewKeepsUsed
  <2>. QED BY <2>2, <2>5 DEF EInv, EntriesExact
<1>3. ASSUME NEW a \in Accounts, NEW n \in -MaxRaw..MaxRaw, RetainBytes(a, n)
      PROVE  EInv'
  <2>1. /\ n \in Int /\ AddExtra(a, n) /\ UNCHANGED <<ids, held>>
        /\ raw'[a] = raw[a] + n /\ used'[a] = used[a] + n
        /\ \A b \in Accounts : b # a => raw'[b] = raw[b] /\ used'[b] = used[b]
    BY <1>3, LedgerAssumption DEF RetainBytes, TypeOK
  <2>2. /\ total' = SumFunctionOnSet(OpsSizes', Ids) + SumFunctionOnSet(raw', Operators)
        /\ kept' = SumFunctionOnSet(KeptSizes', Ids) + raw'[Collect]
        /\ PeakCovers'
    BY <2>1, ExtraKeepsEntries
  <2>3. \A b \in Accounts : ViewSizes(b)' = ViewSizes(b)
    BY <2>1 DEF ViewSizes
  <2>4. \A b \in Accounts : SumFunctionOnSet(ViewSizes(b), Ids) \in Int /\ raw[b] \in Int
    BY SizesAreNumbers
  <2>5. \A b \in Accounts : used'[b] = SumFunctionOnSet(ViewSizes(b)', Ids) + raw'[b]
    BY <1>0, <2>1, <2>3, <2>4
  <2>. QED BY <2>2, <2>5 DEF EInv, EntriesExact
<1>4. ASSUME NEW a \in Accounts, NEW id \in Ids, ReleaseOne(a, id)
      PROVE  EInv'
  <2>1. UNCHANGED <<ids, raw, used>> /\ \E e : Move(id, e)
    BY <1>4 DEF ReleaseOne, ReleaseEntry
  <2>2. /\ total' = SumFunctionOnSet(OpsSizes', Ids) + SumFunctionOnSet(raw', Operators)
        /\ kept' = SumFunctionOnSet(KeptSizes', Ids) + raw'[Collect]
        /\ PeakCovers'
    BY <1>0, <2>1, MoveKeepsEntries
  <2>3. \A b \in Accounts : ViewSizes(b)' = ViewSizes(b)
    BY <2>1 DEF ViewSizes
  <2>. QED BY <1>0, <2>1, <2>2, <2>3 DEF EInv, EntriesExact
<1>5. ASSUME NEW a \in Accounts, ReleaseEnd(a)
      PROVE  EInv'
  <2>1. /\ -raw[a] \in Int /\ AddExtra(a, -raw[a]) /\ UNCHANGED held
        /\ raw'[a] = 0 /\ raw'[a] = raw[a] + (-raw[a]) /\ used'[a] = 0
        /\ \A b \in Accounts : b # a => raw'[b] = raw[b] /\ used'[b] = used[b]
    BY <1>5 DEF ReleaseEnd, TypeOK
  <2>2. /\ total' = SumFunctionOnSet(OpsSizes', Ids) + SumFunctionOnSet(raw', Operators)
        /\ kept' = SumFunctionOnSet(KeptSizes', Ids) + raw'[Collect]
        /\ PeakCovers'
    <3>. DEFINE n == -raw[a]
    <3>1. n \in Int /\ AddExtra(a, n) /\ raw'[a] = raw[a] + n
      BY <2>1
    <3>. HIDE DEF n
    <3>. QED BY <2>1, <3>1, ExtraKeepsEntries
  <2>3. \A b \in Accounts : b # a => ViewSizes(b)' = ViewSizes(b)
    BY <1>5 DEF ReleaseEnd, ViewSizes, TypeOK
  <2>4. SumFunctionOnSet(ViewSizes(a)', Ids) = 0
    <3>1. \A x \in Ids : ViewSizes(a)'[x] = 0
      BY <1>5 DEF ReleaseEnd, ViewSizes, Size, NoSpan, TypeOK
    <3>2. SumFunctionOnSet(ViewSizes(a)', Ids) = SumFunctionOnSet(ViewSizes(a)', {})
      BY <3>1, SumOverPart, LedgerAssumption
    <3>. QED BY <3>2, SumOfNone
  <2>5. \A b \in Accounts : used'[b] = SumFunctionOnSet(ViewSizes(b)', Ids) + raw'[b]
    BY <1>0, <2>1, <2>3, <2>4
  <2>. QED BY <2>2, <2>5 DEF EInv, EntriesExact
<1>. QED BY <1>1, <1>2, <1>3, <1>4, <1>5 DEF LedgerNext

(* EInv always holds.                                                      *)
LEMMA EntriesInvariance == LedgerSpec => []EInv
<1>1. LInv /\ EInv /\ [LedgerNext]_ledgerVars /\ LInv' => EInv'
  <2>. SUFFICES ASSUME LInv, EInv, UNCHANGED ledgerVars PROVE EInv'
    BY EntriesStep
  <2>. QED
    BY DEF ledgerVars, EInv, EntriesExact, PeakCovers, OpsSizes, KeptSizes, ViewSizes
<1>. QED BY EntriesInit, LedgerInvariance, <1>1, PTL DEF LedgerSpec

(* An entry's two counts tell who holds it: an operator when there are     *)
(* more references than the result's, the result alone when there are not. *)
LEMMA CountsTellHolders ==
  ASSUME LInv, NEW id \in Ids
  PROVE  /\ held[id].refs > held[id].kept <=> OperatorsHold(id)
         /\ (held[id].refs > 0 /\ held[id].refs = held[id].kept) <=> Holders(id) = {Collect}
<1>. DEFINE H == Holders(id)
            C == H \intersect {Collect}
            O == H \intersect Operators
<1>1. IsFiniteSet(H) /\ H \subseteq Accounts
  BY HoldersFinite DEF Holders
<1>2. held[id].refs = Cardinality(H) /\ held[id].kept = Cardinality(C)
  BY DEF LInv, RefsExact
<1>3. /\ C \subseteq H /\ IsFiniteSet(C) /\ IsFiniteSet(H \ C)
      /\ Cardinality(C) <= Cardinality(H) /\ (Cardinality(H) = Cardinality(C) => H = C)
      /\ Cardinality(H) \in Nat /\ Cardinality(C) \in Nat
  BY <1>1, FS_Subset, FS_CardinalityType
<1>4. O = H \ C
  BY <1>1, LedgerAssumption DEF Accounts
<1>5. H = C <=> O = {}
  BY <1>4
<1>6. Cardinality(H) > Cardinality(C) <=> H # C
  <2>. HIDE DEF H, C
  <2>. QED BY <1>3
<1>7. Cardinality(H) > 0 <=> H # {}
  <2>. HIDE DEF H
  <2>. QED BY <1>1, <1>3, FS_EmptySet
<1>8. (H # {} /\ H = C) <=> H = {Collect}
  OBVIOUS
<1>9. Cardinality(H) = Cardinality(C) <=> H = C
  BY <1>3
<1>. QED BY <1>2, <1>5, <1>6, <1>7, <1>8, <1>9 DEF OperatorsHold

(* Each total is what its holders hold, once: however the retains and      *)
(* releases of any number of operators and the result interleave, neither  *)
(* total drifts from the allocations and the bytes it stands for.          *)
THEOREM TotalsAreExact == LedgerSpec => []TotalsExact
<1>1. LInv /\ EInv => TotalsExact
  <2>. SUFFICES ASSUME LInv, EInv PROVE TotalsExact
    OBVIOUS
  <2>. DEFINE size == [id \in Ids |-> Size(held[id].span)]
              byOps == {id \in Ids : OperatorsHold(id)}
              byResult == {id \in Ids : Holders(id) = {Collect}}
  <2>0. IsFiniteSet(Ids) /\ byOps \in SUBSET Ids /\ byResult \in SUBSET Ids
    BY LedgerAssumption
  <2>1. ASSUME NEW id \in Ids
        PROVE  /\ size[id] \in Int
               /\ OpsSizes[id] = IF id \in byOps THEN size[id] ELSE 0
               /\ KeptSizes[id] = IF id \in byResult THEN size[id] ELSE 0
    <3>1. held[id].span \in Spans \union {NoSpan}
      BY DEF LInv, TypeOK
    <3>2. size[id] \in Int
      BY <3>1, LedgerAssumption DEF Size, NoSpan
    <3>. QED BY <3>2, CountsTellHolders DEF OpsSizes, KeptSizes, CountedOps, CountedKept
  <2>2. SumFunctionOnSet(OpsSizes, Ids) = SumFunctionOnSet(size, byOps)
    <3>1. \A id \in Ids : size[id] \in Int /\ OpsSizes[id] = IF id \in byOps THEN size[id] ELSE 0
      BY <2>1
    <3>. HIDE DEF size, byOps
    <3>. QED BY <2>0, <3>1, SumOverPart
  <2>3. SumFunctionOnSet(KeptSizes, Ids) = SumFunctionOnSet(size, byResult)
    <3>1. \A id \in Ids :
            size[id] \in Int /\ KeptSizes[id] = IF id \in byResult THEN size[id] ELSE 0
      BY <2>1
    <3>. HIDE DEF size, byResult
    <3>. QED BY <2>0, <3>1, SumOverPart
  <2>. QED BY <2>2, <2>3 DEF TotalsExact, EInv, EntriesExact, ViewSizes
<1>. QED BY LedgerInvariance, EntriesInvariance, <1>1, PTL

(* The antecedent of ResultApart: no operator's account changes, nor the   *)
(* span of an allocation an operator holds.                                *)
OperatorsStill ==
  /\ \A a \in Operators : ids'[a] = ids[a] /\ raw'[a] = raw[a] /\ released'[a] = released[a]
  /\ \A id \in Ids : OperatorsHold(id) => held'[id].span = held[id].span

(* A step of an operator's account changes that account.                   *)
LEMMA OperatorsMove ==
  ASSUME LInv, NEW a \in Operators,
         \/ \E id \in Ids, sp \in Spans : RetainNew(a, id, sp) \/ RetainWider(a, id, sp)
         \/ \E n \in -MaxRaw..MaxRaw : RetainBytes(a, n)
         \/ \E id \in Ids : ReleaseOne(a, id)
         \/ ReleaseEnd(a)
  PROVE  ~(ids'[a] = ids[a] /\ raw'[a] = raw[a] /\ released'[a] = released[a])
<1>. USE DEF LInv
<1>0. a \in Accounts
  BY DEF Accounts
<1>1. ASSUME NEW id \in Ids, NEW sp \in Spans, RetainNew(a, id, sp) PROVE ids'[a] # ids[a]
  <2>1. ids'[a][id] = sp /\ ids[a][id] = NoSpan /\ sp # NoSpan
    BY <1>0, <1>1, SpanFacts DEF RetainNew, Holds, TypeOK
  <2>. QED BY <2>1
<1>2. ASSUME NEW id \in Ids, NEW sp \in Spans, RetainWider(a, id, sp) PROVE ids'[a] # ids[a]
  <2>1. ids'[a][id] = With(ids[a][id], sp) /\ With(ids[a][id], sp) # ids[a][id]
    BY <1>0, <1>2 DEF RetainWider, TypeOK
  <2>. QED BY <2>1
<1>3. ASSUME NEW n \in -MaxRaw..MaxRaw, RetainBytes(a, n) PROVE raw'[a] # raw[a]
  BY <1>0, <1>3, LedgerAssumption DEF RetainBytes, TypeOK
<1>4. ASSUME NEW id \in Ids, ReleaseOne(a, id) PROVE released'[a] # released[a]
  BY <1>0, <1>4 DEF ReleaseOne, TypeOK
<1>5. ASSUME ReleaseEnd(a) PROVE ids'[a] # ids[a] \/ raw'[a] # raw[a]
  <2>1. ids'[a] = [id \in Ids |-> NoSpan] /\ raw'[a] = 0
    BY <1>0, <1>5 DEF ReleaseEnd, TypeOK
  <2>2. CASE raw[a] # 0
    BY <2>1, <2>2
  <2>3. ASSUME NEW id \in Holds(a) PROVE ids'[a] # ids[a]
    <3>1. id \in Ids /\ ids[a][id] # NoSpan
      BY DEF Holds
    <3>. QED BY <2>1, <3>1
  <2>. QED BY <1>5, <2>2, <2>3 DEF ReleaseEnd
<1>. QED BY <1>1, <1>2, <1>3, <1>4, <1>5

(* What the result keeps never makes an operator spill: a step of its      *)
(* account, on what no operator holds, moves neither the operators' total  *)
(* nor its peak.                                                           *)
THEOREM ResultStaysApart == LedgerSpec => ResultApart
<1>1. LInv /\ EInv /\ [LedgerNext]_ledgerVars => [OperatorsStill => UNCHANGED <<total, peak>>]_ledgerVars
  <2>. SUFFICES ASSUME LInv, EInv, LedgerNext, OperatorsStill PROVE UNCHANGED <<total, peak>>
    OBVIOUS
  <2>. USE DEF LInv
  <2>0. total \in Int /\ peak \in Int /\ total <= peak
    BY DEF TypeOK, EInv, PeakCovers
  <2>1. ASSUME NEW id \in Ids, NEW e \in [span : Spans \union {NoSpan}, refs : Nat, kept : Nat],
               Move(id, e),
               e.refs > e.kept <=> held[id].refs > held[id].kept
        PROVE  UNCHANGED <<total, peak>>
    <3>1. held'[id] = e
      BY <2>1 DEF Move, TypeOK
    <3>2. held[id].refs > held[id].kept => e.span = held[id].span
      BY <3>1, CountsTellHolders DEF OperatorsStill
    <3>3. CountedOps(e) = CountedOps(held[id])
      BY <2>1, <3>2 DEF CountedOps
    <3>4. CountedOps(e) \in Int
      BY CountedType
    <3>. QED BY <2>0, <2>1, <3>3, <3>4 DEF Move, Larger
  <2>2. \E a \in {Collect} :
          \/ \E id \in Ids, sp \in Spans : RetainNew(a, id, sp) \/ RetainWider(a, id, sp)
          \/ \E n \in -MaxRaw..MaxRaw : RetainBytes(a, n)
          \/ \E id \in Ids : ReleaseOne(a, id)
          \/ ReleaseEnd(a)
    BY OperatorsMove DEF LedgerNext, OperatorsStill, Accounts
  <2>3. IsResult(Collect) /\ Collect \in Accounts
    BY DEF IsResult, Accounts
  <2>4. ASSUME NEW id \in Ids, NEW sp \in Spans, RetainNew(Collect, id, sp)
        PROVE  UNCHANGED <<total, peak>>
    <3>. DEFINE e == [span |-> IF held[id].refs = 0 THEN sp ELSE With(held[id].span, sp),
                      refs |-> held[id].refs + 1, kept |-> held[id].kept + 1]
    <3>1. Move(id, e)
      BY <2>3, <2>4 DEF RetainNew, RetainEntry
    <3>2. e = held'[id] /\ held'[id] \in [span : Spans \union {NoSpan}, refs : Nat, kept : Nat]
      <4>1. LInv'
        BY <2>3, <2>4, RetainNewInv
      <4>. QED BY <3>1, <4>1 DEF Move, TypeOK
    <3>3. e.refs > e.kept <=> held[id].refs > held[id].kept
      BY DEF TypeOK
    <3>. QED BY <2>1, <3>1, <3>2, <3>3
  <2>5. ASSUME NEW id \in Ids, NEW sp \in Spans, RetainWider(Collect, id, sp)
        PROVE  UNCHANGED <<total, peak>>
    <3>. DEFINE e == [held[id] EXCEPT !.span = With(@, With(ids[Collect][id], sp))]
    <3>1. Move(id, e)
      BY <2>5 DEF RetainWider
    <3>2. e = held'[id] /\ held'[id] \in [span : Spans \union {NoSpan}, refs : Nat, kept : Nat]
      <4>1. LInv'
        BY <2>3, <2>5, RetainWiderInv
      <4>. QED BY <3>1, <4>1 DEF Move, TypeOK
    <3>3. e.refs > e.kept <=> held[id].refs > held[id].kept
      BY DEF TypeOK
    <3>. QED BY <2>1, <3>1, <3>2, <3>3
  <2>6. ASSUME NEW id \in Ids, ReleaseOne(Collect, id)
        PROVE  UNCHANGED <<total, peak>>
    <3>. DEFINE e == IF held[id].refs - 1 <= 0
                     THEN NoEntry
                     ELSE [span |-> held[id].span, refs |-> held[id].refs - 1,
                           kept |-> held[id].kept - 1]
    <3>1. Move(id, e)
      BY <2>3, <2>6 DEF ReleaseOne, ReleaseEntry
    <3>2. e = held'[id] /\ held'[id] \in [span : Spans \union {NoSpan}, refs : Nat, kept : Nat]
      <4>1. LInv'
        BY <2>3, <2>6, ReleaseOneInv
      <4>. QED BY <3>1, <4>1 DEF Move, TypeOK
    <3>3. held[id].kept >= 1
      <4>1. Collect \in Holders(id)
        BY <2>3, <2>6 DEF ReleaseOne, Holders
      <4>2. Holders(id) \intersect {Collect} = {Collect}
        BY <4>1
      <4>3. held[id].kept = Cardinality({Collect}) /\ Cardinality({Collect}) = 1
        BY <4>2, FS_Singleton DEF RefsExact
      <4>. QED BY <4>3
    <3>4. e.refs > e.kept <=> held[id].refs > held[id].kept
      <4>1. held[id].refs \in Nat /\ held[id].kept \in Nat
        BY DEF TypeOK
      <4>. QED BY <3>3, <4>1 DEF NoEntry
    <3>. QED BY <2>1, <3>1, <3>2, <3>4
  <2>7. ASSUME \/ \E n \in -MaxRaw..MaxRaw : RetainBytes(Collect, n)
               \/ ReleaseEnd(Collect)
        PROVE  UNCHANGED <<total, peak>>
    BY <2>3, <2>7 DEF RetainBytes, ReleaseEnd, AddExtra
  <2>. QED BY <2>2, <2>4, <2>5, <2>6, <2>7
<1>. QED BY LedgerInvariance, EntriesInvariance, <1>1, PTL DEF LedgerSpec, ResultApart, OperatorsStill

-----------------------------------------------------------------------------
(* The shared result's inductive invariant.                                *)

SitePcs == {"out", "enter", "drain", "gone", "release", "closed"}
Errs    == {"none", "ctx", "disk", "close", "fail"}

Typed ==
  /\ child \in Children
  /\ once \in {"idle", "running", "done"}
  /\ pulled \in Nat
  /\ batches \in Seq(Nat) /\ file \in Seq(Nat)
  /\ path \in BOOLEAN /\ writer \in BOOLEAN
  /\ closed \in SUBSET Sites
  /\ pc \in [Sites -> SitePcs]
  /\ pos \in [Sites -> Nat] /\ got \in [Sites -> Seq(Nat)]
  /\ answer \in [Sites -> Errs \union {"eof", "unread"}]
  /\ err \in Errs

(* One site runs the subplan; a site has counted itself closed when it is  *)
(* past its Close, and releases when they all have.                        *)
OneRuns ==
  /\ \A s, t \in Sites : pc[s] = "drain" /\ pc[t] = "drain" => s = t
  /\ once = "running" <=> \E s \in Sites : pc[s] = "drain"
  /\ \A s \in Sites : s \in closed <=> pc[s] \in {"release", "closed"}
  /\ \A s \in Sites : pc[s] = "release" => closed = Sites

(* What is held is the rows of what the run has taken.                     *)
AllHeld == InOrder(Shared) /\ ToSet(Shared) = Rows(pulled)
Running ==
  /\ err = "none" /\ pulled < Len(child)
  /\ path <=> writer
  /\ path => batches = <<>>
  /\ ~path => file = <<>>
  /\ AllHeld
Drained ==
  /\ once # "done" /\ closed # Sites => Running
  /\ once # "running" => ~writer
  /\ once = "done" /\ err = "none" /\ closed # Sites => pulled = Len(child) /\ AllHeld

(* What a site was given is what is held, as far as the site has come.     *)
Came(s) ==
  /\ pos[s] = Len(got[s]) /\ pos[s] <= Len(Shared)
  /\ \A i \in 1..pos[s] : got[s][i] = Shared[i]
InOneGo(s) ==
  /\ ReplaysInOrder(s)
  /\ answer[s] = "eof" => ToSet(got[s]) = Rows(Len(child))
Replayed ==
  /\ once # "done" \/ err # "none" => \A s \in Sites : got[s] = <<>> /\ pos[s] = 0 /\ answer[s] # "eof"
  /\ once = "done" /\ err = "none" /\ closed # Sites => \A s \in Sites : Came(s)
  /\ \A s \in Sites : InOneGo(s)

(* What a run answered is every site's answer, and a run with no error had *)
(* the subplan's end or its exit.                                          *)
Told ==
  /\ once = "done" /\ err = "none" => Last(child) \in {"eof", "exit"}
  /\ \A s \in Sites : answer[s] # "none" =>
       /\ once = "done"
       /\ IF err = "none" THEN answer[s] \in {"eof", "unread"} ELSE answer[s] = err

(* The subplan closes at its end, or with the last site.                   *)
Released == childCloses = 1 /\ batches = <<>> /\ file = <<>> /\ ~path
LetGo ==
  /\ childCloses \in {0, 1}
  /\ childCloses = 1 => once = "done" \/ closed = Sites
  /\ closed = Sites => Released \/ \E s \in Sites : pc[s] = "release"

Inv == Typed /\ OneRuns /\ Drained /\ Replayed /\ Told /\ LetGo

-----------------------------------------------------------------------------
(* Places in order.                                                        *)

(* A place past those of a sequence in order goes on with it.              *)
LEMMA OrderGoesOn ==
  ASSUME NEW q \in Seq(Nat), NEW n \in Nat, InOrder(q), \A i \in DOMAIN q : q[i] < n
  PROVE  /\ InOrder(Append(q, n)) /\ ToSet(Append(q, n)) = ToSet(q) \union {n}
         /\ Append(q, n) \in Seq(Nat)
<1>. DEFINE r == Append(q, n)
<1>1. /\ Len(q) \in Nat /\ DOMAIN q = 1..Len(q) /\ DOMAIN r = 1..(Len(q) + 1)
      /\ r[Len(q) + 1] = n /\ (\A i \in 1..Len(q) : r[i] = q[i] /\ q[i] \in Nat) /\ r \in Seq(Nat)
  OBVIOUS
<1>. HIDE DEF r
<1>2. \A i \in 1..(Len(q) + 1) : i = Len(q) + 1 \/ i \in 1..Len(q)
  BY <1>1
<1>3. InOrder(r)
  <2>. SUFFICES ASSUME NEW i \in 1..(Len(q) + 1), NEW j \in 1..(Len(q) + 1), i < j PROVE r[i] < r[j]
    BY <1>1 DEF InOrder
  <2>1. i \in 1..Len(q)
    BY <1>1
  <2>2. CASE j = Len(q) + 1
    BY <1>1, <2>1, <2>2
  <2>3. CASE j \in 1..Len(q)
    BY <1>1, <2>1, <2>3 DEF InOrder
  <2>. QED BY <1>2, <2>2, <2>3
<1>4. ToSet(r) = ToSet(q) \union {n}
  <2>1. ToSet(r) \subseteq ToSet(q) \union {n}
    BY <1>1, <1>2 DEF ToSet
  <2>2. \A i \in 1..Len(q) : i \in DOMAIN r
    BY <1>1
  <2>3. Len(q) + 1 \in DOMAIN r
    BY <1>1
  <2>. QED BY <1>1, <2>1, <2>2, <2>3 DEF ToSet
<1>. QED BY <1>1, <1>3, <1>4 DEF r

(* The rows among one answer more.                                         *)
LEMMA RowsGoOn ==
  ASSUME NEW n \in Nat
  PROVE  /\ child[n + 1] = "rows" => Rows(n + 1) = Rows(n) \union {n + 1}
         /\ child[n + 1] # "rows" => Rows(n + 1) = Rows(n)
         /\ \A k \in Rows(n) : k \in Nat /\ k < n + 1
<1>1. \A k : k \in 1..(n + 1) <=> k \in 1..n \/ k = n + 1
  OBVIOUS
<1>. QED BY <1>1 DEF Rows

(* Answers before the last are batches; the last is the subplan's end.     *)
LEMMA ChildTyped ==
  ASSUME NEW c \in Children
  PROVE  /\ Len(c) \in Nat \ {0} /\ DOMAIN c = 1..Len(c)
         /\ \A k \in 1..Len(c) : /\ c[k] \in {"rows", "empty", "eof", "fail", "exit"}
                                 /\ c[k] \in Ends <=> k = Len(c)
<1>1. c # <<>> /\ c \in Seq({"rows", "empty"} \union Ends)
  BY ChildrenAssumption
<1>2. \A k \in DOMAIN c : c[k] \in Ends <=> k = Len(c)
  BY ChildrenAssumption
<1>. QED BY <1>1, <1>2 DEF Ends

(* The answer a run takes next.                                            *)
LEMMA NextAnswer ==
  ASSUME Typed, Running
  PROVE  /\ Len(child) \in Nat \ {0} /\ pulled + 1 \in 1..Len(child) /\ pulled + 1 \in Nat
         /\ child[pulled + 1] \in Ends <=> pulled + 1 = Len(child)
<1>1. pulled \in Nat /\ pulled < Len(child) /\ child \in Children
  BY DEF Typed, Running
<1>2. Len(child) \in Nat \ {0}
  BY <1>1, ChildTyped
<1>3. pulled + 1 \in 1..Len(child)
  BY <1>1, <1>2
<1>. QED BY <1>1, <1>2, <1>3, ChildTyped
-----------------------------------------------------------------------------
(* The types.                                                              *)

(* The variables keep their types.                                         *)
LEMMA TypedInit == Init => Typed
<1>. SUFFICES ASSUME Init PROVE Typed
  OBVIOUS
<1>1. /\ child \in Children /\ once = "idle" /\ err = "none" /\ pulled = 0 /\ closed = {}
      /\ path = FALSE /\ writer = FALSE
  BY DEF Init
<1>2. batches \in Seq(Nat) /\ file \in Seq(Nat)
  BY DEF Init
<1>3. pc \in [Sites -> SitePcs]
  BY DEF Init, SitePcs
<1>4. /\ pos \in [Sites -> Nat] /\ got \in [Sites -> Seq(Nat)]
      /\ answer \in [Sites -> Errs \union {"eof", "unread"}]
  BY DEF Init, Errs
<1>. QED BY <1>1, <1>2, <1>3, <1>4 DEF Typed, Errs

(* A site at one place moves to another, and the others stay.              *)
LEMMA SiteMoves ==
  ASSUME Typed, NEW s \in Sites, NEW to \in SitePcs, pc' = [pc EXCEPT ![s] = to]
  PROVE  /\ pc' \in [Sites -> SitePcs] /\ pc'[s] = to
         /\ \A t \in Sites : t # s => pc'[t] = pc[t]
BY DEF Typed

(* An item of a sequence of numbers, and one more at its end.              *)
LEMMA ItemIsNat ==
  ASSUME NEW q \in Seq(Nat), NEW n \in Nat, n < Len(q)
  PROVE  q[n + 1] \in Nat
<1>1. Len(q) \in Nat
  OBVIOUS
<1>2. n + 1 \in 1..Len(q)
  BY <1>1
<1>. QED BY <1>2

LEMMA AppendedIsNat ==
  ASSUME NEW q \in Seq(Nat), NEW n \in Nat
  PROVE  Append(q, n) \in Seq(Nat)
OBVIOUS

(* Every step keeps them.                                                  *)
LEMMA TypedStep == Inv /\ [Next]_vars => Typed'
<1>. SUFFICES ASSUME Inv, [Next]_vars PROVE Typed'
  OBVIOUS
<1>0. Typed
  BY DEF Inv
<1>a. ASSUME NEW s \in Sites, NEW to \in SitePcs, pc' = [pc EXCEPT ![s] = to] PROVE pc' \in [Sites -> SitePcs]
  BY <1>0, <1>a, SiteMoves
<1>1. CASE UNCHANGED vars
  BY <1>0, <1>1 DEF Typed, vars, query, run, site
<1>2. ASSUME NEW s \in Sites, ContextEnds(s) PROVE Typed'
  BY <1>0, <1>2 DEF Typed, ContextEnds, query, run, site
<1>3. ASSUME NEW s \in Sites, Call(s) PROVE Typed'
  BY <1>0, <1>3, <1>a DEF Typed, Call, Goes, query, run, site, SitePcs
<1>4. ASSUME NEW s \in Sites, Run(s) PROVE Typed'
  BY <1>0, <1>4, <1>a DEF Typed, Run, Goes, query, site, SitePcs
<1>5. ASSUME NEW s \in Sites, DrainCancelled(s) PROVE Typed'
  BY <1>0, <1>5, <1>a DEF Typed, Errs, DrainCancelled, DrainEnds, query, site, SitePcs
<1>6. ASSUME NEW s \in Sites, DrainEmpty(s) PROVE Typed'
  BY <1>0, <1>6 DEF Typed, DrainEmpty, query, site
<1>7. ASSUME NEW s \in Sites, DrainRows(s) PROVE Typed'
  <2>1. UNCHANGED <<child, closed, pos, got, answer>> /\ pulled' = pulled + 1
    BY <1>7 DEF DrainRows, query, site
  <2>2. pulled + 1 \in Nat /\ Append(batches, pulled + 1) \in Seq(Nat) /\ Append(file, pulled + 1) \in Seq(Nat)
    BY <1>0 DEF Typed
  <2>3. /\ batches' \in {batches, <<>>, Append(batches, pulled + 1)}
        /\ file' \in {file, Append(batches, pulled + 1), Append(file, pulled + 1)}
        /\ path' \in BOOLEAN /\ writer' \in BOOLEAN
        /\ once' \in {once, "done"} /\ err' \in {err, "disk"}
        /\ pc' = pc \/ pc' = [pc EXCEPT ![s] = "enter"]
    BY <1>0, <1>7 DEF Typed, DrainRows, DrainEnds
  <2>4. pc' \in [Sites -> SitePcs]
    <3>1. "enter" \in SitePcs /\ pc \in [Sites -> SitePcs]
      BY <1>0 DEF Typed, SitePcs
    <3>. QED BY <1>a, <2>3, <3>1
  <2>5. batches' \in Seq(Nat) /\ file' \in Seq(Nat)
    <3>1. batches \in Seq(Nat) /\ file \in Seq(Nat) /\ <<>> \in Seq(Nat)
      BY <1>0 DEF Typed
    <3>. DEFINE q == Append(batches, pulled + 1)
                t == Append(file, pulled + 1)
    <3>2. /\ q \in Seq(Nat) /\ t \in Seq(Nat)
          /\ batches' \in {batches, <<>>, q} /\ file' \in {file, q, t}
      BY <2>2, <2>3
    <3>. HIDE DEF q, t
    <3>. QED BY <3>1, <3>2
  <2>6. /\ once' \in {"idle", "running", "done"} /\ err' \in Errs
        /\ pulled' \in Nat
    BY <1>0, <2>1, <2>2, <2>3 DEF Typed, Errs
  <2>. QED BY <1>0, <2>1, <2>3, <2>4, <2>5, <2>6 DEF Typed
<1>8. ASSUME NEW s \in Sites, DrainFails(s) PROVE Typed'
  <2>1. pc' = [pc EXCEPT ![s] = "enter"] \/ pc' = [pc EXCEPT ![s] = "gone"]
    BY <1>8 DEF DrainFails, DrainEnds
  <2>2. pc' \in [Sites -> SitePcs]
    <3>1. "enter" \in SitePcs /\ "gone" \in SitePcs
      BY DEF SitePcs
    <3>. QED BY <1>a, <2>1, <3>1
  <2>3. /\ UNCHANGED <<query, batches, path, file, closed, site>> /\ pulled' = pulled + 1
        /\ once' = "done" /\ err' \in {"fail", "none"} /\ writer' = FALSE
    BY <1>8 DEF DrainFails, DrainEnds
  <2>4. pulled' \in Nat /\ err' \in Errs
    BY <1>0, <2>3 DEF Typed, Errs
  <2>. QED BY <1>0, <2>2, <2>3, <2>4 DEF Typed, query, site
<1>9. ASSUME NEW s \in Sites, DrainEof(s) PROVE Typed'
  <2>1. pc' \in [Sites -> SitePcs]
    BY <1>9, <1>a DEF DrainEof, DrainEnds, SitePcs
  <2>2. /\ UNCHANGED <<query, batches, path, closed, site>> /\ pulled' = pulled + 1
        /\ once' = "done" /\ err' \in {"none", "disk", "close"} /\ writer' = FALSE
        /\ file' = file \/ file' \in Prefixes(file)
    BY <1>9 DEF DrainEof, DrainEnds
  <2>3. pulled' \in Nat /\ err' \in Errs
    BY <1>0, <2>2 DEF Typed, Errs
  <2>4. file' \in Seq(Nat)
    <3>1. file \in Seq(Nat) /\ Len(file) \in Nat
      BY <1>0 DEF Typed
    <3>2. \A n \in 0..Len(file) : SubSeq(file, 1, n) \in Seq(Nat)
      BY <3>1
    <3>. QED BY <2>2, <3>1, <3>2 DEF Prefixes
  <2>. QED BY <1>0, <2>1, <2>2, <2>3, <2>4 DEF Typed, query, site
<1>10. ASSUME NEW s \in Sites, AnswerError(s) PROVE Typed'
  BY <1>0, <1>10, <1>a DEF Typed, Errs, AnswerError, Goes, query, run, SitePcs
<1>11. ASSUME NEW s \in Sites, AnswerBatch(s) PROVE Typed'
  <2>1. UNCHANGED <<query, run, closed, answer>> /\ pc' \in [Sites -> SitePcs]
    BY <1>11, <1>a DEF AnswerBatch, Goes, SitePcs
  <2>2. pos[s] \in Nat /\ pos[s] < Len(Shared) /\ Shared \in Seq(Nat) /\ got[s] \in Seq(Nat)
    BY <1>0, <1>11 DEF Typed, AnswerBatch, Shared
  <2>3. Shared[pos[s] + 1] \in Nat
    BY <2>2, ItemIsNat
  <2>4. Append(got[s], Shared[pos[s] + 1]) \in Seq(Nat) /\ pos[s] + 1 \in Nat
    BY <2>2, <2>3, AppendedIsNat
  <2>5. pos' = [pos EXCEPT ![s] = pos[s] + 1] /\ got' = [got EXCEPT ![s] = Append(got[s], Shared[pos[s] + 1])]
    BY <1>11 DEF AnswerBatch
  <2>6. pos' \in [Sites -> Nat] /\ got' \in [Sites -> Seq(Nat)]
    BY <1>0, <2>4, <2>5 DEF Typed
  <2>. QED BY <1>0, <2>1, <2>6 DEF Typed, query, run
<1>12. ASSUME NEW s \in Sites, AnswerEof(s) PROVE Typed'
  BY <1>0, <1>12, <1>a DEF Typed, AnswerEof, Goes, query, run, SitePcs
<1>13. ASSUME NEW s \in Sites, Close(s) PROVE Typed'
  <2>1. pc' \in [Sites -> SitePcs]
    BY <1>0, <1>13, <1>a DEF Close, SitePcs
  <2>. QED BY <1>0, <1>13, <2>1 DEF Typed, Close, query, run, site
<1>14. ASSUME NEW s \in Sites, Release(s) PROVE Typed'
  <2>1. pc' \in [Sites -> SitePcs]
    BY <1>14, <1>a DEF Release, Goes, SitePcs
  <2>2. batches' \in Seq(Nat) /\ file' \in Seq(Nat) /\ path' = FALSE
    BY <1>14 DEF Release
  <2>. QED BY <1>0, <1>14, <2>1, <2>2 DEF Typed, Release, query, site
<1>15. ASSUME NEW s \in Sites, AnswerUnread(s) PROVE Typed'
  BY <1>0, <1>15, <1>a DEF Typed, AnswerUnread, Goes, query, run, SitePcs
<1>. QED BY <1>1, <1>2, <1>3, <1>4, <1>5, <1>6, <1>7, <1>8, <1>9, <1>10, <1>11, <1>12, <1>13, <1>14,
            <1>15 DEF Next, Step

-----------------------------------------------------------------------------
(* Who runs the subplan, and who has closed.                               *)

(* One site runs the subplan; the closed are those past their Close.       *)
LEMMA OneRunsStep == Inv /\ [Next]_vars => OneRuns'
<1>. SUFFICES ASSUME Inv, [Next]_vars PROVE OneRuns'
  OBVIOUS
<1>0. Typed /\ OneRuns
  BY DEF Inv
<1>a. ASSUME UNCHANGED <<once, closed>>, NEW s \in Sites, NEW to \in SitePcs \ {"drain", "release", "closed"},
             pc' = [pc EXCEPT ![s] = to], pc[s] \notin {"drain", "release", "closed"}
      PROVE  OneRuns'
  BY <1>0, <1>a, SiteMoves DEF OneRuns
<1>b. ASSUME UNCHANGED <<once, closed, pc>> PROVE OneRuns'
  BY <1>0, <1>b DEF OneRuns
<1>c. ASSUME UNCHANGED closed, once' = "done", NEW s \in Sites, pc[s] = "drain",
             NEW to \in {"enter", "gone"}, pc' = [pc EXCEPT ![s] = to]
      PROVE  OneRuns'
  <2>1. to \in SitePcs
    BY DEF SitePcs
  <2>2. pc'[s] = to /\ \A t \in Sites : t # s => pc'[t] = pc[t]
    BY <1>0, <1>c, <2>1, SiteMoves
  <2>. QED BY <1>0, <1>c, <2>2 DEF OneRuns
<1>1. CASE UNCHANGED vars
  BY <1>1, <1>b DEF vars, run
<1>2. ASSUME NEW s \in Sites, ContextEnds(s) \/ DrainEmpty(s) PROVE OneRuns'
  BY <1>2, <1>b DEF ContextEnds, DrainEmpty, run
<1>3. ASSUME NEW s \in Sites, Call(s) \/ AnswerError(s) \/ AnswerBatch(s) \/ AnswerUnread(s) \/ AnswerEof(s)
      PROVE  OneRuns'
  <2>1. \E to \in SitePcs \ {"drain", "release", "closed"} :
          pc' = [pc EXCEPT ![s] = to] /\ pc[s] \notin {"drain", "release", "closed"}
    BY <1>3 DEF Call, AnswerError, AnswerBatch, AnswerUnread, AnswerEof, Goes, SitePcs
  <2>2. UNCHANGED <<once, closed>>
    BY <1>3 DEF Call, AnswerError, AnswerBatch, AnswerUnread, AnswerEof, run
  <2>. QED BY <1>a, <2>1, <2>2
<1>4. ASSUME NEW s \in Sites, Run(s) PROVE OneRuns'
  <2>1. pc'[s] = "drain" /\ pc[s] = "enter" /\ \A t \in Sites : t # s => pc'[t] = pc[t]
    BY <1>0, <1>4, SiteMoves DEF Run, Goes, SitePcs
  <2>. QED BY <1>0, <1>4, <2>1 DEF OneRuns, Run
<1>5. ASSUME NEW s \in Sites, DrainCancelled(s) \/ DrainFails(s) \/ DrainEof(s) PROVE OneRuns'
  BY <1>5, <1>c DEF DrainCancelled, DrainFails, DrainEof, DrainEnds
<1>6. ASSUME NEW s \in Sites, DrainRows(s) PROVE OneRuns'
  <2>1. UNCHANGED closed /\ pc[s] = "drain"
    BY <1>6 DEF DrainRows
  <2>2. UNCHANGED <<once, pc>> \/ (once' = "done" /\ pc' = [pc EXCEPT ![s] = "enter"])
    BY <1>6 DEF DrainRows, DrainEnds
  <2>. QED BY <1>b, <1>c, <2>1, <2>2
<1>7. ASSUME NEW s \in Sites, Close(s) PROVE OneRuns'
  <2>1. pc[s] \in {"out", "gone"} /\ closed' = closed \union {s} /\ once' = once
    BY <1>7 DEF Close, run
  <2>2. /\ pc'[s] = IF closed' = Sites THEN "release" ELSE "closed"
        /\ \A t \in Sites : t # s => pc'[t] = pc[t]
    BY <1>0, <1>7, SiteMoves DEF Close, SitePcs
  <2>3. \A t \in Sites : pc[t] # "release"
    BY <1>0, <2>1 DEF OneRuns
  <2>. QED BY <1>0, <2>1, <2>2, <2>3 DEF OneRuns
<1>8. ASSUME NEW s \in Sites, Release(s) PROVE OneRuns'
  <2>1. pc[s] = "release" /\ pc'[s] = "closed" /\ \A t \in Sites : t # s => pc'[t] = pc[t]
    BY <1>0, <1>8, SiteMoves DEF Release, Goes, SitePcs
  <2>. QED BY <1>0, <1>8, <2>1 DEF OneRuns, Release
<1>. QED BY <1>1, <1>2, <1>3, <1>4, <1>5, <1>6, <1>7, <1>8 DEF Next, Step

-----------------------------------------------------------------------------
(* What the run holds.                                                     *)

(* A batch of rows taken goes on with what is held, in memory or a file.   *)
LEMMA HoldsRow ==
  ASSUME Typed, Running, child[pulled + 1] = "rows"
  PROVE  LET q == Append(Shared, pulled + 1) IN
         InOrder(q) /\ ToSet(q) = Rows(pulled + 1)
<1>1. pulled \in Nat /\ Shared \in Seq(Nat)
  BY DEF Typed, Shared
<1>2. \A i \in DOMAIN Shared : Shared[i] < pulled + 1
  <2>1. \A i \in DOMAIN Shared : Shared[i] \in Rows(pulled)
    BY DEF Running, AllHeld, ToSet
  <2>. QED BY <1>1, <2>1, RowsGoOn
<1>3. pulled + 1 \in Nat /\ InOrder(Shared) /\ ToSet(Shared) = Rows(pulled)
  BY <1>1 DEF Running, AllHeld
<1>. QED BY <1>1, <1>2, <1>3, OrderGoesOn, RowsGoOn

(* The run holds the rows of what it has taken, until all have closed.     *)
LEMMA DrainedStep == Inv /\ [Next]_vars => Drained'
<1>. SUFFICES ASSUME Inv, [Next]_vars PROVE Drained'
  OBVIOUS
<1>0. Typed /\ OneRuns /\ Drained
  BY DEF Inv
<1>a. ASSUME UNCHANGED <<child, run>>, closed = Sites => closed' = Sites PROVE Drained'
  <2>1. UNCHANGED <<child, once, err, pulled, batches, path, file, writer>>
    BY <1>a DEF run
  <2>2. Shared' = Shared /\ Rows(pulled)' = Rows(pulled)
    BY <2>1 DEF Shared, Rows
  <2>3. (AllHeld' <=> AllHeld) /\ (Running' <=> Running)
    BY <2>1, <2>2 DEF AllHeld, Running
  <2>. QED BY <1>0, <1>a, <2>1, <2>3 DEF Drained
<1>b. ASSUME NEW s \in Sites, pc[s] = "drain"
      PROVE  /\ once = "running" /\ closed # Sites /\ Running
             /\ Len(child) \in Nat \ {0} /\ pulled + 1 \in 1..Len(child)
             /\ child[pulled + 1] \in Ends <=> pulled + 1 = Len(child)
  <2>1. once = "running" /\ s \notin closed
    BY <1>0, <1>b DEF OneRuns
  <2>2. Running
    BY <1>0, <2>1 DEF Drained
  <2>. QED BY <1>0, <2>1, <2>2, NextAnswer
<1>c. ASSUME NEW s \in Sites, pc[s] = "drain", child' = child, pulled' = pulled + 1,
             child[pulled + 1] # "rows", UNCHANGED <<batches, path, file>>
      PROVE  AllHeld'
  <2>1. Shared' = Shared /\ Rows(pulled)' = Rows(pulled + 1)
    BY <1>c DEF Shared, Rows
  <2>2. Rows(pulled + 1) = Rows(pulled)
    BY <1>0, <1>c, RowsGoOn DEF Typed
  <2>3. Running
    BY <1>b, <1>c
  <2>. QED BY <2>1, <2>2, <2>3 DEF Running, AllHeld
<1>1. CASE UNCHANGED vars
  BY <1>1, <1>a DEF vars, query
<1>2. ASSUME NEW s \in Sites, \/ ContextEnds(s) \/ Call(s) \/ AnswerError(s)
                            \/ AnswerBatch(s) \/ AnswerUnread(s) \/ AnswerEof(s)
      PROVE  Drained'
  BY <1>2, <1>a DEF ContextEnds, Call, AnswerError, AnswerBatch, AnswerUnread, AnswerEof, query
<1>3. ASSUME NEW s \in Sites, Close(s) PROVE Drained'
  <2>1. closed' = closed \union {s} /\ UNCHANGED <<child, run>>
    BY <1>3 DEF Close, query
  <2>. QED BY <1>a, <2>1
<1>4. ASSUME NEW s \in Sites, Run(s) PROVE Drained'
  <2>1. once = "idle" /\ once' = "running" /\ UNCHANGED <<child, err, pulled, batches, path, file, writer, closed>>
    BY <1>4 DEF Run, query
  <2>2. Shared' = Shared /\ Rows(pulled)' = Rows(pulled)
    BY <2>1 DEF Shared, Rows
  <2>3. Running' <=> Running
    BY <2>1, <2>2 DEF AllHeld, Running
  <2>. QED BY <1>0, <2>1, <2>3 DEF Drained
<1>5. ASSUME NEW s \in Sites, DrainCancelled(s) PROVE Drained'
  BY <1>5 DEF DrainCancelled, DrainEnds, Drained
<1>6. ASSUME NEW s \in Sites, DrainEmpty(s) PROVE Drained'
  <2>1. /\ pc[s] = "drain" /\ child[pulled + 1] = "empty" /\ pulled' = pulled + 1
        /\ UNCHANGED <<child, once, err, batches, path, file, writer, closed>>
    BY <1>6 DEF DrainEmpty, query
  <2>2. Running /\ once = "running" /\ pulled + 1 # Len(child) /\ pulled + 1 \in 1..Len(child) /\ Len(child) \in Nat
    BY <1>b, <2>1 DEF Ends
  <2>3. AllHeld'
    BY <1>c, <2>1
  <2>. QED BY <2>1, <2>2, <2>3 DEF Running, Drained
<1>7. ASSUME NEW s \in Sites, DrainFails(s) \/ DrainEof(s) PROVE Drained'
  <2>0. CASE err' # "none"
    BY <1>7, <2>0 DEF DrainFails, DrainEof, DrainEnds, Drained
  <2>. SUFFICES ASSUME err' = "none" PROVE Drained'
    BY <2>0
  <2>1. /\ pc[s] = "drain" /\ child[pulled + 1] \in Ends /\ pulled' = pulled + 1 /\ once' = "done"
        /\ UNCHANGED <<child, batches, path, file, closed>> /\ writer' = FALSE
    BY <1>7 DEF DrainFails, DrainEof, DrainEnds, query, Ends
  <2>2. pulled' = Len(child)
    BY <1>b, <2>1
  <2>3. AllHeld'
    BY <1>c, <2>1 DEF Ends
  <2>. QED BY <2>1, <2>2, <2>3 DEF Drained
<1>8. ASSUME NEW s \in Sites, DrainRows(s) PROVE Drained'
  <2>1. /\ pc[s] = "drain" /\ child[pulled + 1] = "rows" /\ pulled' = pulled + 1
        /\ UNCHANGED <<child, closed>>
    BY <1>8 DEF DrainRows, query
  <2>2. /\ Running /\ once = "running" /\ pulled + 1 # Len(child) /\ pulled + 1 \in 1..Len(child)
        /\ Len(child) \in Nat
    BY <1>b, <2>1 DEF Ends
  <2>3. /\ InOrder(Append(Shared, pulled + 1))
        /\ ToSet(Append(Shared, pulled + 1)) = Rows(pulled + 1)
    BY <1>0, <2>1, <2>2, HoldsRow
  <2>4. CASE once' = "done"
    <3>1. err' = "disk" /\ writer' = FALSE
      BY <1>8, <2>2, <2>4 DEF DrainRows, DrainEnds
    <3>. QED BY <2>4, <3>1 DEF Drained
  <2>5. CASE once' # "done"
    <3>1. /\ once' = once /\ err' = err
          /\ \/ /\ writer /\ file' = Append(file, pulled + 1)
                /\ UNCHANGED <<batches, path, writer>>
             \/ /\ ~writer /\ batches' = Append(batches, pulled + 1)
                /\ UNCHANGED <<path, file, writer>>
             \/ /\ ~writer /\ path' = TRUE /\ writer' = TRUE
                /\ file' = Append(batches, pulled + 1) /\ batches' = <<>>
      BY <1>8, <2>5 DEF DrainRows, DrainEnds
    <3>2. Shared' = Append(Shared, pulled + 1)
      BY <2>2, <3>1 DEF Shared, Running
    <3>3. /\ path' <=> writer'
          /\ path' => batches' = <<>>
          /\ ~path' => file' = <<>>
      BY <2>2, <3>1 DEF Running
    <3>4. AllHeld'
      <4>1. Rows(pulled)' = Rows(pulled + 1)
        BY <2>1 DEF Rows
      <4>. QED BY <2>3, <3>2, <4>1 DEF AllHeld
    <3>5. pulled' < Len(child') /\ err' = "none"
      BY <2>1, <2>2, <3>1 DEF Running
    <3>. QED BY <2>2, <3>1, <3>3, <3>4, <3>5 DEF Running, Drained
  <2>. QED BY <2>4, <2>5
<1>9. ASSUME NEW s \in Sites, Release(s) PROVE Drained'
  <2>1. closed' = Sites /\ writer' = writer /\ once' = once
    BY <1>0, <1>9 DEF Release, Goes, OneRuns
  <2>. QED BY <1>0, <2>1 DEF Drained
<1>. QED BY <1>1, <1>2, <1>3, <1>4, <1>5, <1>6, <1>7, <1>8, <1>9 DEF Next, Step

-----------------------------------------------------------------------------
(* What each site was given.                                               *)

(* What is given from the front of the subplan's rows has no gap, and is   *)
(* all of them where it is as long.                                        *)
LEMMA FrontHasNoGap ==
  ASSUME NEW r \in Seq(Nat), NEW q \in Seq(Nat), NEW n \in Nat,
         Len(q) <= Len(r), \A i \in 1..Len(q) : q[i] = r[i],
         InOrder(r), ToSet(r) = Rows(n)
  PROVE  /\ InOrder(q)
         /\ \A k \in ToSet(q) : Rows(k) \subseteq ToSet(q)
         /\ ToSet(q) \subseteq Rows(n)
         /\ Len(q) = Len(r) => ToSet(q) = Rows(n)
<1>1. /\ Len(q) \in Nat /\ Len(r) \in Nat /\ DOMAIN q = 1..Len(q) /\ DOMAIN r = 1..Len(r)
      /\ \A i \in 1..Len(q) : i \in 1..Len(r)
      /\ \A i \in 1..Len(r) : r[i] \in Nat
  OBVIOUS
<1>2. InOrder(q)
  BY <1>1 DEF InOrder
<1>3. ToSet(q) \subseteq Rows(n)
  <2>1. ToSet(q) \subseteq ToSet(r)
    BY <1>1 DEF ToSet
  <2>. QED BY <2>1
<1>4. ASSUME NEW k \in ToSet(q), NEW j \in Rows(k) PROVE j \in ToSet(q)
  <2>1. PICK i \in 1..Len(q) : q[i] = k
    BY <1>1 DEF ToSet
  <2>2. k \in 1..n /\ j \in 1..k /\ child[j] = "rows"
    BY <1>3 DEF Rows
  <2>3. j \in Rows(n)
    BY <2>2 DEF Rows
  <2>4. PICK m \in 1..Len(r) : r[m] = j
    BY <1>1, <2>3 DEF ToSet
  <2>5. ~(i < m)
    <3>1. i < m => r[i] < r[m]
      BY <1>1, <2>1 DEF InOrder
    <3>. QED BY <1>1, <2>1, <2>2, <2>4, <3>1
  <2>6. m \in 1..Len(q)
    BY <1>1, <2>1, <2>4, <2>5
  <2>. QED BY <1>1, <2>4, <2>6 DEF ToSet
<1>5. Len(q) = Len(r) => ToSet(q) = Rows(n)
  BY <1>1 DEF ToSet
<1>. QED BY <1>2, <1>3, <1>4, <1>5

(* Each site is given what is held from its front on.                      *)
LEMMA ReplayedStep == Inv /\ [Next]_vars => Replayed'
<1>. SUFFICES ASSUME Inv, [Next]_vars PROVE Replayed'
  OBVIOUS
<1>0. Typed /\ OneRuns /\ Drained /\ Replayed /\ Typed'
  BY TypedStep DEF Inv
<1>a. ASSUME UNCHANGED <<child, once, err, batches, path, file, site>>, closed = Sites => closed' = Sites
      PROVE  Replayed'
  <2>1. Shared' = Shared /\ UNCHANGED <<pos, got, answer>> /\ Rows(Len(child))' = Rows(Len(child))
          /\ \A k \in Nat : Rows(k)' = Rows(k)
    BY <1>a DEF Shared, site, Rows
  <2>2. \A s \in Sites : Came(s)' <=> Came(s)
    BY <2>1 DEF Came
  <2>3. \A s \in Sites : InOneGo(s) => InOneGo(s)'
    BY <1>a, <2>1 DEF InOneGo, ReplaysInOrder, Rows
  <2>. QED BY <1>0, <1>a, <2>1, <2>2, <2>3 DEF Replayed
<1>b. ASSUME once # "done", UNCHANGED <<child, site>> PROVE Replayed'
  <2>1. UNCHANGED <<pos, got, answer>> /\ \A s \in Sites : got[s] = <<>> /\ pos[s] = 0 /\ answer[s] # "eof"
    BY <1>0, <1>b DEF Replayed, site
  <2>2. Len(Shared') \in Nat
    BY <1>0 DEF Typed, Shared
  <2>3. \A s \in Sites : Came(s)'
    BY <2>1, <2>2 DEF Came
  <2>4. \A s \in Sites : InOneGo(s) => InOneGo(s)'
    BY <1>b, <2>1 DEF InOneGo, ReplaysInOrder, Rows
  <2>. QED BY <1>0, <2>1, <2>3, <2>4 DEF Replayed
<1>c. ASSUME NEW s \in Sites, pc[s] = "enter", once = "done", err = "none"
      PROVE  /\ closed # Sites /\ Came(s) /\ Shared \in Seq(Nat) /\ got[s] \in Seq(Nat)
             /\ InOrder(Shared) /\ Len(child) \in Nat /\ ToSet(Shared) = Rows(Len(child))
  <2>1. closed # Sites
    BY <1>0, <1>c DEF OneRuns
  <2>2. Came(s) /\ pulled = Len(child) /\ AllHeld
    BY <1>0, <1>c, <2>1 DEF Replayed, Drained
  <2>. QED BY <1>0, <2>1, <2>2 DEF AllHeld, Typed, Shared
<1>1. CASE UNCHANGED vars
  BY <1>1, <1>a DEF vars, query, run
<1>2. ASSUME NEW s \in Sites, ContextEnds(s) \/ Call(s) PROVE Replayed'
  BY <1>2, <1>a DEF ContextEnds, Call, query, run
<1>3. ASSUME NEW s \in Sites, Close(s) PROVE Replayed'
  <2>1. closed' = closed \union {s} /\ UNCHANGED <<query, run, site>>
    BY <1>3 DEF Close
  <2>2. closed = Sites => closed' = Sites
    BY <2>1
  <2>. QED BY <1>a, <2>1, <2>2 DEF query, run
<1>4. ASSUME NEW s \in Sites, Run(s) PROVE Replayed'
  BY <1>4, <1>b DEF Run, query
<1>5. ASSUME NEW s \in Sites,
             DrainCancelled(s) \/ DrainEmpty(s) \/ DrainRows(s) \/ DrainFails(s) \/ DrainEof(s)
      PROVE  Replayed'
  <2>1. pc[s] = "drain" /\ UNCHANGED <<query, site>>
    BY <1>5 DEF DrainCancelled, DrainEmpty, DrainRows, DrainFails, DrainEof
  <2>2. once = "running"
    BY <1>0, <2>1 DEF OneRuns
  <2>. QED BY <1>b, <2>1, <2>2 DEF query
<1>6. ASSUME NEW s \in Sites, AnswerError(s) \/ AnswerUnread(s) PROVE Replayed'
  <2>1. UNCHANGED <<child, once, err, batches, path, file, closed, pos, got>>
        /\ \E e \in {err, "unread"} : e # "eof" /\ answer' = [answer EXCEPT ![s] = e]
    BY <1>0, <1>6 DEF AnswerError, AnswerUnread, query, run, Typed, Errs
  <2>2. \A t \in Sites : answer'[t] = "eof" => answer[t] = "eof"
    BY <1>0, <2>1 DEF Typed
  <2>3. \A t \in Sites : InOneGo(t) => InOneGo(t)'
    BY <2>1, <2>2 DEF InOneGo, ReplaysInOrder, Rows
  <2>4. \A t \in Sites : Came(t) => Came(t)'
    BY <2>1 DEF Came, Shared
  <2>. QED BY <1>0, <2>1, <2>2, <2>3, <2>4 DEF Replayed
<1>7. ASSUME NEW s \in Sites, AnswerEof(s) PROVE Replayed'
  <2>1. /\ pc[s] = "enter" /\ once = "done" /\ err = "none" /\ pos[s] = Len(Shared)
        /\ UNCHANGED <<child, once, err, batches, path, file, closed, pos, got>>
        /\ answer' = [answer EXCEPT ![s] = "eof"]
    BY <1>7 DEF AnswerEof, Goes, query, run
  <2>2. Came(s) /\ ToSet(got[s]) = Rows(Len(child))
    <3>1. Came(s) /\ Shared \in Seq(Nat) /\ got[s] \in Seq(Nat) /\ InOrder(Shared)
            /\ Len(child) \in Nat /\ ToSet(Shared) = Rows(Len(child))
      BY <1>c, <2>1
    <3>2. Len(got[s]) = Len(Shared) /\ \A i \in 1..Len(got[s]) : got[s][i] = Shared[i]
      BY <2>1, <3>1 DEF Came
    <3>3. Len(got[s]) <= Len(Shared)
      BY <3>1, <3>2
    <3>4. ToSet(got[s]) = Rows(Len(child))
      <4>. HIDE DEF Shared
      <4>. QED BY <3>1, <3>2, <3>3, FrontHasNoGap
    <3>. QED BY <3>1, <3>4
  <2>3. \A t \in Sites : Came(t)' <=> Came(t)
    BY <2>1 DEF Came, Shared
  <2>4. \A t \in Sites : answer'[t] = "eof" => t = s \/ answer[t] = "eof"
    BY <1>0, <2>1 DEF Typed
  <2>5. \A t \in Sites : InOneGo(t) => InOneGo(t)'
    BY <2>1, <2>2, <2>4 DEF InOneGo, ReplaysInOrder, Rows
  <2>. QED BY <1>0, <2>1, <2>3, <2>5 DEF Replayed
<1>8. ASSUME NEW s \in Sites, AnswerBatch(s) PROVE Replayed'
  <2>. DEFINE p == pos[s] + 1
              q == Append(got[s], Shared[p])
  <2>1. /\ pc[s] = "enter" /\ once = "done" /\ err = "none" /\ pos[s] < Len(Shared)
        /\ UNCHANGED <<child, once, err, batches, path, file, closed, answer>>
        /\ pos' = [pos EXCEPT ![s] = p] /\ got' = [got EXCEPT ![s] = q]
    BY <1>8 DEF AnswerBatch, Goes, query, run
  <2>2. /\ closed # Sites /\ Came(s) /\ Shared \in Seq(Nat) /\ got[s] \in Seq(Nat)
        /\ InOrder(Shared) /\ Len(child) \in Nat /\ ToSet(Shared) = Rows(Len(child))
    BY <1>c, <2>1
  <2>3. /\ pos[s] = Len(got[s]) /\ pos[s] \in Nat /\ p \in Nat /\ p <= Len(Shared) /\ Shared[p] \in Nat
        /\ \A i \in 1..pos[s] : got[s][i] = Shared[i]
    <3>1. pos[s] \in Nat /\ pos[s] = Len(got[s]) /\ \A i \in 1..pos[s] : got[s][i] = Shared[i]
      BY <1>0, <2>2 DEF Came, Typed
    <3>2. Len(Shared) \in Nat
      BY <2>2
    <3>3. p \in 1..Len(Shared)
      BY <2>1, <3>1, <3>2
    <3>4. Shared[p] \in Nat
      BY <2>2, <3>3
    <3>5. p \in Nat /\ p <= Len(Shared)
      BY <3>2, <3>3
    <3>. HIDE DEF p
    <3>. QED BY <3>1, <3>4, <3>5
  <2>4. /\ q \in Seq(Nat) /\ Len(q) = p /\ \A i \in 1..p : q[i] = Shared[i]
    <3>1. Shared[p] \in Nat /\ got[s] \in Seq(Nat) /\ Len(got[s]) = pos[s]
      BY <2>2, <2>3
    <3>. HIDE DEF Shared
    <3>. QED BY <2>3, <3>1
  <2>. HIDE DEF q, p, Shared
  <2>5. /\ InOrder(q) /\ ToSet(q) \subseteq Rows(Len(child))
        /\ \A k \in ToSet(q) : Rows(k) \subseteq ToSet(q)
    BY <2>2, <2>3, <2>4, FrontHasNoGap
  <2>6. /\ pos'[s] = p /\ got'[s] = q
        /\ \A t \in Sites : t # s => pos'[t] = pos[t] /\ got'[t] = got[t]
    BY <1>0, <2>1 DEF Typed
  <2>7. Shared' = Shared /\ \A k : Rows(k)' = Rows(k)
    BY <2>1 DEF Shared, Rows
  <2>8. \A t \in Sites : Came(t)'
    <3>1. \A t \in Sites : Came(t)
      BY <1>0, <2>1, <2>2 DEF Replayed
    <3>. QED BY <2>3, <2>4, <2>6, <2>7, <3>1 DEF Came
  <2>9. ToSet(got[s]) \subseteq ToSet(q)
    <3>1. \A i \in DOMAIN got[s] : i \in DOMAIN q /\ q[i] = got[s][i]
      <4>1. DOMAIN got[s] = 1..pos[s] /\ DOMAIN q = 1..p
        BY <2>2, <2>3, <2>4
      <4>2. \A i \in 1..pos[s] : i \in 1..p
        BY <2>3 DEF p
      <4>. QED BY <2>3, <2>4, <4>1, <4>2
    <3>. QED BY <3>1 DEF ToSet
  <2>10. \A t \in Sites : InOneGo(t)'
    <3>1. \A t \in Sites : InOneGo(t)
      BY <1>0 DEF Replayed
    <3>2. ASSUME NEW t \in Sites, t # s PROVE InOneGo(t)'
      BY <2>1, <2>6, <2>7, <3>1, <3>2 DEF InOneGo, ReplaysInOrder, Rows
    <3>3. ASSUME NEW t \in Sites, t = s PROVE InOneGo(t)'
      <4>1. answer[s] = "eof" => ToSet(q) = Rows(Len(child))
        BY <2>5, <2>9, <3>1 DEF InOneGo, ReplaysInOrder
      <4>. QED BY <2>1, <2>5, <2>6, <3>3, <4>1 DEF InOneGo, ReplaysInOrder, Rows
    <3>. QED BY <3>2, <3>3
  <2>. QED BY <2>1, <2>8, <2>10 DEF Replayed
<1>9. ASSUME NEW s \in Sites, Release(s) PROVE Replayed'
  <2>1. closed' = Sites /\ UNCHANGED <<child, once, err, pos, got, answer>>
    BY <1>0, <1>9 DEF Release, Goes, OneRuns, query, site
  <2>2. \A t \in Sites : InOneGo(t) => InOneGo(t)'
    BY <2>1 DEF InOneGo, ReplaysInOrder, Rows
  <2>. QED BY <1>0, <2>1, <2>2 DEF Replayed
<1>. QED BY <1>1, <1>2, <1>3, <1>4, <1>5, <1>6, <1>7, <1>8, <1>9 DEF Next, Step

-----------------------------------------------------------------------------
(* What each site is told.                                                 *)

(* A run's error is every site's, and an end is only of a run without one. *)
LEMMA ToldStep == Inv /\ [Next]_vars => Told'
<1>. SUFFICES ASSUME Inv, [Next]_vars PROVE Told'
  OBVIOUS
<1>0. Typed /\ OneRuns /\ Drained /\ Told
  BY DEF Inv
<1>a. ASSUME UNCHANGED <<child, once, err, answer>> PROVE Told'
  BY <1>0, <1>a DEF Told, Last
<1>b. ASSUME NEW s \in Sites, pc[s] = "drain"
      PROVE  /\ once = "running" /\ \A t \in Sites : answer[t] = "none"
             /\ child[pulled + 1] \in Ends => child[pulled + 1] = Last(child)
  <2>1. once = "running" /\ s \notin closed
    BY <1>0, <1>b DEF OneRuns
  <2>2. Running
    BY <1>0, <2>1 DEF Drained
  <2>3. child[pulled + 1] \in Ends => pulled + 1 = Len(child)
    BY <1>0, <2>2, NextAnswer
  <2>. QED BY <1>0, <2>1, <2>3 DEF Told, Last
<1>c. ASSUME NEW s \in Sites, NEW e, once = "done", UNCHANGED <<child, once, err>>,
             answer' = [answer EXCEPT ![s] = e],
             IF err = "none" THEN e \in {"eof", "unread"} ELSE e = err
      PROVE  Told'
  <2>1. \A t \in Sites : answer'[t] = IF t = s THEN e ELSE answer[t]
    BY <1>0, <1>c DEF Typed
  <2>. QED BY <1>0, <1>c, <2>1 DEF Told, Last
<1>1. CASE UNCHANGED vars
  BY <1>1, <1>a DEF vars, query, run, site
<1>2. ASSUME NEW s \in Sites, \/ ContextEnds(s) \/ Call(s) \/ DrainEmpty(s)
                            \/ AnswerBatch(s) \/ Close(s) \/ Release(s)
      PROVE  Told'
  BY <1>2, <1>a DEF ContextEnds, Call, DrainEmpty, AnswerBatch, Close, Release, query, run, site
<1>3. ASSUME NEW s \in Sites, Run(s) PROVE Told'
  BY <1>0, <1>3 DEF Run, Told, query, site
<1>4. ASSUME NEW s \in Sites, DrainCancelled(s) \/ DrainRows(s) PROVE Told'
  <2>1. /\ pc[s] = "drain" /\ UNCHANGED <<child, answer>>
        /\ UNCHANGED <<once, err>> \/ (once' = "done" /\ err' \in {"ctx", "disk"})
    BY <1>4 DEF DrainCancelled, DrainRows, DrainEnds, query, site
  <2>. QED BY <1>a, <1>b, <2>1 DEF Told
<1>5. ASSUME NEW s \in Sites, DrainFails(s) \/ DrainEof(s) PROVE Told'
  <2>1. /\ pc[s] = "drain" /\ UNCHANGED <<child, answer>> /\ once' = "done"
        /\ child[pulled + 1] \in Ends
        /\ err' = "none" => child[pulled + 1] \in {"eof", "exit"}
    BY <1>5 DEF DrainFails, DrainEof, DrainEnds, query, site, Ends
  <2>. QED BY <1>b, <2>1 DEF Told, Last
<1>6. ASSUME NEW s \in Sites, AnswerError(s) PROVE Told'
  BY <1>6, <1>c DEF AnswerError, query, run
<1>7. ASSUME NEW s \in Sites, AnswerUnread(s) PROVE Told'
  BY <1>7, <1>c DEF AnswerUnread, query, run
<1>8. ASSUME NEW s \in Sites, AnswerEof(s) PROVE Told'
  BY <1>8, <1>c DEF AnswerEof, query, run
<1>. QED BY <1>1, <1>2, <1>3, <1>4, <1>5, <1>6, <1>7, <1>8 DEF Next, Step

-----------------------------------------------------------------------------
(* What is let go of, and when.                                            *)

(* The subplan is closed once, by its end or by the last site.             *)
LEMMA LetGoStep == Inv /\ [Next]_vars => LetGo'
<1>. SUFFICES ASSUME Inv, [Next]_vars PROVE LetGo'
  OBVIOUS
<1>0. Typed /\ OneRuns /\ LetGo
  BY DEF Inv
<1>a. ASSUME UNCHANGED <<childCloses, closed>>, once = "done" => once' = "done",
             NEW s \in Sites, s \notin closed
      PROVE  LetGo'
  BY <1>0, <1>a DEF LetGo, Typed
<1>1. CASE UNCHANGED vars
  BY <1>0, <1>1 DEF vars, run, LetGo, Released
<1>2. ASSUME NEW s \in Sites, ContextEnds(s) PROVE LetGo'
  BY <1>2, <1>a DEF ContextEnds, run
<1>3. ASSUME NEW s \in Sites, Call(s) \/ AnswerError(s) \/ AnswerBatch(s) \/ AnswerUnread(s) \/ AnswerEof(s)
      PROVE  LetGo'
  <2>1. pc[s] \in {"out", "enter"} /\ UNCHANGED <<once, childCloses, closed>>
    BY <1>3 DEF Call, AnswerError, AnswerBatch, AnswerUnread, AnswerEof, Goes, run
  <2>2. s \notin closed
    BY <1>0, <2>1 DEF OneRuns
  <2>. QED BY <1>a, <2>1, <2>2
<1>4. ASSUME NEW s \in Sites, Run(s) PROVE LetGo'
  <2>1. pc[s] = "enter" /\ once = "idle" /\ UNCHANGED <<childCloses, closed>>
    BY <1>4 DEF Run, Goes
  <2>2. s \notin closed
    BY <1>0, <2>1 DEF OneRuns
  <2>. QED BY <1>a, <2>1, <2>2
<1>5. ASSUME NEW s \in Sites, DrainCancelled(s) \/ DrainEmpty(s) \/ DrainRows(s) \/ DrainFails(s)
      PROVE  LetGo'
  <2>1. pc[s] = "drain" /\ UNCHANGED <<childCloses, closed>>
    BY <1>5 DEF DrainCancelled, DrainEmpty, DrainRows, DrainFails
  <2>2. s \notin closed /\ once = "running"
    BY <1>0, <2>1 DEF OneRuns
  <2>. QED BY <1>a, <2>1, <2>2
<1>6. ASSUME NEW s \in Sites, DrainEof(s) PROVE LetGo'
  <2>1. /\ pc[s] = "drain" /\ closed' = closed /\ once' = "done"
        /\ childCloses' = childCloses \/ childCloses' = childCloses + 1
    BY <1>6 DEF DrainEof, DrainEnds
  <2>2. s \notin closed /\ once = "running"
    BY <1>0, <2>1 DEF OneRuns
  <2>3. childCloses = 0
    BY <1>0, <2>2 DEF LetGo
  <2>. QED BY <2>1, <2>2, <2>3 DEF LetGo
<1>7. ASSUME NEW s \in Sites, Close(s) PROVE LetGo'
  <2>1. pc[s] \in {"out", "gone"} /\ closed' = closed \union {s} /\ UNCHANGED <<once, childCloses>>
    BY <1>7 DEF Close, run
  <2>2. pc'[s] = IF closed' = Sites THEN "release" ELSE "closed"
    BY <1>0, <1>7, SiteMoves DEF Close, SitePcs
  <2>3. closed # Sites
    BY <1>0, <2>1 DEF OneRuns
  <2>. QED BY <1>0, <2>1, <2>2, <2>3 DEF LetGo
<1>8. ASSUME NEW s \in Sites, Release(s) PROVE LetGo'
  <2>1. /\ closed' = Sites /\ batches' = <<>> /\ file' = <<>> /\ path' = FALSE
        /\ childCloses' = childCloses + (IF childCloses > 0 THEN 0 ELSE 1)
    BY <1>0, <1>8 DEF Release, Goes, OneRuns
  <2>2. childCloses' = 1
    BY <1>0, <2>1 DEF LetGo
  <2>. QED BY <2>1, <2>2 DEF LetGo, Released
<1>. QED BY <1>1, <1>2, <1>3, <1>4, <1>5, <1>6, <1>7, <1>8 DEF Next, Step

-----------------------------------------------------------------------------

(* Before any site calls nothing is held.                                  *)
LEMMA InvInit == Init => Inv
<1>. SUFFICES ASSUME Init PROVE Inv
  OBVIOUS
<1>1. Typed
  BY TypedInit
<1>2. OneRuns
  BY DEF Init, OneRuns
<1>3. Len(child) \in Nat \ {0}
  BY <1>1, ChildTyped DEF Typed
<1>4. Drained
  <2>1. Shared = <<>> /\ Rows(0) = {}
    BY DEF Init, Shared, Rows
  <2>2. InOrder(Shared) /\ ToSet(Shared) = Rows(pulled)
    BY <2>1 DEF InOrder, ToSet, Init
  <2>. QED BY <1>3, <2>2 DEF Drained, Running, AllHeld, Init
<1>5. Replayed
  <2>1. \A s \in Sites : got[s] = <<>> /\ pos[s] = 0 /\ answer[s] = "none"
    BY DEF Init
  <2>2. InOrder(<<>>) /\ ToSet(<<>>) = {}
    BY DEF InOrder, ToSet
  <2>. QED BY <2>1, <2>2 DEF Replayed, InOneGo, ReplaysInOrder, Init
<1>6. LetGo
  BY SitesAssumption DEF LetGo, Init
<1>7. Told
  <2>1. once = "idle" /\ \A s \in Sites : answer[s] = "none"
    BY DEF Init
  <2>. QED BY <2>1 DEF Told
<1>. QED BY <1>1, <1>2, <1>4, <1>5, <1>6, <1>7 DEF Inv

(* The invariant holds of every state of a shared subplan.                 *)
THEOREM SharedInvariance == Spec => []Inv
<1>1. Inv /\ [Next]_vars => Inv'
  BY TypedStep, OneRunsStep, DrainedStep, ReplayedStep, ToldStep, LetGoStep DEF Inv
<1>. QED BY <1>1, InvInit, PTL DEF Spec

(* Every site is given the subplan's batches of rows, in order and with no *)
(* gap, whichever of them ran it and whether they were held or spilled; an *)
(* end is told only of a subplan that came to it, after all its batches,   *)
(* and to no site while another is told that the run failed.  Of the end   *)
(* of a subplan that stops the goroutine of its run (cache.go:84) it says  *)
(* nothing.                                                                *)
THEOREM SitesReplay == Spec => []EverySiteReplays
<1>1. Inv => EverySiteReplays
  <2>. SUFFICES ASSUME Inv PROVE EverySiteReplays
    OBVIOUS
  <2>1. Typed /\ Replayed /\ Told
    BY DEF Inv
  <2>2. ASSUME NEW s \in Sites, answer[s] = "eof"
        PROVE  /\ Last(child) # "exit" => Last(child) = "eof"
               /\ \A t \in Sites : answer[t] \in {"none", "eof", "unread"}
    <3>1. once = "done" /\ err = "none"
      BY <2>1, <2>2 DEF Told, Typed, Errs
    <3>. QED BY <2>1, <3>1 DEF Told
  <2>. QED BY <2>1, <2>2 DEF Replayed, InOneGo, EverySiteReplays
<1>. QED BY <1>1, SharedInvariance, PTL

(* The subplan is closed once, when no one runs it; what an open site may  *)
(* read is there; and the last site to close leaves nothing.               *)
THEOREM LastReleases == Spec => []ReleasedByTheLast
<1>1. Inv => ReleasedByTheLast
  <2>. SUFFICES ASSUME Inv PROVE ReleasedByTheLast
    OBVIOUS
  <2>0. Typed /\ OneRuns /\ Drained /\ Replayed /\ LetGo
    BY DEF Inv
  <2>1. childCloses <= 1
    BY <2>0 DEF LetGo
  <2>2. once = "running" => childCloses = 0
    BY <2>0 DEF LetGo, OneRuns
  <2>3. ASSUME NEW s \in Sites, s \notin closed, once = "done", err = "none"
        PROVE  IsPrefix(got[s], Shared) /\ InOrder(Shared) /\ ToSet(Shared) = Rows(Len(child))
    <3>1. Came(s) /\ pulled = Len(child) /\ AllHeld
      BY <2>0, <2>3 DEF Replayed, Drained
    <3>2. /\ got[s] \in Seq(Nat) /\ Shared \in Seq(Nat)
          /\ Len(got[s]) <= Len(Shared) /\ \A i \in 1..Len(got[s]) : got[s][i] = Shared[i]
      BY <2>0, <3>1 DEF Typed, Shared, Came
    <3>3. SubSeq(got[s], 1, Len(got[s])) = SubSeq(Shared, 1, Len(got[s]))
      <4>. HIDE DEF Shared
      <4>. QED BY <3>2
    <3>. QED BY <3>1, <3>2, <3>3 DEF IsPrefix, AllHeld
  <2>4. ASSUME \A s \in Sites : pc[s] = "closed"
        PROVE  childCloses = 1 /\ Shared = <<>> /\ ~path /\ ~writer
    <3>1. closed = Sites
      BY <2>0, <2>4 DEF OneRuns, Typed
    <3>2. Released
      BY <2>0, <2>4, <3>1 DEF LetGo
    <3>3. once # "running"
      BY <2>0, <2>4 DEF OneRuns
    <3>. QED BY <2>0, <3>2, <3>3 DEF Released, Shared, Drained
  <2>. QED BY <2>1, <2>2, <2>3, <2>4 DEF ReleasedByTheLast
<1>. QED BY <1>1, SharedInvariance, PTL

=============================================================================
