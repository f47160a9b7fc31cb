------------------------------- MODULE Ledger -------------------------------
(***************************************************************************)
(* One query's memory ledger: Budget and its Accounts                      *)
(* (internal/execopt/budget.go).                                           *)
(*                                                                         *)
(* An allocation is counted once however many operators hold it, by a      *)
(* count of the accounts that do.  The budget's mutex is held for one      *)
(* allocation at a time, so the accounts of operators on different         *)
(* goroutines interleave between the allocations of one Retain or Release. *)
(* An account itself is one goroutine's.                                   *)
(***************************************************************************)
EXTENDS Integers, FiniteSets, FiniteSetsExt

CONSTANTS
  Ids,         \* the allocations: data.BufferID
  Operators,   \* the accounts opened by Budget.Account
  Collect,     \* the account opened by Budget.Result
  Spans,       \* the views of an allocation a column may have
  MaxRaw       \* the most bytes without a BufferID an account records

Accounts == Operators \union {Collect}

(* A view's bytes, [lo, hi) counted back from the allocation's end.        *)
Size(sp) == sp.hi - sp.lo

(* Spans emits no view of no bytes, so it stands here for none at all.     *)
NoSpan == [lo |-> 0, hi |-> 0]

ASSUME LedgerAssumption ==
  /\ Collect \notin Operators
  /\ IsFiniteSet(Operators) /\ IsFiniteSet(Ids)
  /\ Spans \subseteq {s \in [lo : Int, hi : Int] : s.lo < s.hi /\ s.hi <= 0}
  /\ \A s, t \in Spans :
       [lo |-> IF s.lo < t.lo THEN s.lo ELSE t.lo,
        hi |-> IF s.hi > t.hi THEN s.hi ELSE t.hi] \in Spans
  /\ MaxRaw \in Nat

VARIABLES
  ids,        \* ids[a][id]: the view account a has of id, NoSpan for none
  released,   \* the allocations a Release under way has given up already
  raw,        \* plain bytes: RetainBytes
  used,       \* what the account says it holds
  held,       \* held[id]: the budget's entry, with no refs for none
  total,      \* what the operators hold
  kept,       \* what only the result holds, on top of total
  peak        \* the highest total

ledgerVars == <<ids, released, raw, used, held, total, kept, peak>>

NoEntry == [span |-> NoSpan, refs |-> 0, kept |-> 0]

LedgerInit ==
  /\ ids = [a \in Accounts |-> [id \in Ids |-> NoSpan]]
  /\ released = [a \in Accounts |-> {}]
  /\ raw = [a \in Accounts |-> 0]
  /\ used = [a \in Accounts |-> 0]
  /\ held = [id \in Ids |-> NoEntry]
  /\ total = 0
  /\ kept = 0
  /\ peak = 0

-----------------------------------------------------------------------------

(* The least span covering two.                                            *)
With(s, t) == [lo |-> IF s.lo < t.lo THEN s.lo ELSE t.lo,
               hi |-> IF s.hi > t.hi THEN s.hi ELSE t.hi]

IsResult(a) == a = Collect

(* Mutant of CountedOps: a result is charged with the operators.           *)
CountedOpsAnyone(e) == IF e.refs > 0 THEN Size(e.span) ELSE 0

(* An entry's size is the operators' when one of them holds it, else the   *)
(* result's.                                                               *)
CountedOps(e)  == IF e.refs > e.kept THEN Size(e.span) ELSE 0
CountedKept(e) == IF e.refs > 0 /\ e.refs = e.kept THEN Size(e.span) ELSE 0

Larger(m, n) == IF m > n THEN m ELSE n

(* The entry of id becomes e, and both totals follow.                      *)
Move(id, e) ==
  /\ held' = [held EXCEPT ![id] = e]
  /\ total' = total + CountedOps(e) - CountedOps(held[id])
  /\ kept' = kept + CountedKept(e) - CountedKept(held[id])
  /\ peak' = Larger(peak, total')

(* Mutant of RetainEntry: the first holder's view stays the entry's.       *)
RetainEntryAsFirst(a, id, sp) ==
  LET e == held[id] IN
    Move(id, [span |-> IF e.refs = 0 THEN sp ELSE e.span,
              refs |-> e.refs + 1,
              kept |-> e.kept + IF IsResult(a) THEN 1 ELSE 0])

(* Budget.retain: one more account holds id, with a view of it.            *)
RetainEntry(a, id, sp) ==
  LET e == held[id] IN
    Move(id, [span |-> IF e.refs = 0 THEN sp ELSE With(e.span, sp),
              refs |-> e.refs + 1,
              kept |-> e.kept + IF IsResult(a) THEN 1 ELSE 0])

(* Budget.release: one account less, and no entry once none is left.       *)
ReleaseEntry(a, id) ==
  LET refs == held[id].refs - 1 IN
    Move(id, IF refs <= 0
             THEN NoEntry
             ELSE [span |-> held[id].span,
                   refs |-> refs,
                   kept |-> held[id].kept - IF IsResult(a) THEN 1 ELSE 0])

(* Mutant of AddExtra: a result's bytes are charged with the operators'.   *)
AddExtraToOperators(a, n) ==
  total' = total + n /\ peak' = Larger(peak, total') /\ UNCHANGED kept /\ a \in Accounts

(* Budget.addExtra.                                                        *)
AddExtra(a, n) ==
  IF IsResult(a)
  THEN kept' = kept + n /\ UNCHANGED <<total, peak>>
  ELSE total' = total + n /\ peak' = Larger(peak, total') /\ UNCHANGED kept

Holds(a) == {id \in Ids : ids[a][id] # NoSpan}
Open(a) == released[a] = {}

-----------------------------------------------------------------------------

(* retainColumn on an allocation the account does not hold.                *)
RetainNew(a, id, sp) ==
  /\ Open(a)
  /\ id \notin Holds(a)
  /\ ids' = [ids EXCEPT ![a][id] = sp]
  /\ RetainEntry(a, id, sp)
  /\ used' = [used EXCEPT ![a] = @ + Size(sp)]
  /\ UNCHANGED <<released, raw>>

(* Mutant of RetainWider: another view of it is another reference.         *)
RetainWiderAgain(a, id, sp) ==
  /\ Open(a)
  /\ id \in Holds(a)
  /\ held[id].refs <= Cardinality(Accounts)
  /\ ids' = [ids EXCEPT ![a][id] = With(@, sp)]
  /\ RetainEntry(a, id, sp)
  /\ used' = [used EXCEPT ![a] = @ + Size(With(ids[a][id], sp)) - Size(ids[a][id])]
  /\ UNCHANGED <<released, raw>>

(* retainColumn on another view of an allocation it holds: widen, and      *)
(* nothing where the view adds nothing.                                    *)
RetainWider(a, id, sp) ==
  /\ Open(a)
  /\ id \in Holds(a)
  /\ LET u == With(ids[a][id], sp) IN
       /\ u # ids[a][id]
       /\ ids' = [ids EXCEPT ![a][id] = u]
       /\ Move(id, [held[id] EXCEPT !.span = With(@, u)])
       /\ used' = [used EXCEPT ![a] = @ + Size(u) - Size(ids[a][id])]
  /\ UNCHANGED <<released, raw>>

(* RetainBytes: more plain bytes, or fewer.                                *)
RetainBytes(a, n) ==
  /\ Open(a)
  /\ n # 0
  /\ raw[a] + n \in 0..MaxRaw
  /\ raw' = [raw EXCEPT ![a] = @ + n]
  /\ AddExtra(a, n)
  /\ used' = [used EXCEPT ![a] = @ + n]
  /\ UNCHANGED <<ids, released, held>>

(* Release gives the allocations up one at a time.                         *)
ReleaseOne(a, id) ==
  /\ id \in Holds(a) \ released[a]
  /\ ReleaseEntry(a, id)
  /\ released' = [released EXCEPT ![a] = @ \union {id}]
  /\ UNCHANGED <<ids, raw, used>>

(* Then it forgets them, and gives up its plain bytes.                     *)
ReleaseEnd(a) ==
  /\ released[a] = Holds(a)
  /\ Holds(a) # {} \/ raw[a] # 0
  /\ ids' = [ids EXCEPT ![a] = [id \in Ids |-> NoSpan]]
  /\ released' = [released EXCEPT ![a] = {}]
  /\ raw' = [raw EXCEPT ![a] = 0]
  /\ used' = [used EXCEPT ![a] = 0]
  /\ AddExtra(a, -raw[a])
  /\ UNCHANGED held

LedgerNext ==
  \E a \in Accounts :
    \/ \E id \in Ids, sp \in Spans : RetainNew(a, id, sp) \/ RetainWider(a, id, sp)
    \/ \E n \in -MaxRaw..MaxRaw : RetainBytes(a, n)
    \/ \E id \in Ids : ReleaseOne(a, id)
    \/ ReleaseEnd(a)

LedgerSpec == LedgerInit /\ [][LedgerNext]_ledgerVars

-----------------------------------------------------------------------------
(* What holds of it.                                                       *)

(* The accounts that hold id now: a Release under way has given up some.   *)
Holders(id) == {a \in Accounts : id \in Holds(a) \ released[a]}

(* Every variable has its type; no count goes below none.                  *)
TypeOK ==
  /\ ids \in [Accounts -> [Ids -> Spans \union {NoSpan}]]
  /\ released \in [Accounts -> SUBSET Ids]
  /\ raw \in [Accounts -> Nat]
  /\ used \in [Accounts -> Int]
  /\ held \in [Ids -> [span : Spans \union {NoSpan}, refs : Nat, kept : Nat]]
  /\ total \in Int /\ kept \in Int /\ peak \in Nat

(* An allocation is counted once for each account that holds it, whatever  *)
(* the accounts' retains and releases interleave into: no reference is     *)
(* lost, and the last release alone frees the entry.                       *)
RefsExact ==
  \A id \in Ids :
    /\ held[id].refs = Cardinality(Holders(id))
    /\ held[id].kept = Cardinality(Holders(id) \intersect {Collect})

(* An entry's span covers every view its holders have of the allocation:   *)
(* nothing an operator still reads goes uncounted.                         *)
Covers(s, t) == s.lo <= t.lo /\ t.hi <= s.hi
SpanCoversHolders ==
  \A id \in Ids : \A a \in Holders(id) : Covers(held[id].span, ids[a][id])

(* Each allocation is in one total, once: the operators' when one of them  *)
(* holds it, whoever else does, and the result's when only the result      *)
(* does; and plain bytes are their account's.  What an account says it     *)
(* holds is what its views of its allocations, and its bytes, come to.     *)
OperatorsHold(id) == Holders(id) \intersect Operators # {}
TotalsExact ==
  LET size == [id \in Ids |-> Size(held[id].span)] IN
    /\ total = SumFunctionOnSet(size, {id \in Ids : OperatorsHold(id)})
                 + SumFunctionOnSet(raw, Operators)
    /\ kept = SumFunctionOnSet(size, {id \in Ids : Holders(id) = {Collect}}) + raw[Collect]
    /\ \A a \in Accounts :
         used[a] = SumFunctionOnSet([id \in Ids |-> Size(ids[a][id])], Ids) + raw[a]

(* A result cannot make an operator spill: a step of Collect's account on  *)
(* an allocation no operator holds moves neither the operators' total nor  *)
(* its peak.                                                               *)
ResultApart ==
  [][(/\ \A a \in Operators : ids'[a] = ids[a] /\ raw'[a] = raw[a] /\ released'[a] = released[a]
      /\ \A id \in Ids : OperatorsHold(id) => held'[id].span = held[id].span)
        => UNCHANGED <<total, peak>>]_ledgerVars
=============================================================================
