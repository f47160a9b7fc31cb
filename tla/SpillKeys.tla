----------------------------- MODULE SpillKeys -----------------------------
(***************************************************************************)
(* The hash group-by and the streaming unique, and what they do past their *)
(* budget (internal/physical/agg.go, aggconsume.go, extagg.go; ops2.go,    *)
(* extdistinct.go).                                                        *)
(*                                                                         *)
(* Both admit keys until they pass it, then none: a row of a key they do   *)
(* not hold goes to a file by the hash of its key, and each file is read   *)
(* back through an operator of its own, a level deeper, with another hash. *)
(* A row is its key and its number, its place in the input, which is its   *)
(* value.  A group is its rows in the order they were folded: First, Last  *)
(* and every other aggregate is read off it.  What is asked, q, is         *)
(*   ordered  of a group-by: MaintainOrder                                 *)
(*   hash     the bucket of a key at each level                            *)
(*   over     the batches, by level and place, after which the account is  *)
(*            over the room it has                                         *)
(*   alone    the query alone is over its limit whenever it is over that   *)
(* What one resident group's values do when they are many (spillValues) is *)
(* left out, and so is the error that ends it.                             *)
(***************************************************************************)
EXTENDS Integers, Sequences, FiniteSets, SequencesExt

CONSTANTS
  NoAnswer,        \* stands for no answer yet
  Keys,            \* the keys a row may have
  NParts,          \* nParts: the hash buckets
  MaxSpillDepth,   \* maxSpillDepth: the last level
  Groupings,       \* the group-bys asked: [q, batches]
  Uniques          \* the uniques asked: [q, batches]

Parts  == 0..NParts-1
Levels == 0..MaxSpillDepth
Row    == [key : Keys, id : Nat]
Input  == Seq(Seq(Row))

Numbered(rows) == \A i, j \in DOMAIN rows : i < j => rows[i].id < rows[j].id

Asked(x) ==
  /\ x.batches \in Input /\ Numbered(FlattenSeq(x.batches))
  /\ x.q.alone \in BOOLEAN
  /\ \A level \in Levels, key \in Keys : x.q.hash[level][key] \in Parts

ASSUME KeysAssumption ==
  /\ NParts \in Nat \ {0} /\ MaxSpillDepth \in Nat
  /\ \A x \in Uniques : Asked(x)
  /\ \A x \in Groupings : Asked(x) /\ x.q.ordered \in BOOLEAN

KeysOf(rows) == {r.key : r \in ToSet(rows)}

(* The rows in S, as they stand.                                           *)
Only(rows, S) ==
  LET only[i \in 0..Len(rows)] ==
        IF i = 0 THEN <<>>
        ELSE IF rows[i] \in S THEN Append(only[i - 1], rows[i]) ELSE only[i - 1]
  IN only[Len(rows)]

(* The first row of each key that keys has not.                            *)
New(keys, rows) ==
  Only(rows, {r \in ToSet(rows) :
                r.key \notin keys /\ ~\E x \in ToSet(rows) : x.key = r.key /\ x.id < r.id})

(* Places in the order of their numbers, ties as they stand.               *)
ByNumber(number) ==
  LET Before(i, j) == number[i] < number[j] \/ (number[i] = number[j] /\ i < j) IN
  [k \in DOMAIN number |->
     CHOOSE i \in DOMAIN number :
       Cardinality({j \in DOMAIN number : Before(j, i)}) = k - 1]

(* Batches of no rows are not written, and not read.                       *)
Written(file, rows) == IF rows = <<>> THEN file ELSE Append(file, rows)

-----------------------------------------------------------------------------
(* The group-by.                                                           *)

NoGroups(level) ==
  [level |-> level, batch |-> 1, frozen |-> FALSE, held |-> <<>>,
   files |-> [p \in Parts |-> <<>>]]

(* Mutant of Resident: looking a key up admits it, for the rows after.     *)
ResidentOnceMissed(s, r) ==
  ~s.frozen \/ r.key \in KeysOf(s.held \o FlattenSeq(FlattenSeq(
                           [i \in 1..NParts |-> s.files[i - 1]])))

(* A key resident at the freeze stays so; every later row of another goes  *)
(* to the file of its bucket, in the order of the input.                   *)
Resident(s, r) == ~s.frozen \/ r.key \in KeysOf(s.held)

RouteGroups(q, s, in) ==
  [p \in Parts |->
     Written(s.files[p],
             Only(in, {r \in ToSet(in) : ~Resident(s, r) /\ q.hash[s.level][r.key] = p}))]

(* consumed, at a batch's end: at the last level only for the query's own. *)
Freezes(q, s) ==
  /\ <<s.level, s.batch>> \in q.over
  /\ s.level < MaxSpillDepth \/ q.alone

Consume(q, s, in) ==
  [s EXCEPT !.held = @ \o Only(in, {r \in ToSet(in) : Resident(s, r)}),
            !.files = RouteGroups(q, s, in),
            !.batch = @ + 1, !.frozen = @ \/ Freezes(q, s)]

Drained(q, level, batches) ==
  LET s[k \in 0..Len(batches)] ==
        IF k = 0 THEN NoGroups(level) ELSE Consume(q, s[k - 1], batches[k])
  IN s[Len(batches)]

(* residentResult: the groups in the order their first rows came.          *)
GroupsOf(rows) ==
  LET firsts == New({}, rows) IN
  [g \in DOMAIN firsts |-> Only(rows, {r \in ToSet(rows) : r.key = firsts[g].key})]

(* aggSpillOp and collectOrdered: what is resident, then each file's       *)
(* groups, bucket by bucket.  A file is not grouped past the last level.   *)
Collected(q) ==
  LET collect[level \in Levels] == [batches \in Input |->
        LET s    == Drained(q, level, batches)
            subs == [i \in 1..NParts |->
                       CASE s.files[i - 1] = <<>> -> [groups |-> <<>>, refused |-> FALSE]
                         [] s.files[i - 1] # <<>> /\ level = MaxSpillDepth
                                                  -> [groups |-> <<>>, refused |-> TRUE]
                         [] OTHER -> collect[level + 1][s.files[i - 1]]]
        IN [groups  |-> GroupsOf(s.held) \o FlattenSeq([i \in 1..NParts |-> subs[i].groups]),
            spilled |-> \E p \in Parts : s.files[p] # <<>>,
            refused |-> \E i \in 1..NParts : subs[i].refused]]
  IN collect

(* finishOrdered: by the ordinal of the row that made the group.           *)
FirstSeen(groups) ==
  LET at == ByNumber([g \in DOMAIN groups |-> groups[g][1].id]) IN
  [k \in DOMAIN at |-> groups[at[k]]]

Grouped(q, batches) ==
  LET all == Collected(q)[0][batches] IN
  IF q.ordered /\ all.spilled THEN [all EXCEPT !.groups = FirstSeen(@)] ELSE all

-----------------------------------------------------------------------------
(* The unique.  The first row of each key is given out as it is read, and  *)
(* none once a key is routed.                                              *)

NoRows(level) ==
  [level |-> level, batch |-> 1, frozen |-> FALSE, refused |-> FALSE, keys |-> {},
   out |-> <<>>, files |-> [p \in Parts |-> <<>>]]

(* route: a row of a key that is held is a duplicate, and goes nowhere.    *)
RouteRows(q, s, in) ==
  [p \in Parts |->
     Written(s.files[p],
             Only(in, {r \in ToSet(in) : r.key \notin s.keys /\ q.hash[s.level][r.key] = p}))]

(* overBudget: at a batch's end, with a key held, above the last level.    *)
OverBudget(q, s) ==
  IF <<s.level, s.batch>> \notin q.over THEN s
  ELSE IF s.keys # {} /\ s.level < MaxSpillDepth THEN [s EXCEPT !.frozen = TRUE]
  ELSE [s EXCEPT !.refused = q.alone]

(* One batch of the child.  A refusal keeps the batch's rows, and ends it. *)
Pull(q, s, in) ==
  LET new == New(s.keys, in)
      t   == OverBudget(q, [s EXCEPT !.keys = @ \union KeysOf(new)])
  IN CASE s.refused -> s
       [] ~s.refused /\ s.frozen -> [s EXCEPT !.files = RouteRows(q, s, in), !.batch = @ + 1]
       [] OTHER -> [t EXCEPT !.out = IF t.refused THEN @ ELSE @ \o new, !.batch = @ + 1]

Pulled(q, level, batches) ==
  LET s[k \in 0..Len(batches)] ==
        IF k = 0 THEN NoRows(level) ELSE Pull(q, s[k - 1], batches[k])
  IN s[Len(batches)]

MergeByOrdinal(rows) ==
  LET at == ByNumber([i \in DOMAIN rows |-> rows[i].id]) IN [k \in DOMAIN at |-> rows[at[k]]]

(* Next to the end, and replay: each file through a unique a level deeper. *)
Uniqued(q) ==
  LET unique[level \in Levels] == [batches \in Input |->
        LET s    == Pulled(q, level, batches)
            subs == [i \in 1..NParts |->
                       IF s.files[i - 1] = <<>> THEN [rows |-> <<>>, refused |-> FALSE]
                       ELSE unique[level + 1][s.files[i - 1]]]
        IN [rows    |-> s.out \o MergeByOrdinal(FlattenSeq([i \in 1..NParts |-> subs[i].rows])),
            refused |-> s.refused \/ \E i \in 1..NParts : subs[i].refused]]
  IN unique

-----------------------------------------------------------------------------
(* A question is posed and answered.                                       *)

VARIABLES
  op,         \* the operator that is asked
  question,   \* what it was given, NoAnswer before it has answered
  answer      \* what the operator answers, NoAnswer before it has

vars == <<op, question, answer>>

KeysInit == op \in {"groups", "unique"} /\ question = NoAnswer /\ answer = NoAnswer

AnswerGroups ==
  /\ op = "groups" /\ answer = NoAnswer /\ UNCHANGED op
  /\ \E x \in Groupings : question' = x /\ answer' = Grouped(x.q, x.batches)

AnswerUnique ==
  /\ op = "unique" /\ answer = NoAnswer /\ UNCHANGED op
  /\ \E x \in Uniques : question' = x /\ answer' = Uniqued(x.q)[0][x.batches]

KeysNext == AnswerGroups \/ AnswerUnique

KeysSpec == KeysInit /\ [][KeysNext]_vars

-----------------------------------------------------------------------------

(* A group-by gives each key one group, of all its rows in the order of    *)
(* the input, however its keys were parted; in the order the groups first  *)
(* appeared when order is maintained or nothing spilled.  It is refused    *)
(* only if the query alone is over its limit (extagg.go).                  *)
GroupsAreExact ==
  op = "groups" /\ answer # NoAnswer =>
    LET whole == GroupsOf(FlattenSeq(question.batches)) IN
    /\ ~question.q.alone => ~answer.refused
    /\ ~answer.refused =>
         /\ Len(answer.groups) = Len(whole) /\ ToSet(answer.groups) = ToSet(whole)
         /\ question.q.ordered \/ ~answer.spilled => answer.groups = whole

(* A unique gives the first row of each key, in the order of the input,    *)
(* whenever it froze, and is refused only if the query alone is over its   *)
(* limit (ops2.go, extdistinct.go).                                        *)
FirstsAreExact ==
  op = "unique" /\ answer # NoAnswer =>
    /\ ~question.q.alone => ~answer.refused
    /\ ~answer.refused => answer.rows = New({}, FlattenSeq(question.batches))

(* A group-by and a unique answer as they would had they room for all of  *)
(* their keys (extagg.go, extdistinct.go).                                 *)
KeysAreExact == GroupsAreExact /\ FirstsAreExact
=============================================================================
