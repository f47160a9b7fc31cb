-------------------------- MODULE MCRowGroupReader --------------------------
(* RowGroupReader on a few files.                                          *)
EXTENDS RowGroupReader

Rows(n) == [i \in 1..n |-> "rows"]
Kept(bs, e) == [stats |-> "keep", batches |-> bs, end |-> e]
Skipped == [stats |-> "skip", batches |-> <<>>, end |-> "ok"]
Unread == [stats |-> "bad", batches |-> <<>>, end |-> "ok"]
File(gs) == [opens |-> TRUE, groups |-> gs]
NoFile == [opens |-> FALSE, groups |-> <<>>]

(* Row groups that end, that fail after a batch and at once, that are      *)
(* skipped or do not read, over one file and two.                          *)
SomeGroups == {Kept(Rows(1), "ok"), Kept(<<"empty", "rows">>, "ok"), Kept(Rows(1), "err"),
               Kept(<<>>, "exit"), Skipped, Unread}
ShortInputs ==
  {<<File(<<a, b>>)>> : a, b \in SomeGroups}
    \union {<<File(<<a>>), File(<<b>>)>> : a, b \in SomeGroups}
    \union {<<File(<<a>>), NoFile>> : a \in SomeGroups}

(* Three row groups, two of more batches than the limit and the channel.   *)
LongInputs ==
  {<<File(<<Kept(Rows(2), "ok"), Kept(Rows(2), e)>>), File(<<Kept(Rows(1), "ok")>>)>> : e \in {"ok", "err"}}

MCInputs == ShortInputs \union LongInputs
=============================================================================
