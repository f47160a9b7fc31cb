---------------------------- MODULE MCParProbe ----------------------------
(* ParProbe on short probe sides: every fan-out of none, one and two.      *)
EXTENDS ParProbe

FanOuts == {<<"empty">>, <<"rows">>, <<"rows", "rows">>}
Failing == {<<"fail">>, <<"rows", "fail">>, <<"rows", "exit">>}

Sides(B, n) ==
  {[batches |-> b, end |-> e] : b \in UNION {[1..k -> B] : k \in 0..n},
                                e \in {"eof", "err", "quit"}}

(* One that fills every channel while the consumer reads nothing.          *)
Long == {[batches |-> [k \in 1..6 |-> <<"rows", "rows">>], end |-> "eof"]}

ShortProbes == Sides(FanOuts \union Failing, 2) \union Sides(FanOuts, 3) \union Long
=============================================================================
