------------------------------ MODULE MCLedger ------------------------------
(* Small instances of Ledger. *)
EXTENDS Ledger, TLC

CONSTANTS op1, op2, b1, b2

(* The views of an allocation of two bytes. *)
MCSpans == {[lo |-> -2, hi |-> 0], [lo |-> -2, hi |-> -1], [lo |-> -1, hi |-> 0]}

MCIds == {b1, b2}
MCOperators == {op1, op2}

Symmetry == Permutations(MCIds) \union Permutations(MCOperators)
=============================================================================
