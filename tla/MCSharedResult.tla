-------------------------- MODULE MCSharedResult --------------------------
(* SharedResult for a few sites and short subplans.                        *)
EXTENDS SharedResult

CONSTANTS s1, s2, s3

ThreeSites == {s1, s2, s3}

(* Every subplan of at most two batches, however it ends, and of three     *)
(* that spill after one and write another straight to the file.            *)
Short     == UNION {[1..k -> {"rows", "empty"}] : k \in 0..2}
Spilling  == <<"rows", "empty", "rows", "rows">>
MCChildren == {b \o <<e>> : b \in Short \union {Spilling}, e \in Ends}
=============================================================================
