-------------------------- MODULE MCHistoryStore --------------------------
(* Model-checking instance of HistoryStore: one account key, one storage   *)
(* key, two values besides Nil, three blocks.                              *)
EXTENDS HistoryStore

CONSTANTS a1, s1, hAT, hST

MCKeys == {a1, s1}

MCBucket == [k \in MCKeys |-> IF k = s1 THEN hST ELSE hAT]
=============================================================================
