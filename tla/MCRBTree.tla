------------------------------ MODULE MCRBTree ------------------------------
(* One large tree beside a small one.  A key <<a, b>> stands for a name with *)
(* which the names from a to b begin, and compares equal to all of them.     *)
EXTENDS RBTree

CONSTANTS big, small

MCKeys(t)   == IF t = big THEN {<<i, i>> : i \in 1 .. 8} \union {<<3, 4>>} ELSE {<<1, 1>>}
MCCmp(a, b) == IF a[2] < b[1] THEN -1 ELSE IF b[2] < a[1] THEN 1 ELSE 0
=============================================================================
