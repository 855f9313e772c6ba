----------------------------- MODULE MCMboxIndex -----------------------------
(* Lists of up to four messages in any order, some found twice, some larger  *)
(* than a read.                                                              *)
EXTENDS MboxIndex

Messages4 == {[start |-> 0, end |-> 2], [start |-> 2, end |-> 5],
              [start |-> 1, end |-> 2], [start |-> 5, end |-> 11]}

Orders(S) == {[i \in 1 .. Cardinality(S) |-> p[i]] : p \in Bijection(1 .. Cardinality(S), S)}

MCLists == {<< >>} \union UNION {Orders(S) : S \in SUBSET Messages4 \ {{}}}
  \union {<<m, n, m>> : m \in Messages4, n \in Messages4}

(* The numbers of s, written one after another.                             *)
Digits(n)    == CHOOSE k \in 1 .. 9 : n < 10 ^ k /\ \A j \in 1 .. k - 1 : n >= 10 ^ j
MCSpelled(s) == FoldLeft(LAMBDA a, n : a * 10 ^ Digits(n) + n, 0, s)
=============================================================================
