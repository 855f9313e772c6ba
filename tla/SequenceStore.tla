--------------------------- MODULE SequenceStore ---------------------------
(***************************************************************************)
(* What the lists of src/mbox-list.h are to their users: sequences of data *)
(* that grow and shrink at both ends, that can be put in another order and *)
(* joined.                                                                 *)
(***************************************************************************)
EXTENDS Sequences, Naturals, FiniteSets

CONSTANTS Lists, Items

VARIABLE contents      \* the sequence each list stands for

Init == contents = [l \in Lists |-> << >>]

PushHead(l, x) == contents' = [contents EXCEPT ![l] = <<x>> \o @]
PushTail(l, x) == contents' = [contents EXCEPT ![l] = Append(@, x)]

PopHead(l) ==
  /\ contents[l] # << >>
  /\ contents' = [contents EXCEPT ![l] = Tail(@)]

PopTail(l) ==
  /\ contents[l] # << >>
  /\ contents' = [contents EXCEPT ![l] = SubSeq(@, 1, Len(@) - 1)]

(* the step of a sort that exchanges two elements *)
Swap(l) ==
  \E i, j \in DOMAIN contents[l] :
    contents' = [contents EXCEPT ![l][i] = contents[l][j], ![l][j] = contents[l][i]]

Join(l, m) ==
  /\ l # m
  /\ contents' = [contents EXCEPT ![l] = @ \o contents[m], ![m] = << >>]

Empty(l) == contents' = [contents EXCEPT ![l] = << >>]

Next ==
  \E l \in Lists :
    \/ \E x \in Items : PushHead(l, x) \/ PushTail(l, x)
    \/ PopHead(l) \/ PopTail(l) \/ Swap(l) \/ Empty(l)
    \/ \E m \in Lists : Join(l, m)

Spec == Init /\ [][Next]_contents
=============================================================================
