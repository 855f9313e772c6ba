------------------------------ MODULE MboxList ------------------------------
(***************************************************************************)
(* The lists of src/mbox-list.c: rings of nodes linked both ways, a length *)
(* that is kept beside them, and a mutex that the TS operations and the    *)
(* quick sort hold while they link, count and exchange.                    *)
(*                                                                         *)
(* The plain operations are the bodies of the TS ones; whoever calls them  *)
(* keeps others away from the list by other means.  Nodes live in one heap *)
(* so that a node freed too early, or used by two lists, shows.            *)
(***************************************************************************)
EXTENDS Integers, Sequences, FiniteSets

CONSTANTS
  Lists,       \* the lists
  Threads,     \* the threads that use them
  Nodes,       \* the heap
  Items,       \* the data put in lists, each in one at a time
  Key(_),      \* what the sort compares of an item
  Null,        \* NULL
  Nobody       \* owner of a free mutex

ASSUME DistinctAssumption ==
  /\ Null \notin Nodes \union Items
  /\ Nobody \notin Threads

(* malloc has only so much to give.                                         *)
ASSUME FiniteAssumption == IsFiniteSet(Nodes) /\ IsFiniteSet(Threads)

(* The comparisons of the sort are those of numbers: offsets, dates, or the *)
(* ranks of names.                                                          *)
ASSUME KeyAssumption == \A x \in Items : Key(x) \in Int

VARIABLES
  data, next, prev,    \* the fields of the nodes; Null when freed
  heap,                \* the nodes allocated
  root, len, lock,     \* the fields of the lists
  alive,               \* has the list not been freed?
  op,                  \* what each thread is doing, and on which list
  frames,              \* the calls of mboxQSortHelper pending, per thread
  part                 \* the locals of mboxListQSortPivot, per thread

fields == <<data, next, prev, heap>>
vars   == <<fields, root, len, lock, alive, op, frames, part>>

Idle     == [do |-> "none", on |-> Null]
Doing(t, what) == op[t].do = what
On(t)    == op[t].on
Adding   == {"addHead", "addTail"}
Removing == {"removeHead", "removeTail"}

(* Where k steps from the root along next lead.                             *)
Trail(l) ==
  LET at[k \in 0 .. Cardinality(Nodes)] ==
        IF k = 0 THEN root[l] ELSE IF at[k - 1] \in Nodes THEN next[at[k - 1]] ELSE Null
  IN  at

(* The nodes of a list in order, until the root comes again.                *)
Walk(l) ==
  LET at == Trail(l)
      laps == {k \in 1 .. Cardinality(Nodes) :
                 at[k] = root[l] /\ \A j \in 1 .. k - 1 : at[j] \in Nodes \ {root[l]}}
  IN  IF root[l] = Null \/ laps = {} THEN << >>
      ELSE [i \in 1 .. (CHOOSE k \in laps : TRUE) |-> at[i - 1]]

NodesOf(l)  == LET w == Walk(l) IN {w[i] : i \in DOMAIN w}
Contents(l) == LET w == Walk(l) IN [i \in DOMAIN w |-> data[w[i]]]

InUse == {data[n] : n \in heap}

(* The node that malloc returns: which of the free ones is immaterial.      *)
Fresh == CHOOSE n \in Nodes : n \notin heap

NoPart == [prev |-> Null, current |-> Null]

-----------------------------------------------------------------------------
Init ==
  /\ data = [n \in Nodes |-> Null]
  /\ next = [n \in Nodes |-> Null]
  /\ prev = [n \in Nodes |-> Null]
  /\ heap = {}
  /\ root = [l \in Lists |-> Null]
  /\ len = [l \in Lists |-> 0]
  /\ lock = [l \in Lists |-> Nobody]
  /\ alive = [l \in Lists |-> TRUE]
  /\ op = [t \in Threads |-> Idle]
  /\ frames = [t \in Threads |-> << >>]
  /\ part = [t \in Threads |-> NoPart]

(* The lock that an operation of t takes before anything else.              *)
Call(t, l, what) ==
  /\ op[t] = Idle
  /\ alive[l]
  /\ lock[l] = Nobody
  /\ lock' = [lock EXCEPT ![l] = t]
  /\ op' = [op EXCEPT ![t] = [do |-> what, on |-> l]]
  /\ UNCHANGED <<fields, root, len, alive, frames, part>>

Return(t) ==
  /\ lock' = [lock EXCEPT ![On(t)] = Nobody]
  /\ op' = [op EXCEPT ![t] = Idle]

-----------------------------------------------------------------------------
(* The links of the ring made by mboxListAddHead and mboxListAddTail for a  *)
(* new node n with item x; they differ in the root only.                    *)
Link(l, n, x) ==
  /\ heap' = heap \union {n}
  /\ data' = [data EXCEPT ![n] = x]
  /\ IF root[l] = Null
       THEN /\ next' = [next EXCEPT ![n] = n]
            /\ prev' = [prev EXCEPT ![n] = n]
       ELSE LET tail == prev[root[l]] IN
            /\ next' = [next EXCEPT ![n] = root[l], ![tail] = n]
            /\ prev' = [prev EXCEPT ![n] = tail, ![root[l]] = n]

Add(t) ==
  /\ op[t].do \in Adding
  /\ \E x \in Items \ InUse : Link(On(t), Fresh, x)
  /\ root' = [root EXCEPT ![On(t)] = IF Doing(t, "addHead") \/ @ = Null THEN Fresh ELSE @]
  /\ op' = [op EXCEPT ![t].do = "added"]
  /\ UNCHANGED <<len, lock, alive, frames, part>>

Added(t) ==
  /\ Doing(t, "added")
  /\ len' = [len EXCEPT ![On(t)] = @ + 1]
  /\ Return(t)
  /\ UNCHANGED <<fields, root, alive, frames, part>>

(* The node n goes back to the heap. *)
Discard(n) ==
  /\ heap' = heap \ {n}
  /\ data' = [data EXCEPT ![n] = Null]

RemoveNone(t) ==
  /\ op[t].do \in Removing
  /\ len[On(t)] = 0 \/ (Doing(t, "removeHead") /\ root[On(t)] = Null)
  /\ Return(t)
  /\ UNCHANGED <<fields, root, len, alive, frames, part>>

(* The ring closes over its head or its tail, and the root moves with the   *)
(* head.                                                                    *)
RemoveHead(t) ==
  LET l == On(t) head == root[l] tail == prev[head] IN
  /\ Doing(t, "removeHead")
  /\ len[l] # 0 /\ head # Null
  /\ IF len[l] = 1
       THEN /\ root' = [root EXCEPT ![l] = Null]
            /\ next' = [next EXCEPT ![head] = Null]
            /\ prev' = [prev EXCEPT ![head] = Null]
       ELSE /\ root' = [root EXCEPT ![l] = next[head]]
            /\ next' = [next EXCEPT ![tail] = next[head], ![head] = Null]
            /\ prev' = [prev EXCEPT ![next[head]] = tail, ![head] = Null]
  /\ Discard(head)
  /\ op' = [op EXCEPT ![t].do = "removed"]
  /\ UNCHANGED <<len, lock, alive, frames, part>>

(* Mutant: the last node is freed and the root still points to it.          *)
RemoveTailDangles(t) ==
  LET l == On(t) tail == prev[root[l]] last == prev[tail] IN
  /\ Doing(t, "removeTail")
  /\ len[l] # 0
  /\ next' = [next EXCEPT ![last] = root[l], ![tail] = Null]
  /\ prev' = [prev EXCEPT ![root[l]] = last, ![tail] = Null]
  /\ Discard(tail)
  /\ op' = [op EXCEPT ![t].do = "removed"]
  /\ UNCHANGED <<root, len, lock, alive, frames, part>>

RemoveTail(t) ==
  LET l == On(t) tail == prev[root[l]] last == prev[tail] IN
  /\ Doing(t, "removeTail")
  /\ len[l] # 0
  /\ IF len[l] = 1
       THEN /\ root' = [root EXCEPT ![l] = Null]
            /\ next' = [next EXCEPT ![tail] = Null]
            /\ prev' = [prev EXCEPT ![tail] = Null]
       ELSE /\ next' = [next EXCEPT ![last] = root[l], ![tail] = Null]
            /\ prev' = [prev EXCEPT ![root[l]] = last, ![tail] = Null]
            /\ UNCHANGED root
  /\ Discard(tail)
  /\ op' = [op EXCEPT ![t].do = "removed"]
  /\ UNCHANGED <<len, lock, alive, frames, part>>

Removed(t) ==
  /\ Doing(t, "removed")
  /\ len' = [len EXCEPT ![On(t)] = @ - 1]
  /\ Return(t)
  /\ UNCHANGED <<fields, root, alive, frames, part>>

-----------------------------------------------------------------------------
(* mboxListQSort: a list of at most one element is left, and its lock kept. *)
Sort(t) ==
  /\ Doing(t, "sort")
  /\ LET l == On(t) IN
     IF len[l] <= 1
       THEN /\ op' = [op EXCEPT ![t] = Idle]
            /\ UNCHANGED frames
       ELSE /\ op' = [op EXCEPT ![t].do = "helper"]
            /\ frames' = [frames EXCEPT ![t] =
                 <<[low |-> root[l], high |-> prev[root[l]], count |-> 0]>>]
  /\ UNCHANGED <<fields, root, len, lock, alive, part>>

(* mboxQSortHelper: an empty range, on which it is called only by itself,   *)
(* ends before it begins.                                                   *)
Trivial(f) == f.low = f.high \/ (f.count = 1 /\ f.low = next[f.high])

HelperReturn(t) ==
  /\ Doing(t, "helper")
  /\ frames[t] # << >>
  /\ Trivial(Head(frames[t]))
  /\ frames' = [frames EXCEPT ![t] = Tail(@)]
  /\ UNCHANGED <<fields, root, len, lock, alive, op, part>>

HelperPivot(t) ==
  /\ Doing(t, "helper")
  /\ frames[t] # << >>
  /\ ~Trivial(Head(frames[t]))
  /\ part' = [part EXCEPT ![t] = [prev |-> prev[Head(frames[t]).low],
                                  current |-> Head(frames[t]).low]]
  /\ op' = [op EXCEPT ![t].do = "pivot"]
  /\ UNCHANGED <<fields, root, len, lock, alive, frames>>

(* mboxListQSortPivot: what is not greater than the pivot goes to the left. *)
(* Mutant: one of the two assignments of the exchange is missing.           *)
ExchangeLoses(m, n) == data' = [data EXCEPT ![m] = data[n]]

Exchange(m, n) == data' = [data EXCEPT ![m] = data[n], ![n] = data[m]]

(* Mutant: what is greater than the pivot goes to the left as well.         *)
PivotStepAll(t) ==
  LET at == part[t] high == Head(frames[t]).high IN
  /\ Doing(t, "pivot")
  /\ at.current # high
  /\ Exchange(next[at.prev], at.current)
  /\ part' = [part EXCEPT ![t] = [prev |-> next[at.prev], current |-> next[at.current]]]
  /\ UNCHANGED <<next, prev, heap, root, len, lock, alive, op, frames>>

PivotStep(t) ==
  LET at == part[t] high == Head(frames[t]).high IN
  /\ Doing(t, "pivot")
  /\ at.current # high
  /\ IF Key(data[at.current]) <= Key(data[high])
       THEN /\ Exchange(next[at.prev], at.current)
            /\ part' = [part EXCEPT ![t] = [prev |-> next[at.prev],
                                            current |-> next[at.current]]]
       ELSE /\ part' = [part EXCEPT ![t].current = next[at.current]]
            /\ UNCHANGED data
  /\ UNCHANGED <<next, prev, heap, root, len, lock, alive, op, frames>>

(* The pivot takes its place, and both sides of it are to be sorted.        *)
PivotEnd(t) ==
  LET at == part[t] f == Head(frames[t]) pivot == next[at.prev] IN
  /\ Doing(t, "pivot")
  /\ at.current = f.high
  /\ Exchange(pivot, at.current)
  /\ frames' = [frames EXCEPT ![t] =
       <<[low |-> f.low, high |-> prev[pivot], count |-> 1],
         [low |-> next[pivot], high |-> f.high, count |-> 1]>> \o Tail(@)]
  /\ part' = [part EXCEPT ![t] = NoPart]
  /\ op' = [op EXCEPT ![t].do = "helper"]
  /\ UNCHANGED <<next, prev, heap, root, len, lock, alive>>

(* Mutant: the sort ends without giving the lock back.                      *)
SortKeepsLock(t) ==
  /\ Doing(t, "helper")
  /\ frames[t] = << >>
  /\ op' = [op EXCEPT ![t] = Idle]
  /\ UNCHANGED <<fields, root, len, lock, alive, frames, part>>

SortReturn(t) ==
  /\ Doing(t, "helper")
  /\ frames[t] = << >>
  /\ Return(t)
  /\ UNCHANGED <<fields, root, len, alive, frames, part>>

-----------------------------------------------------------------------------
(* mboxListAppendListTail takes no lock, and frees the second list unless   *)
(* it is empty.  The plain calls below are made by a thread that has both   *)
(* lists to itself.                                                         *)
Plain(l) == alive[l] /\ lock[l] = Nobody

Append2(l, m) ==
  LET head == root[l] tail == prev[head] head2 == root[m] tail2 == prev[head2] IN
  /\ l # m /\ Plain(l) /\ Plain(m)
  /\ len[m] # 0
  /\ IF len[l] = 0
       THEN /\ root' = [root EXCEPT ![l] = head2, ![m] = Null]
            /\ UNCHANGED <<next, prev>>
       ELSE /\ next' = [next EXCEPT ![tail] = head2, ![tail2] = head]
            /\ prev' = [prev EXCEPT ![head2] = tail, ![head] = tail2]
            /\ root' = [root EXCEPT ![m] = Null]
  /\ len' = [len EXCEPT ![l] = @ + len[m], ![m] = 0]
  /\ alive' = [alive EXCEPT ![m] = FALSE]
  /\ UNCHANGED <<data, heap, lock, op, frames, part>>

(* mboxListRelease removes one head after another and frees the list.       *)
Release(l) ==
  LET gone == NodesOf(l) IN
  /\ Plain(l)
  /\ heap' = heap \ gone
  /\ data' = [n \in Nodes |-> IF n \in gone THEN Null ELSE data[n]]
  /\ next' = [n \in Nodes |-> IF n \in gone THEN Null ELSE next[n]]
  /\ prev' = [n \in Nodes |-> IF n \in gone THEN Null ELSE prev[n]]
  /\ root' = [root EXCEPT ![l] = Null]
  /\ len' = [len EXCEPT ![l] = 0]
  /\ alive' = [alive EXCEPT ![l] = FALSE]
  /\ UNCHANGED <<lock, op, frames, part>>

Step(t) ==
  \/ Add(t) \/ Added(t)
  \/ RemoveNone(t) \/ RemoveHead(t) \/ RemoveTail(t) \/ Removed(t)
  \/ Sort(t) \/ HelperReturn(t) \/ HelperPivot(t)
  \/ PivotStep(t) \/ PivotEnd(t) \/ SortReturn(t)

(* Bounds: an addition is called only when a node and an item are left for  *)
(* it, whatever others add meanwhile; malloc does not fail.                 *)
Room ==
  LET adding == Cardinality({t \in Threads : op[t].do \in Adding}) IN
  /\ Cardinality(Nodes \ heap) > adding
  /\ Cardinality(Items \ InUse) > adding

Next ==
  \/ \E t \in Threads, l \in Lists, what \in Adding : Room /\ Call(t, l, what)
  \/ \E t \in Threads, l \in Lists, what \in Removing \union {"sort"} : Call(t, l, what)
  \/ \E t \in Threads : Step(t)
  \/ \E l, m \in Lists : Append2(l, m)
  \/ \E l \in Lists : Release(l)

Spec == Init /\ [][Next]_vars /\ \A t \in Threads : WF_vars(Step(t))
-----------------------------------------------------------------------------
(* Every field has its type, and no length goes below zero.                 *)
TypeOK ==
  /\ data \in [Nodes -> Items \union {Null}]
  /\ next \in [Nodes -> Nodes \union {Null}]
  /\ prev \in [Nodes -> Nodes \union {Null}]
  /\ heap \subseteq Nodes
  /\ root \in [Lists -> Nodes \union {Null}]
  /\ len \in [Lists -> Nat]
  /\ lock \in [Lists -> Threads \union {Nobody}]
  /\ alive \in [Lists -> BOOLEAN]
  /\ op \in [Threads -> [do : {"none", "added", "removed", "sort", "helper", "pivot"}
                               \union Adding \union Removing,
                         on : Lists \union {Null}]]

(* Even between the steps of an operation every list is a ring that closes, *)
(* read backwards as forwards; the rings share no node, have no freed one,  *)
(* and there is no allocated node outside them.                             *)
RingsSound ==
  LET nodes == [l \in Lists |-> NodesOf(l)] IN
  /\ \A l \in Lists : root[l] # Null => nodes[l] # {}
  /\ \A l \in Lists : \A n \in nodes[l] : prev[next[n]] = n
  /\ \A l, m \in Lists : l # m => nodes[l] \intersect nodes[m] = {}
  /\ UNION {nodes[l] : l \in Lists} = heap

(* A thread that finds the lock free finds the length of the list right.    *)
LengthRight == \A l \in Lists : lock[l] = Nobody => len[l] = Len(Walk(l))

ListsSound == TypeOK /\ RingsSound /\ LengthRight

(* When the quick sort ends the list is in order.                           *)
SortSorts ==
  \A t \in Threads : Doing(t, "helper") /\ frames[t] = << >> =>
    LET c == Contents(On(t)) IN
    \A i \in 2 .. Len(c) : Key(c[i - 1]) <= Key(c[i])

(* An addition and a removal happen at the end they are named for, and      *)
(* leave the rest of the list in its order.                                 *)
AtItsEnd(t) ==
  LET before == Contents(On(t)) after == Contents(On(t))' IN
  /\ Doing(t, "addHead") => Tail(after) = before
  /\ Doing(t, "addTail") => SubSeq(after, 1, Len(after) - 1) = before
  /\ Doing(t, "removeHead") /\ before # << >> => after = Tail(before)
  /\ Doing(t, "removeTail") /\ before # << >> =>
       after = SubSeq(before, 1, Len(before) - 1)

EndsRight == [][\A t \in Threads : op'[t].do # op[t].do => AtItsEnd(t)]_vars

(* The rings implement sequences, and the order in which operations take    *)
(* effect is that of their links.                                           *)
Store == INSTANCE SequenceStore WITH contents <- [l \in Lists |-> Contents(l)]

ImplementsSequences == EndsRight /\ Store!Spec

(* A lock is given back, the sort's too, unless the list has at most one    *)
(* element.                                                                 *)
LocksReturned ==
  \A l \in Lists : lock[l] # Nobody ~> (lock[l] = Nobody \/ len[l] <= 1)
=============================================================================
