------------------------------- MODULE RBTree -------------------------------
(***************************************************************************)
(* The red-black trees of src/mbox-redblacktree.c, which hold the headers  *)
(* of messages: pointers, colours, rotations, and the one sentinel that is *)
(* the leaf of all trees.                                                  *)
(*                                                                         *)
(* A tree belongs to one thread; threads with different trees interleave   *)
(* between the turns of a fix-up.  A tree holds a key at most once, and a  *)
(* node keeps its key, so <<t, k>> is the node with key k of tree t.  A    *)
(* value goes with its key and is left out.                                *)
(***************************************************************************)
EXTENDS Integers, FiniteSets

CONSTANTS
  Trees,
  Keys(_),       \* the keys that may be inserted in a tree
  Cmp(_, _),     \* keycmp
  Sentinel,      \* RB_SENTINAL
  Null

Nodes == UNION {{<<t, k>> : k \in Keys(t)} : t \in Trees}
Cells == Nodes \union {Sentinel}

ASSUME DistinctAssumption == Null \notin Cells /\ Sentinel \notin Nodes

ASSUME KeysAssumption == \A t \in Trees : IsFiniteSet(Keys(t))

(* keycmp puts keys in an order, but two that compare equal need not be the *)
(* same, nor compare alike with a third: mboxBufCaseCmp looks at as many    *)
(* letters as the shorter name has.                                         *)
ASSUME CmpAssumption ==
  \A t \in Trees : \A a, b, c \in Keys(t) :
    /\ Cmp(a, b) \in Int
    /\ Cmp(a, b) < 0 <=> Cmp(b, a) > 0
    /\ Cmp(a, b) < 0 /\ Cmp(b, c) < 0 => Cmp(a, c) < 0

VARIABLES
  live,      \* the trees that exist
  size,
  h,         \* what pointers lead to: the roots, and the fields of the cells
  heap,      \* the nodes allocated
  op,        \* what the thread of a tree is doing
  given      \* the keys inserted in each tree since it was empty (history)

vars == <<live, size, h, heap, op, given>>

Sides    == {"left", "right"}
Other(s) == CHOOSE o \in Sides : o # s
Idle     == [do |-> "none", z |-> Null]

SideOf(g, n) == IF g.child["left"][g.parent[n]] = n THEN "left" ELSE "right"

(* rbNodeFind: a node whose key compares equal to k, or the sentinel, and   *)
(* its parent.                                                              *)
Search(t, k) ==
  LET down[i \in 0 .. Cardinality(Keys(t))] ==
        IF i = 0 THEN [at |-> h.root[t], above |-> Null]
        ELSE LET c == down[i - 1] IN
             IF c.at = Sentinel \/ Cmp(k, c.at[2]) = 0 THEN c
             ELSE [at |-> h.child[IF Cmp(k, c.at[2]) < 0 THEN "left" ELSE "right"][c.at],
                   above |-> c.at]
  IN  down[Cardinality(Keys(t))]

-----------------------------------------------------------------------------
(* RB_SENTINAL is static: before the first tree all its fields are zero.    *)
Init ==
  /\ live = {}
  /\ size = [t \in Trees |-> 0]
  /\ h = [root |-> [t \in Trees |-> Null],
          child |-> [s \in Sides |-> [n \in Cells |-> Null]],
          parent |-> [n \in Cells |-> Null],
          color |-> [n \in Cells |-> "red"]]
  /\ heap = {}
  /\ op = [t \in Trees |-> Idle]
  /\ given = [t \in Trees |-> {}]

(* rbTreeNew sets the sentinel up again, whoever is using it.               *)
New(t) ==
  /\ t \notin live
  /\ live' = live \union {t}
  /\ h' = [h EXCEPT !.root[t] = Sentinel,
                    !.color[Sentinel] = "black",
                    !.child["left"][Sentinel] = Null,
                    !.child["right"][Sentinel] = Null]
  /\ size' = [size EXCEPT ![t] = 0]
  /\ UNCHANGED <<heap, op, given>>

Ready(t) == t \in live /\ op[t] = Idle

-----------------------------------------------------------------------------
(* A key that compares equal to one in the tree is not inserted; headers    *)
(* compare with mboxBufCaseCmp, which MboxBuf has.                          *)
InsertDupe(t, k) ==
  /\ Ready(t)
  /\ Search(t, k).at # Sentinel
  /\ given' = [given EXCEPT ![t] = @ \union {k}]
  /\ UNCHANGED <<live, size, h, heap, op>>

(* A node with no parent is made black, one with no grandparent is left red *)
(* as it is, any other is fixed up.                                         *)
Insert(t, k) ==
  LET z == <<t, k>> y == Search(t, k).above IN
  /\ Ready(t)
  /\ Search(t, k).at = Sentinel
  /\ heap' = heap \union {z}
  /\ size' = [size EXCEPT ![t] = @ + 1]
  /\ LET g == [h EXCEPT !.color[z] = IF y = Null THEN "black" ELSE "red",
                        !.child["left"][z] = Sentinel,
                        !.child["right"][z] = Sentinel,
                        !.parent[z] = y]
     IN  h' = IF y = Null THEN [g EXCEPT !.root[t] = z]
              ELSE [g EXCEPT !.child[IF Cmp(k, y[2]) < 0 THEN "left" ELSE "right"][y] = z]
  /\ op' = [op EXCEPT ![t] =
       IF y = Null \/ h.parent[y] = Null THEN Idle ELSE [do |-> "fix", z |-> z]]
  /\ given' = [given EXCEPT ![t] = @ \union {k}]
  /\ UNCHANGED live

(* Mutant: the parent of the moved subtree is set without asking whether it *)
(* is a leaf.                                                               *)
RotateLeaf(g, t, x, s) ==
  LET y == g.child[Other(s)][x]
      b == g.child[s][y]
      p == g.parent[x]
      r == [g EXCEPT !.child[Other(s)][x] = b, !.child[s][y] = x,
                     !.parent = [@ EXCEPT ![b] = x, ![y] = p, ![x] = y]]
  IN  IF p = Null THEN [r EXCEPT !.root[t] = y] ELSE [r EXCEPT !.child[SideOf(g, x)][p] = y]

(* Mutant: the subtree between the two nodes is lost.                       *)
RotateLoses(g, t, x, s) ==
  LET y == g.child[Other(s)][x]
      p == g.parent[x]
      r == [g EXCEPT !.child[Other(s)][x] = Sentinel, !.child[s][y] = x,
                     !.parent = [@ EXCEPT ![y] = p, ![x] = y]]
  IN  IF p = Null THEN [r EXCEPT !.root[t] = y] ELSE [r EXCEPT !.child[SideOf(g, x)][p] = y]

(* rbLeftRotate and rbRightRotate: x goes down to the side s.               *)
Rotate(g, t, x, s) ==
  LET y == g.child[Other(s)][x]
      b == g.child[s][y]
      p == g.parent[x]
      up == [g.parent EXCEPT ![b] = IF b = Sentinel THEN @ ELSE x, ![y] = p, ![x] = y]
      r == [g EXCEPT !.child[Other(s)][x] = b, !.child[s][y] = x, !.parent = up]
  IN  IF p = Null THEN [r EXCEPT !.root[t] = y] ELSE [r EXCEPT !.child[SideOf(g, x)][p] = y]

(* A turn of rbInsertFixup begins when z is not the root and has a red      *)
(* parent.                                                                  *)
Fixing(t) == op[t].do = "fix"
Turn(t)   == op[t].z # h.root[t] /\ h.color[h.parent[op[t].z]] = "red"
Parent(t) == h.parent[op[t].z]
Grand(t)  == h.parent[Parent(t)]
Uncle(t)  == h.child[Other(SideOf(h, Parent(t)))][Grand(t)]

(* Mutant: the uncle stays red.                                             *)
RecolorParent(t) ==
  /\ Fixing(t) /\ Turn(t)
  /\ h.color[Uncle(t)] = "red"
  /\ h' = [h EXCEPT !.color = [@ EXCEPT ![Parent(t)] = "black", ![Grand(t)] = "red"]]
  /\ op' = [op EXCEPT ![t].z = Grand(t)]
  /\ UNCHANGED <<live, size, heap, given>>

Recolor(t) ==
  /\ Fixing(t) /\ Turn(t)
  /\ h.color[Uncle(t)] = "red"
  /\ h' = [h EXCEPT !.color = [@ EXCEPT ![Uncle(t)] = "black", ![Parent(t)] = "black",
                                        ![Grand(t)] = "red"]]
  /\ op' = [op EXCEPT ![t].z = Grand(t)]
  /\ UNCHANGED <<live, size, heap, given>>

(* An inner grandchild is first rotated outwards.                           *)
Straighten(t) ==
  LET s == SideOf(h, Parent(t)) z == op[t].z IN
  IF SideOf(h, z) = s THEN [g |-> h, z |-> z]
  ELSE [g |-> Rotate(h, t, Parent(t), s), z |-> Parent(t)]

Restructure(t) ==
  LET line   == Straighten(t)
      parent == line.g.parent[line.z]
      grand  == line.g.parent[parent]
  IN
  /\ Fixing(t) /\ Turn(t)
  /\ h.color[Uncle(t)] = "black"
  /\ h' = Rotate([line.g EXCEPT !.color = [@ EXCEPT ![parent] = "black", ![grand] = "red"]],
                 t, grand, Other(SideOf(h, Parent(t))))
  /\ op' = [op EXCEPT ![t].z = line.z]
  /\ UNCHANGED <<live, size, heap, given>>

FixupEnd(t) ==
  /\ Fixing(t) /\ ~Turn(t)
  /\ h' = [h EXCEPT !.color[h.root[t]] = "black"]
  /\ op' = [op EXCEPT ![t] = Idle]
  /\ UNCHANGED <<live, size, heap, given>>

-----------------------------------------------------------------------------
(* The loop of mboxRBTreeDelete stays at the node with the key it looks     *)
(* for, and compares with the key of the sentinel, NULL, when there is none *)
(* (mboxBufCaseCmp reads through it).  What follows it cannot be reached.   *)
Delete(t, k) ==
  /\ Ready(t)
  /\ op' = [op EXCEPT ![t].do = IF Search(t, k).at = Sentinel THEN "faults" ELSE "loops"]
  /\ UNCHANGED <<live, size, h, heap, given>>

DeleteTurn(t) == op[t].do = "loops" /\ UNCHANGED vars

(* rbNodeFree visits the children of a node before it frees it.             *)
Freed(t) ==
  LET under[d \in 0 .. Cardinality(Keys(t))] ==
        IF d = 0 THEN {h.root[t]} \ {Sentinel}
        ELSE LET u == under[d - 1] IN
             u \union ({h.child[s][n] : s \in Sides, n \in u} \ {Sentinel})
  IN  under[Cardinality(Keys(t))]

Cleared(t) ==
  LET gone == Freed(t) IN
  [h EXCEPT !.root[t] = Sentinel,
            !.child = [s \in Sides |-> [n \in Cells |-> IF n \in gone THEN Null ELSE @[s][n]]],
            !.parent = [n \in Cells |-> IF n \in gone THEN Null ELSE @[n]],
            !.color = [n \in Cells |-> IF n \in gone THEN "red" ELSE @[n]]]

Clear(t) ==
  /\ Ready(t)
  /\ size[t] # 0
  /\ heap' = heap \ Freed(t)
  /\ h' = Cleared(t)
  /\ size' = [size EXCEPT ![t] = 0]
  /\ given' = [given EXCEPT ![t] = {}]
  /\ UNCHANGED <<live, op>>

(* mboxRBTreeRelease clears the tree before it frees it.                    *)
Release(t) ==
  /\ Ready(t)
  /\ live' = live \ {t}
  /\ heap' = heap \ Freed(t)
  /\ h' = [Cleared(t) EXCEPT !.root[t] = Null]
  /\ size' = [size EXCEPT ![t] = 0]
  /\ given' = [given EXCEPT ![t] = {}]
  /\ UNCHANGED op

Fault == \E t \in Trees : op[t].do = "faults"

Step(t) ==
  \/ New(t) \/ Clear(t) \/ Release(t)
  \/ \E k \in Keys(t) : Insert(t, k) \/ InsertDupe(t, k) \/ Delete(t, k)
  \/ Recolor(t) \/ Restructure(t) \/ FixupEnd(t) \/ DeleteTurn(t)

Next ==
  \/ ~Fault /\ \E t \in Trees : Step(t)
  \/ Fault /\ UNCHANGED vars

Spec == Init /\ [][Next]_vars
-----------------------------------------------------------------------------
Links == [root : [Trees -> Cells \union {Null}],
          child : [Sides -> [Cells -> Cells \union {Null}]],
          parent : [Cells -> Nodes \union {Null}],
          color : [Cells -> {"red", "black"}]]

(* Every field has its type, and a tree has at most as many nodes as keys.  *)
TypeOK ==
  /\ live \subseteq Trees
  /\ \A t \in Trees : size[t] \in 0 .. Cardinality(Keys(t))
  /\ h \in Links
  /\ heap \subseteq Nodes
  /\ op \in [Trees -> [do : {"none", "fix", "loops", "faults"}, z : Nodes \union {Null}]]

(* The sentinel that the trees of all threads share is never changed while  *)
(* a tree exists: no insertion paints it, hangs anything under it or gives  *)
(* it a parent.                                                             *)
SentinelKept ==
  live # {} =>
    /\ h.color[Sentinel] = "black"
    /\ h.parent[Sentinel] = Null
    /\ \A s \in Sides : h.child[s][Sentinel] = Null

NodesOf(t) == {n \in heap : n[1] = t}

(* Even between the turns of a fix-up a search finds a node that compares   *)
(* equal when the tree has one, and has one for every key inserted; no node *)
(* is lost or shared, and each points to its parent.                        *)
FindsAll ==
  /\ TypeOK
  /\ \A t \in live :
       /\ \A k \in Keys(t) :
            LET equal == {n \in NodesOf(t) : Cmp(k, n[2]) = 0}
            IN  Search(t, k).at \in IF equal = {} THEN {Sentinel} ELSE equal
       /\ \A k \in given[t] : Search(t, k).at # Sentinel
       /\ \A n \in NodesOf(t) :
            n[2] \in given[t] /\ Search(t, n[2]) = [at |-> n, above |-> h.parent[n]]
       /\ size[t] = Cardinality(NodesOf(t))

(* All paths down from n have the same number of black nodes; 0 if not.     *)
BlackHeight(t, n) ==
  LET bh[d \in 0 .. Cardinality(Keys(t))] ==
        [c \in Cells \union {Null} |->
           IF c = Sentinel THEN 1
           ELSE IF d = 0 \/ c = Null THEN 0
           ELSE LET l == bh[d - 1][h.child["left"][c]]
                    r == bh[d - 1][h.child["right"][c]]
                IN  IF l # r \/ l = 0 THEN 0 ELSE IF h.color[c] = "black" THEN l + 1 ELSE l]
  IN  bh[Cardinality(Keys(t))][n]

(* The tree is balanced at every turn but for one pair of red nodes, the    *)
(* one the fix-up is at, or a red root; at rest there is no exception.      *)
FixupKeepsBalance ==
  \A t \in live :
    /\ BlackHeight(t, h.root[t]) # 0
    /\ \A n \in heap :
         /\ n[1] = t /\ h.color[n] = "red"
         /\ h.parent[n] = Null \/ h.color[h.parent[n]] = "red"
         => Fixing(t) /\ n = op[t].z
=============================================================================
