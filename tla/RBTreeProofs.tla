---------------------------- MODULE RBTreeProofs ----------------------------
(***************************************************************************)
(* What insertions, fix-ups and releases keep of the trees of              *)
(* src/mbox-redblacktree.c, for any number of trees, any sets of keys and  *)
(* any keycmp that puts them in an order.                                  *)
(***************************************************************************)
EXTENDS RBTree, QueueLemmas

-----------------------------------------------------------------------------
(* a goes to the side s of b.                                               *)
Before(s, a, b) == IF s = "left" THEN Cmp(a, b) < 0 ELSE Cmp(b, a) < 0

Own(t) == {<<t, k>> : k \in Keys(t)}

(* sub gives for each node the nodes at it and under it.                    *)
Below(g, sub, s, n) == IF g.child[s][n] = Sentinel THEN {} ELSE sub[g.child[s][n]]

Rooted(g, t, N, sub) ==
  IF N = {} THEN g.root[t] = Sentinel
  ELSE g.root[t] \in N /\ g.parent[g.root[t]] = Null /\ sub[g.root[t]] = N

Linked(g, t, N, sub, n) ==
  /\ \A s \in Sides :
       /\ g.child[s][n] \in N \union {Sentinel}
       /\ g.child[s][n] # Sentinel => g.parent[g.child[s][n]] = n
  /\ n # g.root[t] => /\ g.parent[n] \in N
                      /\ \E s \in Sides : g.child[s][g.parent[n]] = n

Covers(g, t, N, sub, n) ==
  /\ n \in sub[n] /\ sub[n] \subseteq N
  /\ sub[n] = {n} \union Below(g, sub, "left", n) \union Below(g, sub, "right", n)
  /\ \A m \in sub[n] : sub[m] \subseteq sub[n] /\ (m # n => g.parent[m] \in sub[n])

Ordered(g, t, N, sub, n) ==
  \A s \in Sides : \A m \in Below(g, sub, s, n) : Before(s, m[2], n[2])

(* The cells that lead from the root of t are a search tree of the nodes N. *)
Shape(g, t, N, sub) ==
  /\ N \subseteq Own(t)
  /\ sub \in [Nodes -> SUBSET Nodes]
  /\ Rooted(g, t, N, sub)
  /\ \A n \in N : Linked(g, t, N, sub, n) /\ Covers(g, t, N, sub, n) /\ Ordered(g, t, N, sub, n)

-----------------------------------------------------------------------------
LEMMA SidesTwo ==
  ASSUME NEW s \in Sides
  PROVE  /\ Other(s) \in Sides /\ Other(s) # s /\ Other(Other(s)) = s
         /\ \A r \in Sides : r = s \/ r = Other(s)
         /\ s = "left" => Other(s) = "right"
         /\ s = "right" => Other(s) = "left"
<1>1. \A o \in Sides : (CHOOSE q \in Sides : q # o) \in Sides /\ (CHOOSE q \in Sides : q # o) # o
  <2> SUFFICES ASSUME NEW o \in Sides
               PROVE  (CHOOSE q \in Sides : q # o) \in Sides /\ (CHOOSE q \in Sides : q # o) # o
    OBVIOUS
  <2>1. \E q \in Sides : q # o
    BY DEF Sides
  <2> QED BY <2>1
<1>2. Other(s) \in Sides /\ Other(s) # s /\ Other(Other(s)) \in Sides /\ Other(Other(s)) # Other(s)
  BY <1>1 DEF Other
<1> QED BY <1>2 DEF Sides

(* Before is a strict order on the keys of a tree.                          *)
LEMMA BeforeOrder ==
  ASSUME NEW t \in Trees, NEW s \in Sides,
         NEW a \in Keys(t), NEW b \in Keys(t), NEW c \in Keys(t)
  PROVE  /\ ~Before(s, a, a)
         /\ Before(s, a, b) <=> Before(Other(s), b, a)
         /\ Before(s, a, b) /\ Before(s, b, c) => Before(s, a, c)
         /\ ~(Before(s, a, b) /\ Before(s, b, a))
<1>1. /\ Cmp(a, a) \in Int /\ Cmp(a, b) \in Int /\ Cmp(b, a) \in Int
      /\ Cmp(a, a) < 0 <=> Cmp(a, a) > 0
      /\ Cmp(a, b) < 0 <=> Cmp(b, a) > 0
      /\ Cmp(a, b) < 0 /\ Cmp(b, c) < 0 => Cmp(a, c) < 0
      /\ Cmp(c, b) < 0 /\ Cmp(b, a) < 0 => Cmp(c, a) < 0
  BY CmpAssumption
<1>2. (s = "left" /\ Other(s) = "right") \/ (s = "right" /\ Other(s) = "left")
  BY SidesTwo DEF Sides
<1> QED BY <1>1, <1>2 DEF Before

LEMMA NodesApart ==
  ASSUME NEW t \in Trees
  PROVE  /\ Own(t) \subseteq Nodes
         /\ \A n \in Own(t) : n[1] = t /\ n[2] \in Keys(t) /\ n # Sentinel /\ n # Null /\ n \in Cells
         /\ \A n \in Nodes : n # Sentinel /\ n # Null /\ n \in Cells
         /\ Null # Sentinel /\ Sentinel \in Cells
         /\ \A k, l \in Keys(t) : <<t, k>> = <<t, l>> => k = l
BY DistinctAssumption DEF Own, Nodes, Cells
-----------------------------------------------------------------------------
LEMMA LinksFields ==
  ASSUME NEW g \in Links
  PROVE  /\ g = [root |-> g.root, child |-> g.child, parent |-> g.parent, color |-> g.color]
         /\ g.root \in [Trees -> Cells \union {Null}]
         /\ g.child \in [Sides -> [Cells -> Cells \union {Null}]]
         /\ g.parent \in [Cells -> Nodes \union {Null}]
         /\ g.color \in [Cells -> {"red", "black"}]
BY DEF Links

(* What a rotation that makes r of g does to each cell.                     *)
Rotated(g, r, t, s, x, y, b, p) ==
  /\ r \in Links
  /\ r.color = g.color
  /\ p = Null => r.root = [g.root EXCEPT ![t] = y]
  /\ p # Null => r.root = g.root
  /\ \A n \in Cells :
       r.parent[n] = IF n = x THEN y ELSE IF n = y THEN p
                     ELSE IF n = b /\ b # Sentinel THEN x ELSE g.parent[n]
  /\ \A q \in Sides, n \in Cells :
       r.child[q][n] = IF n = x /\ q = Other(s) THEN b
                       ELSE IF n = y /\ q = s THEN x
                       ELSE IF p # Null /\ n = p /\ q = SideOf(g, x) THEN y
                       ELSE g.child[q][n]

LEMMA RotateEffect ==
  ASSUME NEW g \in Links, NEW t \in Trees, NEW s \in Sides, NEW x \in Nodes, NEW y \in Nodes,
         NEW b \in Cells, NEW p \in Nodes \union {Null},
         y = g.child[Other(s)][x], b = g.child[s][y], p = g.parent[x],
         y # x, b # x, b # y, p # x, p # y
  PROVE  Rotated(g, Rotate(g, t, x, s), t, s, x, y, b, p)
<1>0. /\ Other(s) \in Sides /\ Other(s) # s /\ SideOf(g, x) \in Sides
      /\ x \in Cells /\ y \in Cells /\ (p # Null => p \in Cells)
  BY SidesTwo DEF SideOf, Sides, Cells
<1>1. PICK R, C, P, K :
        /\ g = [root |-> R, child |-> C, parent |-> P, color |-> K]
        /\ R \in [Trees -> Cells \union {Null}]
        /\ C \in [Sides -> [Cells -> Cells \union {Null}]]
        /\ P \in [Cells -> Nodes \union {Null}]
        /\ K \in [Cells -> {"red", "black"}]
  BY LinksFields
<1>2. PICK Q : Q = [P EXCEPT ![b] = IF b = Sentinel THEN @ ELSE x, ![y] = p, ![x] = y]
  OBVIOUS
<1>3. PICK o \in Sides : o = Other(s) /\ o # s
  BY <1>0
<1>4. PICK side \in Sides : side = SideOf(g, x)
  BY <1>0
<1>5. /\ y = g.child[o][x] /\ b = g.child[s][y] /\ p = g.parent[x]
      /\ g.root = R /\ g.child = C /\ g.parent = P /\ g.color = K
  BY <1>1, <1>3
<1> DEFINE ra == [g EXCEPT !.child[o][x] = b]
           rb == [ra EXCEPT !.child[s][y] = x]
           rc == [rb EXCEPT !.parent = Q]
           ca == [C EXCEPT ![o][x] = b]
           cb == [ca EXCEPT ![s][y] = x]
           cc == [cb EXCEPT ![side][p] = y]
<1>6. Rotate(g, t, x, s) =
        LET r == [g EXCEPT !.child[o][x] = b, !.child[s][y] = x, !.parent = Q]
        IN  IF p = Null THEN [r EXCEPT !.root[t] = y] ELSE [r EXCEPT !.child[side][p] = y]
  <2> HIDE DEF ra, rb, rc, ca, cb, cc
  <2> QED BY ONLY <1>2, <1>3, <1>4, <1>5 DEF Rotate
<1>7. [g EXCEPT !.child[o][x] = b, !.child[s][y] = x, !.parent = Q] = rc
  OBVIOUS
<1>8. Rotate(g, t, x, s) = IF p = Null THEN [rc EXCEPT !.root[t] = y]
                           ELSE [rc EXCEPT !.child[side][p] = y]
  <2> HIDE DEF rc
  <2> QED BY ONLY <1>6, <1>7
<1>9. ra = [root |-> R, child |-> ca, parent |-> P, color |-> K]
  <2>1. g = [root |-> R, child |-> C, parent |-> P, color |-> K]
    BY <1>1
  <2> QED BY ONLY <2>1
<1>10. /\ cb \in [Sides -> [Cells -> Cells \union {Null}]]
       /\ \A q \in Sides, n \in Cells :
            cb[q][n] = IF n = x /\ q = o THEN b ELSE IF n = y /\ q = s THEN x ELSE C[q][n]
  BY <1>0, <1>1, <1>3
<1>11. /\ Q \in [Cells -> Nodes \union {Null}]
       /\ \A n \in Cells :
            Q[n] = IF n = x THEN y ELSE IF n = y THEN p
                   ELSE IF n = b /\ b # Sentinel THEN x ELSE P[n]
  BY <1>0, <1>1, <1>2
<1> HIDE DEF ra, ca
<1>12. rb = [root |-> R, child |-> cb, parent |-> P, color |-> K]
  BY ONLY <1>9
<1> HIDE DEF rb, cb
<1>13. rc = [root |-> R, child |-> cb, parent |-> Q, color |-> K]
  BY ONLY <1>12
<1> HIDE DEF rc
<1>14. /\ K \in [Cells -> {"red", "black"}] /\ R \in [Trees -> Cells \union {Null}]
       /\ Q \in [Cells -> Nodes \union {Null}]
       /\ cb \in [Sides -> [Cells -> Cells \union {Null}]]
  BY <1>1, <1>10, <1>11
<1>15. PICK r : r = Rotate(g, t, x, s)
  OBVIOUS
<1>16. CASE p = Null
  <2>1. r = [root |-> [R EXCEPT ![t] = y], child |-> cb, parent |-> Q, color |-> K]
    BY ONLY <1>8, <1>13, <1>15, <1>16
  <2>2. [R EXCEPT ![t] = y] \in [Trees -> Cells \union {Null}]
    BY <1>0, <1>14
  <2>3. r \in Links
    BY ONLY <1>14, <2>1, <2>2 DEF Links
  <2>4. r.color = K /\ r.root = [R EXCEPT ![t] = y] /\ r.parent = Q /\ r.child = cb
    BY ONLY <2>1
  <2>5. \A n \in Cells :
          r.parent[n] = IF n = x THEN y ELSE IF n = y THEN p
                        ELSE IF n = b /\ b # Sentinel THEN x ELSE g.parent[n]
    BY ONLY <1>5, <1>11, <2>4
  <2>6. \A q \in Sides, n \in Cells :
          r.child[q][n] = IF n = x /\ q = Other(s) THEN b
                          ELSE IF n = y /\ q = s THEN x
                          ELSE IF p # Null /\ n = p /\ q = SideOf(g, x) THEN y
                          ELSE g.child[q][n]
    BY ONLY <1>3, <1>5, <1>10, <1>16, <2>4
  <2> QED BY ONLY <1>5, <1>15, <1>16, <2>3, <2>4, <2>5, <2>6 DEF Rotated
<1>17. CASE p # Null
  <2>1. r = [root |-> R, child |-> cc, parent |-> Q, color |-> K]
    BY ONLY <1>8, <1>13, <1>15, <1>17
  <2>2. /\ cc \in [Sides -> [Cells -> Cells \union {Null}]]
        /\ \A q \in Sides, n \in Cells :
             cc[q][n] = IF n = p /\ q = side THEN y ELSE cb[q][n]
    BY <1>0, <1>14, <1>17
  <2> HIDE DEF cc
  <2>3. r \in Links
    BY ONLY <1>14, <2>1, <2>2 DEF Links
  <2>4. r.color = K /\ r.root = R /\ r.parent = Q /\ r.child = cc
    BY ONLY <2>1
  <2>5. \A n \in Cells :
          r.parent[n] = IF n = x THEN y ELSE IF n = y THEN p
                        ELSE IF n = b /\ b # Sentinel THEN x ELSE g.parent[n]
    BY ONLY <1>5, <1>11, <2>4
  <2>6. p \notin {x, y}
    OBVIOUS
  <2>7. \A q \in Sides, n \in Cells :
          r.child[q][n] = IF n = x /\ q = Other(s) THEN b
                          ELSE IF n = y /\ q = s THEN x
                          ELSE IF p # Null /\ n = p /\ q = SideOf(g, x) THEN y
                          ELSE g.child[q][n]
    BY ONLY <1>3, <1>4, <1>5, <1>10, <1>17, <2>2, <2>4, <2>6
  <2> QED BY ONLY <1>5, <1>15, <1>17, <2>3, <2>4, <2>5, <2>7 DEF Rotated
<1> QED BY <1>16, <1>17
-----------------------------------------------------------------------------
(* The parts of a shape, for either side.                                   *)
ShapeParts(g, t, N, sub) ==
  /\ N \subseteq Own(t) /\ N \subseteq Nodes /\ Sentinel \notin N /\ Null \notin N
  /\ Null # Sentinel
  /\ \A n \in N : n[2] \in Keys(t) /\ n \in Cells /\ n \in Nodes
  /\ sub \in [Nodes -> SUBSET Nodes]
  /\ \A n \in N : n \in sub[n] /\ sub[n] \subseteq N
  /\ \A n \in N, m \in N : m \in sub[n] => sub[m] \subseteq sub[n]
  /\ \A n \in N, m \in N : m \in sub[n] /\ m # n => g.parent[m] \in sub[n]
  /\ \A n \in N, s \in Sides :
       /\ g.child[s][n] \in N \union {Sentinel}
       /\ g.child[s][n] # Sentinel => g.parent[g.child[s][n]] = n
  /\ \A n \in N, s \in Sides :
       sub[n] = {n} \union Below(g, sub, s, n) \union Below(g, sub, Other(s), n)
  /\ \A n \in N, s \in Sides : \A m \in Below(g, sub, s, n) :
       m \in N /\ Before(s, m[2], n[2])

LEMMA ShapeFacts ==
  ASSUME NEW g, NEW t \in Trees, NEW N, NEW sub, Shape(g, t, N, sub)
  PROVE  ShapeParts(g, t, N, sub)
<1>1. /\ N \subseteq Own(t) /\ N \subseteq Nodes /\ Sentinel \notin N /\ Null \notin N
      /\ Null # Sentinel
      /\ \A n \in N : n[2] \in Keys(t) /\ n \in Cells /\ n \in Nodes
  BY NodesApart DEF Shape
<1>2. /\ sub \in [Nodes -> SUBSET Nodes]
      /\ \A n \in N : n \in sub[n] /\ sub[n] \subseteq N
      /\ \A n \in N, m \in N : m \in sub[n] => sub[m] \subseteq sub[n]
      /\ \A n \in N, m \in N : m \in sub[n] /\ m # n => g.parent[m] \in sub[n]
  BY DEF Shape, Covers
<1>3. ASSUME NEW n \in N, NEW s \in Sides
      PROVE  /\ g.child[s][n] \in N \union {Sentinel}
             /\ g.child[s][n] # Sentinel => g.parent[g.child[s][n]] = n
  BY DEF Shape, Linked
<1>4. ASSUME NEW n \in N, NEW s \in Sides
      PROVE  sub[n] = {n} \union Below(g, sub, s, n) \union Below(g, sub, Other(s), n)
  <2>1. (s = "left" /\ Other(s) = "right") \/ (s = "right" /\ Other(s) = "left")
    BY SidesTwo DEF Sides
  <2>2. sub[n] = {n} \union Below(g, sub, "left", n) \union Below(g, sub, "right", n)
    BY DEF Shape, Covers
  <2> QED BY <2>1, <2>2
<1>5. ASSUME NEW n \in N, NEW s \in Sides, NEW m \in Below(g, sub, s, n)
      PROVE  m \in N /\ Before(s, m[2], n[2])
  <2>1. m \in sub[n]
    BY <1>4
  <2>2. m \in N
    BY <1>2, <2>1
  <2> QED BY <2>2 DEF Shape, Ordered
<1> QED BY <1>1, <1>2, <1>3, <1>4, <1>5 DEF ShapeParts

(* A node is not both children of another.                                  *)
LEMMA ChildrenApart ==
  ASSUME NEW g, NEW t \in Trees, NEW N, NEW sub, Shape(g, t, N, sub),
         NEW n \in N, NEW q \in Sides, g.child[q][n] # Sentinel
  PROVE  g.child[q][n] # g.child[Other(q)][n]
<1>1. Other(q) \in Sides /\ Other(q) # q
  BY SidesTwo
<1>2. ShapeParts(g, t, N, sub)
  BY ShapeFacts
<1>3. PICK m \in N : m = g.child[q][n]
  BY ONLY <1>2, n \in N, q \in Sides, g.child[q][n] # Sentinel DEF ShapeParts
<1>4. m \in sub[m] /\ n[2] \in Keys(t) /\ m[2] \in Keys(t)
  BY ONLY <1>2, n \in N, m \in N DEF ShapeParts
<1>5. \A r \in Sides : m \in Below(g, sub, r, n) => Before(r, m[2], n[2])
  BY ONLY <1>2, n \in N DEF ShapeParts
<1>6. SUFFICES ASSUME m = g.child[Other(q)][n] PROVE FALSE
  BY <1>3
<1>7. m \in Below(g, sub, q, n) /\ m \in Below(g, sub, Other(q), n)
  BY <1>3, <1>4, <1>6 DEF Below
<1>8. Before(q, m[2], n[2]) /\ Before(Other(q), m[2], n[2])
  BY <1>1, <1>5, <1>7
<1> QED BY <1>1, <1>4, <1>8, BeforeOrder

(* The nodes a rotation is about differ.                                    *)
LEMMA RotateApart ==
  ASSUME NEW g \in Links, NEW t \in Trees, NEW N, NEW sub, Shape(g, t, N, sub),
         NEW s \in Sides, NEW x \in N, NEW y \in N, y = g.child[Other(s)][x],
         NEW b, b = g.child[s][y], NEW p, p = g.parent[x]
  PROVE  /\ b \in N \union {Sentinel} /\ p \in N \union {Null}
         /\ y # x /\ b # x /\ b # y /\ p # x /\ p # y
         /\ p = Null <=> x = g.root[t]
         /\ p # Null => SideOf(g, x) \in Sides /\ g.child[SideOf(g, x)][p] = x
<1>0. Other(s) \in Sides
  BY SidesTwo
<1>1. /\ N \subseteq Own(t) /\ Sentinel \notin N /\ Null \notin N
      /\ \A n \in N : n[2] \in Keys(t)
      /\ \A n \in N : n \in sub[n] /\ sub[n] \subseteq N
      /\ \A n \in N, q \in Sides : g.child[q][n] \in N \union {Sentinel}
      /\ \A n \in N, q \in Sides : \A m \in Below(g, sub, q, n) : Before(q, m[2], n[2])
      /\ \A n \in N, q \in Sides : Below(g, sub, q, n) \subseteq sub[n]
  <2>1. ShapeParts(g, t, N, sub)
    BY ShapeFacts
  <2> QED BY ONLY <2>1 DEF ShapeParts
<1>2. \A n \in N, q \in Sides : ~Before(q, n[2], n[2])
  BY <1>1, BeforeOrder
<1>3. Below(g, sub, Other(s), x) = sub[y] /\ y \in sub[y]
  BY <1>1 DEF Below
<1>4. y # x /\ x \notin sub[y]
  BY <1>0, <1>1, <1>2, <1>3
<1>5. b \in N \union {Sentinel}
  BY <1>1
<1>6. b # x /\ b # y
  <2>1. CASE b = Sentinel
    BY <1>1, <2>1
  <2>2. CASE b # Sentinel
    <3>1. b \in Below(g, sub, s, y) /\ b \in sub[y]
      BY <1>1, <1>5, <2>2 DEF Below
    <3> QED BY <1>1, <1>2, <1>4, <3>1
  <2> QED BY <2>1, <2>2
<1>7. CASE x = g.root[t]
  <2>1. p = Null
    BY <1>7 DEF Shape, Rooted
  <2> QED BY <1>1, <1>4, <1>5, <1>6, <1>7, <2>1
<1>8. CASE x # g.root[t]
  <2>1. p \in N
    BY <1>8 DEF Shape, Linked
  <2>2. PICK q \in Sides : g.child[q][p] = x
    BY <1>8 DEF Shape, Linked
  <2>3. x \in Below(g, sub, q, p)
    BY <1>1, <2>2 DEF Below
  <2>4. p # x /\ p # y
    BY <1>1, <1>2, <1>4, <2>1, <2>3
  <2>5. SideOf(g, x) \in Sides /\ g.child[SideOf(g, x)][p] = x
    BY <2>2 DEF SideOf, Sides
  <2> QED BY <1>1, <1>4, <1>5, <1>6, <1>8, <2>1, <2>4, <2>5
<1> QED BY <1>7, <1>8
-----------------------------------------------------------------------------
(* The nodes at and under each node after the rotation of x and y.          *)
Resub(g, sub, s, x, y) ==
  [n \in Nodes |-> IF n = y THEN sub[x]
                   ELSE IF n = x THEN {x} \union Below(g, sub, s, x) \union Below(g, sub, s, y)
                   ELSE sub[n]]

(* A rotation keeps a search tree, of the same nodes.                       *)
LEMMA RotateShape ==
  ASSUME NEW g \in Links, NEW t \in Trees, NEW N, NEW sub, Shape(g, t, N, sub),
         NEW s \in Sides, NEW x \in N, NEW y \in N, y = g.child[Other(s)][x]
  PROVE  Shape(Rotate(g, t, x, s), t, N, Resub(g, sub, s, x, y))
<1>1. PICK o \in Sides : o = Other(s) /\ o # s /\ Other(o) = s /\ \A q \in Sides : q = s \/ q = o
  BY SidesTwo
<1>2. PICK b : b = g.child[s][y]
  OBVIOUS
<1>3. PICK p : p = g.parent[x]
  OBVIOUS
<1>4. PICK d : d = SideOf(g, x)
  OBVIOUS
<1>5. /\ b \in N \union {Sentinel} /\ p \in N \union {Null}
      /\ y # x /\ b # x /\ b # y /\ p # x /\ p # y
      /\ p = Null <=> x = g.root[t]
      /\ p # Null => d \in Sides /\ g.child[d][p] = x
  BY <1>2, <1>3, <1>4, RotateApart
<1>6. /\ N \subseteq Own(t) /\ N \subseteq Nodes /\ Sentinel \notin N /\ Null \notin N
      /\ Null # Sentinel
      /\ \A n \in N : n[2] \in Keys(t) /\ n \in Cells /\ n \in Nodes
      /\ sub \in [Nodes -> SUBSET Nodes]
  <2>1. ShapeParts(g, t, N, sub)
    BY ShapeFacts
  <2> QED BY ONLY <2>1 DEF ShapeParts
<1>7. /\ \A n \in N : n \in sub[n] /\ sub[n] \subseteq N
      /\ \A n \in N, m \in N : m \in sub[n] => sub[m] \subseteq sub[n]
      /\ \A n \in N, m \in N : m \in sub[n] /\ m # n => g.parent[m] \in sub[n]
  <2>1. ShapeParts(g, t, N, sub)
    BY ShapeFacts
  <2> QED BY ONLY <2>1 DEF ShapeParts
<1>8. \A n \in N, q \in Sides :
        /\ g.child[q][n] \in N \union {Sentinel}
        /\ g.child[q][n] # Sentinel => g.parent[g.child[q][n]] = n
  <2>1. ShapeParts(g, t, N, sub)
    BY ShapeFacts
  <2> QED BY ONLY <2>1 DEF ShapeParts
<1>9. /\ \A n \in N, q \in Sides :
           sub[n] = {n} \union Below(g, sub, q, n) \union Below(g, sub, Other(q), n)
      /\ \A n \in N, q \in Sides : \A m \in Below(g, sub, q, n) : m \in N /\ Before(q, m[2], n[2])
  <2>1. ShapeParts(g, t, N, sub)
    BY ShapeFacts
  <2> QED BY ONLY <2>1 DEF ShapeParts
<1>10. \A q \in Sides, l, m, n \in N :
         /\ ~Before(q, n[2], n[2])
         /\ Before(q, m[2], n[2]) <=> Before(Other(q), n[2], m[2])
         /\ Before(q, l[2], m[2]) /\ Before(q, m[2], n[2]) => Before(q, l[2], n[2])
         /\ ~(Before(q, m[2], n[2]) /\ Before(q, n[2], m[2]))
  BY <1>6, BeforeOrder
<1>11. PICK r : r = Rotate(g, t, x, s)
  OBVIOUS
<1>12. /\ r \in Links
       /\ r.color = g.color
       /\ p = Null => r.root = [g.root EXCEPT ![t] = y]
       /\ p # Null => r.root = g.root
       /\ \A n \in Cells :
            r.parent[n] = IF n = x THEN y ELSE IF n = y THEN p
                          ELSE IF n = b /\ b # Sentinel THEN x ELSE g.parent[n]
       /\ \A q \in Sides, n \in Cells :
            r.child[q][n] = IF n = x /\ q = o THEN b
                            ELSE IF n = y /\ q = s THEN x
                            ELSE IF p # Null /\ n = p /\ q = d THEN y
                            ELSE g.child[q][n]
  <2>1. x \in Nodes /\ y \in Nodes /\ b \in Cells /\ p \in Nodes \union {Null}
    BY <1>5, <1>6 DEF Cells
  <2>2. Rotated(g, r, t, s, x, y, b, p)
    BY <1>1, <1>2, <1>3, <1>5, <1>11, <2>1, <1>6, RotateEffect
  <2> QED BY ONLY <1>1, <1>4, <2>2 DEF Rotated
<1>13. /\ p = Null => r.root[t] = y
       /\ p # Null => r.root[t] = g.root[t]
  <2>1. g.root \in [Trees -> Cells \union {Null}]
    BY LinksFields
  <2> QED BY ONLY <1>12, <2>1, t \in Trees
(* Which cell leads where.                                                  *)
<1>14. \A n \in N, q \in Sides : q # Other(q) /\ Other(q) \in Sides /\
         (g.child[q][n] # Sentinel => g.child[q][n] # g.child[Other(q)][n])
  BY SidesTwo, ChildrenApart
<1>15. y = g.child[o][x] /\ g.parent[y] = x /\ (b # Sentinel => g.parent[b] = y)
  BY <1>1, <1>2, <1>6, <1>8
<1>16. \A n \in N, q \in Sides :
         n # x /\ n # y => /\ g.child[q][n] # y /\ g.child[q][n] \in N \union {Sentinel}
                           /\ (g.child[q][n] = b => b = Sentinel)
                           /\ (g.child[q][n] = x => n = p /\ q = d /\ p # Null)
  <2> SUFFICES ASSUME NEW n \in N, NEW q \in Sides, n # x, n # y
               PROVE  /\ g.child[q][n] # y /\ g.child[q][n] \in N \union {Sentinel}
                      /\ (g.child[q][n] = b => b = Sentinel)
                      /\ (g.child[q][n] = x => n = p /\ q = d /\ p # Null)
    OBVIOUS
  <2>1. g.child[q][n] # y /\ g.child[q][n] \in N \union {Sentinel}
        /\ (g.child[q][n] = b => b = Sentinel)
    BY <1>6, <1>8, <1>15
  <2>2. ASSUME g.child[q][n] = x PROVE n = p /\ q = d /\ p # Null
    <3>1. n = p /\ p # Null
      BY <1>3, <1>6, <1>8, <2>2
    <3>2. d \in Sides /\ g.child[d][n] = x
      BY <1>5, <3>1
    <3>3. q = d
      BY <1>1, <1>6, <1>14, <2>2, <3>2
    <3> QED BY <3>1, <3>3
  <2> QED BY <2>1, <2>2
<1>17. /\ r.child[o][x] = b /\ r.child[s][x] = g.child[s][x]
       /\ r.child[s][y] = x /\ r.child[o][y] = g.child[o][y]
       /\ p # Null => r.child[d][p] = y
       /\ \A n \in N, q \in Sides :
            n # x /\ n # y /\ ~(p # Null /\ n = p /\ q = d) => r.child[q][n] = g.child[q][n]
       /\ \A n \in N, q \in Sides :
            n # x /\ n # y => \/ p # Null /\ n = p /\ q = d /\ r.child[q][n] = y /\ g.child[q][n] = x
                              \/ r.child[q][n] = g.child[q][n] /\ g.child[q][n] \notin {x, y}
  <2>1. \A q \in Sides, n \in N :
            r.child[q][n] = IF n = x /\ q = o THEN b
                            ELSE IF n = y /\ q = s THEN x
                            ELSE IF p # Null /\ n = p /\ q = d THEN y
                            ELSE g.child[q][n]
    BY ONLY <1>6, <1>12
  <2>2. /\ r.child[o][x] = b /\ r.child[s][x] = g.child[s][x]
        /\ r.child[s][y] = x /\ r.child[o][y] = g.child[o][y]
    BY ONLY <1>1, <1>5, <2>1, x \in N, y \in N, s \in Sides, o \in Sides
  <2>3. p # Null => r.child[d][p] = y /\ g.child[d][p] = x
    BY ONLY <1>5, <2>1
  <2>4. \A n \in N, q \in Sides :
            n # x /\ n # y /\ ~(p # Null /\ n = p /\ q = d) => r.child[q][n] = g.child[q][n]
    BY ONLY <2>1
  <2> QED BY ONLY <1>16, <2>2, <2>3, <2>4
<1>18. /\ r.parent[x] = y /\ r.parent[y] = p
       /\ b # Sentinel => r.parent[b] = x
       /\ \A n \in N : n # x /\ n # y /\ n # b => r.parent[n] = g.parent[n]
  BY ONLY <1>5, <1>6, <1>12, x \in N, y \in N
(* What is under the nodes.                                                 *)
<1>19. PICK v : v = Resub(g, sub, s, x, y)
  OBVIOUS
<1>20. PICK A, B, D : A = Below(g, sub, s, x) /\ B = Below(g, sub, s, y) /\ D = Below(g, sub, o, y)
  OBVIOUS
<1>21. /\ sub[x] = {x} \union A \union sub[y]
       /\ sub[y] = {y} \union B \union D
  <2>1. Below(g, sub, o, x) = sub[y]
    BY <1>6, <1>15 DEF Below
  <2> QED BY <1>1, <1>9, <1>20, <2>1
<1>22. /\ v \in [Nodes -> SUBSET Nodes]
       /\ v[y] = sub[x]
       /\ v[x] = {x} \union A \union B
       /\ \A n \in N : n # x /\ n # y => v[n] = sub[n]
  <2>1. {x} \union A \union B \in SUBSET Nodes
    BY <1>6, <1>9, <1>20
  <2>2. \A n \in Nodes : sub[n] \in SUBSET Nodes
    BY <1>6
  <2> QED BY <1>5, <1>6, <1>19, <1>20, <2>1, <2>2 DEF Resub
<1>23. /\ \A m \in A : m \in N /\ Before(s, m[2], x[2])
       /\ \A m \in B : m \in N /\ Before(s, m[2], y[2]) /\ Before(o, m[2], x[2])
       /\ \A m \in D : m \in N /\ Before(o, m[2], y[2])
       /\ Before(o, y[2], x[2]) /\ Before(s, x[2], y[2])
  <2>1. Below(g, sub, o, x) = sub[y] /\ y \in sub[y] /\ B \subseteq sub[y]
    BY <1>6, <1>7, <1>15, <1>21 DEF Below
  <2> QED BY <1>1, <1>9, <1>10, <1>20, <2>1
<1>24. /\ x \notin A /\ y \notin A /\ x \notin B /\ y \notin B /\ y \notin D /\ x \notin D
       /\ b \notin A
  <2>1. x \notin A /\ x \notin B /\ y \notin B /\ y \notin D
    BY <1>1, <1>10, <1>23
  <2>2. y \notin A
    BY <1>1, <1>10, <1>23
  <2>3. x \notin D
    BY <1>1, <1>10, <1>23
  <2>4. b # Sentinel => b \in B
    BY <1>2, <1>5, <1>7, <1>20 DEF Below
  <2>5. \A m \in A : m \notin B
    BY <1>1, <1>10, <1>23
  <2> QED BY <1>5, <1>6, <1>23, <2>1, <2>2, <2>3, <2>4, <2>5
<1>25. /\ Below(r, v, s, x) = A /\ Below(r, v, o, x) = B
       /\ Below(r, v, s, y) = {x} \union A \union B /\ Below(r, v, o, y) = D
  <2>1. Below(r, v, s, x) = A
    <3>1. CASE g.child[s][x] = Sentinel
      BY <1>17, <1>20, <3>1 DEF Below
    <3>2. CASE g.child[s][x] # Sentinel
      <4>1. PICK a \in N : a = g.child[s][x]
        BY <1>8, <3>2
      <4>2. a \in A /\ A = sub[a]
        BY <1>7, <1>20, <3>2, <4>1 DEF Below
      <4> QED BY <1>17, <1>22, <1>24, <3>2, <4>1, <4>2 DEF Below
    <3> QED BY <3>1, <3>2
  <2>2. Below(r, v, o, x) = B
    BY <1>2, <1>5, <1>17, <1>20, <1>22 DEF Below
  <2>3. Below(r, v, s, y) = {x} \union A \union B
    BY <1>6, <1>17, <1>22 DEF Below
  <2>4. Below(r, v, o, y) = D
    <3>1. CASE g.child[o][y] = Sentinel
      BY <1>17, <1>20, <3>1 DEF Below
    <3>2. CASE g.child[o][y] # Sentinel
      <4>1. PICK a \in N : a = g.child[o][y]
        BY <1>1, <1>8, <3>2
      <4>2. a \in D /\ D = sub[a]
        BY <1>7, <1>20, <3>2, <4>1 DEF Below
      <4> QED BY <1>17, <1>22, <1>24, <3>2, <4>1, <4>2 DEF Below
    <3> QED BY <3>1, <3>2
  <2> QED BY <2>1, <2>2, <2>3, <2>4
<1>26. \A n \in N, q \in Sides : n # x /\ n # y => Below(r, v, q, n) = Below(g, sub, q, n)
  <2> SUFFICES ASSUME NEW n \in N, NEW q \in Sides, n # x, n # y
               PROVE  Below(r, v, q, n) = Below(g, sub, q, n)
    OBVIOUS
  <2>1. CASE r.child[q][n] = y /\ g.child[q][n] = x
    BY <1>6, <1>22, <2>1 DEF Below
  <2>2. CASE r.child[q][n] = g.child[q][n] /\ g.child[q][n] \notin {x, y}
    BY <1>8, <1>22, <2>2 DEF Below
  <2> QED BY <1>17, <2>1, <2>2
(* The parts of the shape.                                                  *)
<1>27. ASSUME NEW n \in N PROVE Linked(r, t, N, v, n)
  <2>1. ASSUME NEW q \in Sides
        PROVE  /\ r.child[q][n] \in N \union {Sentinel}
               /\ r.child[q][n] # Sentinel => r.parent[r.child[q][n]] = n
    <3>1. CASE n = x
      <4>1. g.child[s][x] # Sentinel => g.child[s][x] \in N /\ g.child[s][x] \notin {x, y, b}
        <5>1. g.child[s][x] # Sentinel => g.child[s][x] \in N /\ g.child[s][x] \in A
          BY <1>7, <1>8, <1>20 DEF Below
        <5> QED BY <1>24, <5>1
      <4>2. CASE q = s
        BY <1>8, <1>17, <1>18, <3>1, <4>1, <4>2
      <4>3. CASE q = o
        BY <1>5, <1>17, <1>18, <3>1, <4>3
      <4> QED BY <1>1, <4>2, <4>3
    <3>2. CASE n = y
      <4>1. g.child[o][y] # Sentinel => g.child[o][y] \in N /\ g.child[o][y] \notin {x, y, b}
        <5>1. g.child[o][y] # Sentinel => g.child[o][y] \in N /\ g.child[o][y] \in D
          BY <1>7, <1>8, <1>20 DEF Below
        <5>2. g.child[o][y] # Sentinel => g.child[o][y] # b
          BY <1>1, <1>2, <1>14
        <5> QED BY <1>24, <5>1, <5>2
      <4>2. CASE q = s
        BY <1>6, <1>17, <1>18, <3>2, <4>2
      <4>3. CASE q = o
        BY <1>8, <1>17, <1>18, <3>2, <4>1, <4>3
      <4> QED BY <1>1, <4>2, <4>3
    <3>3. CASE n # x /\ n # y
      <4>1. CASE p # Null /\ n = p /\ r.child[q][n] = y
        BY <1>18, <4>1
      <4>2. CASE r.child[q][n] = g.child[q][n] /\ g.child[q][n] \notin {x, y}
        BY <1>8, <1>16, <1>18, <3>3, <4>2
      <4> QED BY <1>17, <3>3, <4>1, <4>2
    <3> QED BY <3>1, <3>2, <3>3
  <2>2. ASSUME n # r.root[t]
        PROVE  r.parent[n] \in N /\ \E q \in Sides : r.child[q][r.parent[n]] = n
    <3>1. CASE n = x
      BY <1>17, <1>18, <3>1
    <3>2. CASE n = y
      BY <1>5, <1>13, <1>17, <1>18, <2>2, <3>2
    <3>3. CASE n = b
      BY <1>1, <1>6, <1>17, <1>18, <3>3
    <3>4. CASE n # x /\ n # y /\ n # b
      <4>1. n # g.root[t]
        BY <1>5, <1>13, <2>2, <3>4
      <4>2. PICK m \in N, q \in Sides : m = g.parent[n] /\ g.child[q][m] = n
        BY <4>1 DEF Shape, Linked
      <4>3. r.parent[n] = m
        BY <1>18, <3>4, <4>2
      <4>4. r.child[q][m] = n
        <5>1. CASE m = x
          BY <1>1, <1>15, <1>17, <3>4, <4>2, <5>1
        <5>2. CASE m = y
          BY <1>1, <1>2, <1>17, <3>4, <4>2, <5>2
        <5>3. CASE m # x /\ m # y
          BY <1>17, <3>4, <4>2, <5>3
        <5> QED BY <5>1, <5>2, <5>3
      <4> QED BY <4>3, <4>4
    <3> QED BY <3>1, <3>2, <3>3, <3>4
  <2> QED BY <2>1, <2>2 DEF Linked
<1>28. \A n \in N :
         v[n] = {n} \union Below(r, v, "left", n) \union Below(r, v, "right", n)
  <2> SUFFICES ASSUME NEW n \in N
               PROVE  v[n] = {n} \union Below(r, v, s, n) \union Below(r, v, o, n)
    BY <1>1 DEF Sides
  <2>1. CASE n = x
    BY <1>22, <1>25, <2>1
  <2>2. CASE n = y
    BY <1>21, <1>22, <1>25, <2>2
  <2>3. CASE n # x /\ n # y
    BY <1>1, <1>9, <1>22, <1>26, <2>3
  <2> QED BY <2>1, <2>2, <2>3
<1>29. ASSUME NEW n \in N PROVE Ordered(r, t, N, v, n)
  <2> SUFFICES ASSUME NEW q \in Sides, NEW m \in Below(r, v, q, n)
               PROVE  Before(q, m[2], n[2])
    BY DEF Ordered
  <2>1. CASE n = x
    BY <1>1, <1>23, <1>25, <2>1
  <2>2. CASE n = y /\ q = o
    BY <1>23, <1>25, <2>2
  <2>3. CASE n = y /\ q = s
    <3>1. m = x \/ m \in A \/ m \in B
      BY <1>25, <2>3
    <3> QED BY <1>10, <1>23, <2>3, <3>1
  <2>4. CASE n # x /\ n # y
    BY <1>9, <1>26, <2>4
  <2> QED BY <1>1, <2>1, <2>2, <2>3, <2>4
<1>30. \A n \in N : n \in v[n] /\ v[n] \subseteq N
  BY <1>7, <1>21, <1>22, <1>23
<1>31. ASSUME NEW n \in N, NEW m \in N, m \in v[n]
       PROVE  v[m] \subseteq v[n] /\ (m # n => r.parent[m] \in v[n])
  <2>1. v[x] \subseteq sub[x] /\ x \in sub[x] /\ y \in sub[x] /\ sub[y] \subseteq sub[x]
    BY <1>7, <1>21, <1>22
  <2>2. CASE n = y
    <3>1. v[m] \subseteq sub[x]
      BY <1>7, <1>22, <2>1, <2>2, <1>31
    <3>2. m # y => r.parent[m] \in sub[x]
      <4>1. m \in sub[x]
        BY ONLY <1>22, <1>31, <2>2
      <4>2. m # x => g.parent[m] \in sub[x]
        BY <1>7, <4>1
      <4> QED BY ONLY <1>6, <1>18, <2>1, <4>2, m \in N
    <3> QED BY <1>22, <2>2, <3>1, <3>2
  <2>3. CASE n = x /\ m \in A
    <3>1. PICK a \in N : a = g.child[s][x] /\ A = sub[a] /\ g.parent[a] = x
      BY <1>6, <1>8, <1>20, <2>3 DEF Below
    <3>2. m # x /\ m # y /\ m # b
      BY <1>24, <2>3
    <3>3. v[m] = sub[m] /\ sub[m] \subseteq A
      BY <1>7, <1>22, <2>3, <3>1, <3>2
    <3>4. r.parent[m] = g.parent[m] /\ (g.parent[m] = x \/ g.parent[m] \in A)
      BY <1>7, <1>18, <2>3, <3>1, <3>2
    <3> QED BY <1>22, <2>3, <3>3, <3>4
  <2>4. CASE n = x /\ m \in B
    <3>1. b \in N /\ B = sub[b]
      BY <1>2, <1>5, <1>20, <2>4 DEF Below
    <3>2. m # x /\ m # y
      BY <1>24, <2>4
    <3>3. v[m] = sub[m] /\ sub[m] \subseteq B
      BY <1>7, <1>22, <2>4, <3>1, <3>2
    <3>4. r.parent[m] = x \/ r.parent[m] \in B
      BY <1>6, <1>7, <1>18, <2>4, <3>1, <3>2
    <3> QED BY <1>22, <2>4, <3>3, <3>4
  <2>5. CASE n = x /\ m = x
    BY <2>5
  <2>6. CASE n # x /\ n # y
    <3>1. v[n] = sub[n]
      BY <1>22, <2>6
    <3>2. y \in sub[n] => x \in sub[n] /\ sub[x] \subseteq sub[n]
      BY <1>7, <1>15, <2>6
    <3>3. x \in sub[n] => p \in sub[n] /\ sub[x] \subseteq sub[n]
      BY <1>3, <1>7, <2>6
    <3>4. v[m] \subseteq sub[n]
      BY <1>7, <1>22, <2>1, <3>1, <3>2, <3>3, <1>31
    <3>5. CASE m = x \/ m = y
      BY <1>18, <2>1, <3>1, <3>2, <3>3, <3>4, <3>5, <1>31
    <3>6. CASE m = b
      <4>1. m # n => y \in sub[n]
        BY <1>6, <1>7, <1>15, <3>1, <3>6, <1>31
      <4> QED BY <1>6, <1>18, <3>1, <3>2, <3>4, <3>6, <4>1
    <3>7. CASE m # x /\ m # y /\ m # b
      BY <1>7, <1>18, <3>1, <3>4, <3>7, <1>31
    <3> QED BY <3>5, <3>6, <3>7
  <2> QED BY <1>22, <2>2, <2>3, <2>4, <2>5, <2>6, <1>31
<1>32. ASSUME NEW n \in N PROVE Covers(r, t, N, v, n)
  BY <1>28, <1>30, <1>31 DEF Covers
<1>33. Rooted(r, t, N, v)
  <2>1. g.root[t] \in N /\ g.parent[g.root[t]] = Null /\ sub[g.root[t]] = N
    BY DEF Shape, Rooted
  <2>2. CASE p = Null
    BY <1>5, <1>13, <1>18, <1>22, <2>1, <2>2 DEF Rooted
  <2>3. CASE p # Null
    <3>1. g.root[t] \notin {x, y, b}
      BY <1>5, <1>6, <1>15, <2>1, <2>3
    <3> QED BY <1>13, <1>18, <1>22, <2>1, <2>3, <3>1 DEF Rooted
  <2> QED BY <2>2, <2>3
<1> QED BY <1>6, <1>11, <1>19, <1>22, <1>27, <1>29, <1>32, <1>33 DEF Shape
-----------------------------------------------------------------------------
(* g and r agree on the tree t, the nodes of N, colours apart.              *)
SameLinks(g, r, t, N) ==
  /\ r.root[t] = g.root[t]
  /\ \A n \in N : r.parent[n] = g.parent[n] /\ \A q \in Sides : r.child[q][n] = g.child[q][n]

LEMMA ShapeSame ==
  ASSUME NEW g, NEW r, NEW t \in Trees, NEW N, NEW sub, Shape(g, t, N, sub), SameLinks(g, r, t, N)
  PROVE  Shape(r, t, N, sub)
<1>1. r.root[t] = g.root[t] /\ \A n \in N : r.parent[n] = g.parent[n]
  BY DEF SameLinks
<1>2. \A n \in N, q \in Sides :
        /\ r.child[q][n] = g.child[q][n]
        /\ Below(r, sub, q, n) = Below(g, sub, q, n)
  BY DEF SameLinks, Below
<1>3. "left" \in Sides /\ "right" \in Sides
  BY DEF Sides
<1>4. /\ sub \in [Nodes -> SUBSET Nodes] /\ Sentinel \notin N
      /\ \A n \in N : n \in sub[n] /\ sub[n] \subseteq N
      /\ \A n \in N, q \in Sides : g.child[q][n] \in N \union {Sentinel}
  <2>1. ShapeParts(g, t, N, sub)
    BY ShapeFacts
  <2> QED BY ONLY <2>1 DEF ShapeParts
<1>5. ASSUME NEW n \in N PROVE Linked(r, t, N, sub, n)
  <2>1. Linked(g, t, N, sub, n)
    BY DEF Shape
  <2> QED BY <1>1, <1>2, <1>4, <2>1 DEF Linked
<1>6. ASSUME NEW n \in N PROVE Covers(r, t, N, sub, n)
  <2>1. Covers(g, t, N, sub, n)
    BY DEF Shape
  <2> QED BY <1>1, <1>2, <1>3, <1>4, <2>1 DEF Covers
<1>7. ASSUME NEW n \in N PROVE Ordered(r, t, N, sub, n)
  <2>1. Ordered(g, t, N, sub, n)
    BY DEF Shape
  <2> QED BY <1>2, <2>1 DEF Ordered
<1>8. Rooted(r, t, N, sub)
  <2>1. Rooted(g, t, N, sub)
    BY DEF Shape
  <2> QED BY <1>1, <2>1 DEF Rooted
<1> QED BY <1>5, <1>6, <1>7, <1>8 DEF Shape

(* In the colours of color, B counts the black nodes on the paths down from *)
(* each cell.                                                               *)
Heights(g, color, N, B) ==
  /\ B \in [Cells -> Nat \ {0}]
  /\ B[Sentinel] = 1
  /\ \A n \in N, q \in Sides :
       B[n] = IF color[n] = "black" THEN B[g.child[q][n]] + 1 ELSE B[g.child[q][n]]

LEMMA HeightsSame ==
  ASSUME NEW g, NEW r, NEW t \in Trees, NEW N, NEW B, NEW K, NEW L, Heights(g, K, N, B),
         SameLinks(g, r, t, N), \A n \in N : L[n] = K[n]
  PROVE  Heights(r, L, N, B)
BY DEF Heights, SameLinks

(* A rotation keeps the balance when the upper node takes its colour along  *)
(* and the lower one was red.                                               *)
LEMMA RotateHeights ==
  ASSUME NEW g \in Links, NEW t \in Trees, NEW N, NEW sub, Shape(g, t, N, sub),
         NEW s \in Sides, NEW x \in N, NEW y \in N, y = g.child[Other(s)][x],
         NEW K, NEW B, Heights(g, K, N, B), K[y] = "red", K[x] \in {"red", "black"},
         g.color[x] = "red", g.color[y] = K[x],
         \A n \in N : n # x /\ n # y => g.color[n] = K[n]
  PROVE  \E B2 : Heights(Rotate(g, t, x, s), g.color, N, B2)
<1>1. PICK o \in Sides : o = Other(s) /\ o # s /\ Other(o) = s /\ \A q \in Sides : q = s \/ q = o
  BY SidesTwo
<1>2. PICK b : b = g.child[s][y]
  OBVIOUS
<1>3. PICK p : p = g.parent[x]
  OBVIOUS
<1>4. PICK d : d = SideOf(g, x)
  OBVIOUS
<1>5. /\ b \in N \union {Sentinel} /\ p \in N \union {Null}
      /\ y # x /\ b # x /\ b # y /\ p # x /\ p # y
      /\ p # Null => d \in Sides /\ g.child[d][p] = x
  BY <1>2, <1>3, <1>4, RotateApart
<1>6. /\ N \subseteq Nodes /\ Sentinel \notin N /\ Null \notin N /\ Null # Sentinel
      /\ \A n \in N : n \in Cells /\ n \in Nodes
      /\ \A n \in N, q \in Sides :
           /\ g.child[q][n] \in N \union {Sentinel}
           /\ g.child[q][n] # Sentinel => g.parent[g.child[q][n]] = n
  <2>1. ShapeParts(g, t, N, sub)
    BY ShapeFacts
  <2> QED BY ONLY <2>1 DEF ShapeParts
<1>7. PICK r : r = Rotate(g, t, x, s)
  OBVIOUS
<1>8. /\ r.color = g.color
      /\ \A q \in Sides, n \in Cells :
            r.child[q][n] = IF n = x /\ q = o THEN b
                            ELSE IF n = y /\ q = s THEN x
                            ELSE IF p # Null /\ n = p /\ q = d THEN y
                            ELSE g.child[q][n]
  <2>1. x \in Nodes /\ y \in Nodes /\ b \in Cells /\ p \in Nodes \union {Null}
    BY <1>5, <1>6 DEF Cells
  <2>2. Rotated(g, r, t, s, x, y, b, p)
    BY <1>2, <1>3, <1>5, <1>7, <2>1, RotateEffect
  <2> QED BY ONLY <1>1, <1>4, <2>2 DEF Rotated
<1>9. /\ B \in [Cells -> Nat \ {0}] /\ B[Sentinel] = 1
      /\ \A n \in N, q \in Sides :
           B[n] = IF K[n] = "black" THEN B[g.child[q][n]] + 1 ELSE B[g.child[q][n]]
  BY DEF Heights
<1>10. /\ B[y] = B[b] /\ B[y] = B[g.child[o][y]] /\ B[y] = B[g.child[s][x]]
       /\ B[x] = IF K[x] = "black" THEN B[y] + 1 ELSE B[y]
  <2>1. /\ B[y] = B[g.child[s][y]] /\ B[y] = B[g.child[o][y]]
        /\ B[x] = IF K[x] = "black" THEN B[g.child[o][x]] + 1 ELSE B[g.child[o][x]]
        /\ B[x] = IF K[x] = "black" THEN B[g.child[s][x]] + 1 ELSE B[g.child[s][x]]
    BY <1>1, <1>9
  <2>2. B[y] \in Nat /\ B[g.child[s][x]] \in Nat
    BY <1>6, <1>9 DEF Cells
  <2> QED BY <1>1, <1>2, <2>1, <2>2
<1>11. PICK E : E = [B EXCEPT ![x] = B[y], ![y] = B[x]]
  OBVIOUS
<1>12. /\ E \in [Cells -> Nat \ {0}] /\ E[x] = B[y] /\ E[y] = B[x]
       /\ \A n \in Cells : n # x /\ n # y => E[n] = B[n]
  BY <1>5, <1>6, <1>9, <1>11
<1>13. ASSUME NEW n \in N, NEW q \in Sides
       PROVE  E[n] = IF g.color[n] = "black" THEN E[r.child[q][n]] + 1 ELSE E[r.child[q][n]]
  <2>1. CASE n = x
    <3>1. r.child[q][x] = b \/ r.child[q][x] = g.child[s][x]
      BY <1>1, <1>5, <1>6, <1>8
    <3>2. g.child[s][x] # x /\ g.child[s][x] # y
      <4>1. ShapeParts(g, t, N, sub)
        BY ShapeFacts
      <4>2. \A m \in N : m \in Below(g, sub, s, x) => Before(s, m[2], x[2])
        BY ONLY <4>1, x \in N, s \in Sides DEF ShapeParts
      <4>3. \A m \in N : m \in Below(g, sub, o, x) => Before(o, m[2], x[2])
        BY ONLY <4>1, x \in N, o \in Sides DEF ShapeParts
      <4>4. y \in Below(g, sub, o, x)
        <5>1. y \in sub[y]
          BY ONLY <4>1, y \in N DEF ShapeParts
        <5> QED BY <1>1, <1>6, <5>1 DEF Below
      <4>5. \A m \in N : m = g.child[s][x] => m \in Below(g, sub, s, x)
        <5>1. \A m \in N : m \in sub[m]
          BY ONLY <4>1 DEF ShapeParts
        <5> QED BY <1>6, <5>1 DEF Below
      <4>6. x[2] \in Keys(t) /\ y[2] \in Keys(t)
        BY ONLY <4>1, x \in N, y \in N DEF ShapeParts
      <4>7. Before(o, y[2], x[2]) /\ ~Before(s, x[2], x[2]) /\ ~Before(s, y[2], x[2])
        BY <1>1, <4>3, <4>4, <4>6, BeforeOrder
      <4> QED BY <4>2, <4>5, <4>7
    <3>3. r.child[q][x] \in Cells /\ r.child[q][x] # x /\ r.child[q][x] # y /\ B[r.child[q][x]] = B[y]
      BY <1>5, <1>6, <1>10, <3>1, <3>2 DEF Cells
    <3> QED BY <1>12, <2>1, <3>3
  <2>2. CASE n = y
    <3>1. r.child[q][y] = x \/ r.child[q][y] = g.child[o][y]
      BY <1>1, <1>5, <1>6, <1>8
    <3>2. g.child[o][y] # x /\ g.child[o][y] # y
      <4>1. g.parent[x] # y /\ g.parent[y] = x
        BY <1>1, <1>3, <1>5, <1>6
      <4> QED BY <1>1, <1>5, <1>6, <4>1
    <3>3. r.child[q][y] \in Cells /\ E[r.child[q][y]] = B[y]
      BY <1>6, <1>10, <1>12, <3>1, <3>2 DEF Cells
    <3> QED BY <1>10, <1>12, <2>2, <3>3
  <2>3. CASE n # x /\ n # y
    <3>1. E[n] = B[n] /\ g.color[n] = K[n]
      BY <1>6, <1>12, <2>3
    <3>2. CASE p # Null /\ n = p /\ q = d
      BY <1>5, <1>6, <1>8, <1>9, <1>12, <2>3, <3>1, <3>2
    <3>3. CASE ~(p # Null /\ n = p /\ q = d)
      <4>1. r.child[q][n] = g.child[q][n]
        BY <1>6, <1>8, <2>3, <3>3
      <4>2. g.child[q][n] # y
        BY <1>1, <1>6, <2>3
      <4>3. g.child[q][n] # x
        <5> SUFFICES ASSUME g.child[q][n] = x PROVE FALSE
          OBVIOUS
        <5>1. n = p /\ p # Null
          BY <1>3, <1>6
        <5>2. q = Other(d) /\ g.child[d][n] = x /\ d \in Sides
          BY <1>5, <3>3, <5>1, SidesTwo
        <5>3. g.child[d][n] # g.child[Other(d)][n]
          <6>1. g.child[d][n] # Sentinel
            BY <1>6, <5>2
          <6> QED BY ONLY <5>2, <6>1, ChildrenApart, Shape(g, t, N, sub), t \in Trees, n \in N
        <5> QED BY <5>2, <5>3
      <4> QED BY <1>6, <1>9, <1>12, <3>1, <4>1, <4>2, <4>3 DEF Cells
    <3> QED BY <3>2, <3>3
  <2> QED BY <2>1, <2>2, <2>3
<1>14. Heights(r, r.color, N, E)
  <2>1. E[Sentinel] = 1
    BY <1>6, <1>9, <1>12 DEF Cells
  <2>2. r.color = g.color
    BY <1>8
  <2> QED BY ONLY <1>12, <1>13, <2>1, <2>2 DEF Heights
<1> QED BY <1>7, <1>8, <1>14
-----------------------------------------------------------------------------
(* Nothing but the tree t, its own nodes, differs between g and r.          *)
Untouched(g, r, t) ==
  /\ \A u \in Trees : u # t => r.root[u] = g.root[u]
  /\ \A n \in Cells : n \notin Own(t) =>
       /\ r.parent[n] = g.parent[n] /\ r.color[n] = g.color[n]
       /\ \A q \in Sides : r.child[q][n] = g.child[q][n]

LEMMA UntouchedTrans ==
  ASSUME NEW g, NEW r, NEW v, NEW t, Untouched(g, r, t), Untouched(r, v, t)
  PROVE  Untouched(g, v, t)
BY DEF Untouched

(* The effect of a rotation in a search tree.                               *)
LEMMA RotateNodes ==
  ASSUME NEW g \in Links, NEW t \in Trees, NEW N, NEW sub, Shape(g, t, N, sub),
         NEW s \in Sides, NEW x \in N, NEW y \in N, y = g.child[Other(s)][x]
  PROVE  /\ Rotated(g, Rotate(g, t, x, s), t, s, x, y, g.child[s][y], g.parent[x])
         /\ Untouched(g, Rotate(g, t, x, s), t)
<1>1. PICK b : b = g.child[s][y]
  OBVIOUS
<1>2. PICK p : p = g.parent[x]
  OBVIOUS
<1>3. /\ b \in N \union {Sentinel} /\ p \in N \union {Null}
      /\ y # x /\ b # x /\ b # y /\ p # x /\ p # y
  BY <1>1, <1>2, RotateApart
<1>4. N \subseteq Own(t) /\ Null \notin N /\ \A n \in N : n \in Cells /\ n \in Nodes
  <2>1. ShapeParts(g, t, N, sub)
    BY ShapeFacts
  <2> QED BY ONLY <2>1 DEF ShapeParts
<1>5. PICK r : r = Rotate(g, t, x, s)
  OBVIOUS
<1>6. Rotated(g, r, t, s, x, y, b, p)
  <2>1. x \in Nodes /\ y \in Nodes /\ b \in Cells /\ p \in Nodes \union {Null}
    BY <1>3, <1>4 DEF Cells
  <2> QED BY <1>1, <1>2, <1>3, <1>5, <2>1, RotateEffect
<1>7. /\ r.color = g.color
      /\ p = Null => r.root = [g.root EXCEPT ![t] = y]
      /\ p # Null => r.root = g.root
      /\ \A n \in Cells : n \notin N =>
           /\ r.parent[n] = g.parent[n]
           /\ \A q \in Sides : r.child[q][n] = g.child[q][n]
  BY ONLY <1>3, <1>4, <1>6, x \in N, y \in N DEF Rotated
<1>8. \A u \in Trees : u # t => r.root[u] = g.root[u]
  <2>1. g.root \in [Trees -> Cells \union {Null}]
    BY LinksFields
  <2> QED BY ONLY <1>7, <2>1
<1>9. Untouched(g, r, t)
  BY ONLY <1>4, <1>7, <1>8 DEF Untouched
<1> QED BY <1>1, <1>2, <1>5, <1>6, <1>9
-----------------------------------------------------------------------------
(* A red node has a black parent, but for those of E.                       *)
Reds(g, N, E) ==
  \A n \in N : /\ g.color[n] = "red"
               /\ g.parent[n] = Null \/ g.color[g.parent[n]] = "red"
               => n \in E

Balanced(g, t, N, E) ==
  /\ \E sub : Shape(g, t, N, sub)
  /\ \E B : Heights(g, g.color, N, B)
  /\ Reds(g, N, E)

Excepted(t) == IF Fixing(t) THEN {op[t].z} ELSE {}

Typed ==
  /\ TypeOK
  /\ size \in [Trees -> Nat]
  /\ given \in [Trees -> SUBSET UNION {Keys(t) : t \in Trees}]

Kept ==
  /\ h.parent[Sentinel] = Null
  /\ live # {} => /\ h.color[Sentinel] = "black"
                  /\ \A s \in Sides : h.child[s][Sentinel] = Null

(* The nodes of a tree are those of the keys inserted.                      *)
Known(t) ==
  /\ given[t] \subseteq Keys(t)
  /\ size[t] = Cardinality(NodesOf(t))
  /\ \A n \in NodesOf(t) : n[2] \in given[t]
  /\ \A k \in given[t] : \E n \in NodesOf(t) : Cmp(k, n[2]) = 0
  /\ Fixing(t) => op[t].z \in NodesOf(t) /\ h.color[op[t].z] = "red"
  /\ t \notin live => NodesOf(t) = {} /\ given[t] = {} /\ ~Fixing(t)

IInv ==
  /\ Typed
  /\ Kept
  /\ \A t \in Trees : Known(t) /\ (t \in live => Balanced(h, t, NodesOf(t), Excepted(t)))

-----------------------------------------------------------------------------
(* What is around the node a turn of a fix-up is at.                        *)
Around(g, N, z, P, G, d) ==
  /\ z \in N /\ P \in N /\ G \in N /\ d \in Sides
  /\ g.parent[z] = P /\ g.parent[P] = G
  /\ g.child[d][G] = P
  /\ g.color[z] = "red" /\ g.color[P] = "red" /\ g.color[G] = "black"

LEMMA TurnAround ==
  ASSUME IInv, NEW t \in Trees, Fixing(t), Turn(t)
  PROVE  /\ t \in live
         /\ Around(h, NodesOf(t), op[t].z, Parent(t), Grand(t), SideOf(h, Parent(t)))
         /\ op[t].z # Parent(t)
<1>1. /\ t \in live /\ Known(t) /\ Balanced(h, t, NodesOf(t), {op[t].z})
      /\ op[t].z \in NodesOf(t) /\ h.color[op[t].z] = "red"
  BY DEF IInv, Known, Excepted
<1>2. PICK N, z : N = NodesOf(t) /\ z = op[t].z /\ z \in N
  BY <1>1
<1>3. PICK sub : Shape(h, t, N, sub)
  BY <1>1, <1>2 DEF Balanced
<1>4. PICK P : P = h.parent[z] /\ P \in N /\ \E q \in Sides : h.child[q][P] = z
  BY <1>2, <1>3 DEF Turn, Shape, Linked
<1>5. h.color[P] = "red" /\ z # h.root[t]
  BY <1>2, <1>4 DEF Turn
<1>6. ShapeParts(h, t, N, sub)
  BY <1>3, ShapeFacts
<1>7. P # z
  <2>1. PICK q \in Sides : h.child[q][P] = z
    BY <1>4
  <2>2. z \in sub[z] /\ z # Sentinel /\ z[2] \in Keys(t)
    BY ONLY <1>2, <1>6 DEF ShapeParts
  <2>3. \A m \in Below(h, sub, q, P) : Before(q, m[2], P[2])
    BY ONLY <1>4, <1>6 DEF ShapeParts
  <2>4. Before(q, z[2], P[2])
    BY <2>1, <2>2, <2>3 DEF Below
  <2> QED BY <2>2, <2>4, BeforeOrder
<1>8. Reds(h, N, {z})
  BY <1>1, <1>2 DEF Balanced
<1>9. h.parent[P] # Null /\ h.color[h.parent[P]] # "red"
  BY <1>4, <1>5, <1>7, <1>8 DEF Reds
<1>10. P # h.root[t]
  BY <1>3, <1>4, <1>9 DEF Shape, Rooted
<1>11. PICK G : G = h.parent[P] /\ G \in N /\ \E q \in Sides : h.child[q][G] = P
  BY <1>3, <1>4, <1>10 DEF Shape, Linked
<1>12. h.color[G] = "black"
  <2>1. G \in Cells
    BY ONLY <1>6, <1>11 DEF ShapeParts
  <2>2. h.color \in [Cells -> {"red", "black"}]
    BY LinksFields DEF IInv, Typed, TypeOK
  <2> QED BY <1>9, <1>11, <2>1, <2>2
<1>13. SideOf(h, P) \in Sides /\ h.child[SideOf(h, P)][G] = P
  BY <1>11 DEF SideOf, Sides
<1> QED BY <1>1, <1>2, <1>4, <1>5, <1>7, <1>11, <1>12, <1>13 DEF Around, Parent, Grand
-----------------------------------------------------------------------------
(* A step of the tree t leaves alone what belongs to the others.            *)
Elsewhere(t) ==
  /\ Untouched(h, h', t)
  /\ heap' \ Own(t) = heap \ Own(t)
  /\ \A u \in Trees : u # t => /\ op'[u] = op[u] /\ given'[u] = given[u] /\ size'[u] = size[u]
                               /\ u \in live' <=> u \in live

LEMMA OwnApart ==
  ASSUME IInv, NEW t \in Trees
  PROVE  /\ NodesOf(t) \subseteq Own(t)
         /\ \A u \in Trees : u # t => \A n \in NodesOf(u) : n \in Cells /\ n \notin Own(t)
         /\ Sentinel \notin Own(t)
BY NodesApart DEF IInv, Typed, TypeOK, NodesOf, Own, Nodes, Cells

LEMMA OthersKept ==
  ASSUME IInv, NEW t \in Trees, Elsewhere(t), NEW u \in Trees, u # t
  PROVE  Known(u)' /\ (u \in live' => Balanced(h, u, NodesOf(u), Excepted(u))')
<1>1. PICK N : N = NodesOf(u)
  OBVIOUS
<1>2. \A n \in N : n \in Cells /\ n \notin Own(t)
  BY <1>1, OwnApart
<1>3. NodesOf(u)' = N
  <2>1. \A n \in Own(t) : n[1] # u
    BY DEF Own
  <2> QED BY <1>1, <2>1 DEF Elsewhere, NodesOf
<1>4. op'[u] = op[u] /\ given'[u] = given[u] /\ size'[u] = size[u] /\ (u \in live' <=> u \in live)
  BY DEF Elsewhere
<1>5. \A n \in N : h'.color[n] = h.color[n]
  BY <1>2 DEF Elsewhere, Untouched
<1>6. Known(u)'
  <2>1. Known(u)
    BY DEF IInv
  <2>2. Fixing(u)' <=> Fixing(u)
    BY <1>4 DEF Fixing
  <2> QED BY <1>1, <1>3, <1>4, <1>5, <2>1, <2>2 DEF Known
<1>7. ASSUME u \in live'
      PROVE  Balanced(h', u, N, Excepted(u)')
  <2>1. Balanced(h, u, N, Excepted(u))
    BY <1>1, <1>4, <1>7 DEF IInv
  <2>2. Excepted(u)' = Excepted(u)
    BY <1>4 DEF Excepted, Fixing
  <2>3. SameLinks(h, h', u, N)
    BY <1>2 DEF Elsewhere, Untouched, SameLinks
  <2>4. \E sub : Shape(h', u, N, sub)
    <3>1. PICK sub : Shape(h, u, N, sub)
      BY <2>1 DEF Balanced
    <3>2. Shape(h', u, N, sub)
      BY <2>3, <3>1, ShapeSame
    <3> QED BY <3>2
  <2>5. \E B : Heights(h', h'.color, N, B)
    <3>1. PICK B : Heights(h, h.color, N, B)
      BY <2>1 DEF Balanced
    <3>2. Heights(h', h'.color, N, B)
      BY <1>5, <2>3, <3>1, HeightsSame
    <3> QED BY <3>2
  <2>6. Reds(h', N, Excepted(u))
    <3>1. \A n \in N : h'.parent[n] = h.parent[n] /\ (h.parent[n] # Null => h.parent[n] \in N)
      <4>1. PICK sub : Shape(h, u, N, sub)
        BY <2>1 DEF Balanced
      <4>2. \A n \in N : h.parent[n] # Null => h.parent[n] \in N
        BY <4>1 DEF Shape, Rooted, Linked
      <4> QED BY <2>3, <4>2 DEF SameLinks
    <3>2. Reds(h, N, Excepted(u))
      BY <2>1 DEF Balanced
    <3> QED BY <1>5, <3>1, <3>2 DEF Reds
  <2> QED BY <2>2, <2>4, <2>5, <2>6 DEF Balanced
<1> QED BY <1>3, <1>7, <1>6

LEMMA SentinelUntouched ==
  ASSUME IInv, NEW t \in live, Untouched(h, h', t), live' \subseteq live
  PROVE  Kept'
<1>1. Sentinel \in Cells /\ Sentinel \notin Own(t) /\ t \in Trees
  BY NodesApart DEF IInv, Typed, TypeOK
<1>2. live # {} /\ Kept
  BY DEF IInv
<1> QED BY <1>1, <1>2 DEF Kept, Untouched

(* So the invariant holds again when the tree that moved is in order.       *)
LEMMA StepKeeps ==
  ASSUME IInv, NEW t \in live, Elsewhere(t), live' \subseteq live, Typed',
         Known(t)', t \in live' => Balanced(h, t, NodesOf(t), Excepted(t))'
  PROVE  IInv'
<1>1. t \in Trees
  BY DEF IInv, Typed, TypeOK
<1>2. \A u \in Trees : Known(u)' /\ (u \in live' => Balanced(h, u, NodesOf(u), Excepted(u))')
  BY <1>1, OthersKept
<1>3. Kept'
  BY SentinelUntouched DEF Elsewhere
<1> QED BY <1>2, <1>3 DEF IInv
-----------------------------------------------------------------------------
LEMMA RecolorKeeps ==
  ASSUME IInv, NEW t \in Trees, Recolor(t)
  PROVE  IInv'
<1>1. /\ t \in live
      /\ Around(h, NodesOf(t), op[t].z, Parent(t), Grand(t), SideOf(h, Parent(t)))
      /\ op[t].z # Parent(t)
  BY TurnAround DEF Recolor
<1>2. PICK N, z, P, G, d, U :
        /\ N = NodesOf(t) /\ z = op[t].z /\ P = Parent(t) /\ G = Grand(t)
        /\ d = SideOf(h, Parent(t)) /\ U = Uncle(t)
  OBVIOUS
<1>3. /\ z \in N /\ P \in N /\ G \in N /\ d \in Sides /\ z # P
      /\ h.parent[z] = P /\ h.parent[P] = G
      /\ h.child[d][G] = P /\ h.child[Other(d)][G] = U
      /\ h.color[z] = "red" /\ h.color[P] = "red" /\ h.color[G] = "black" /\ h.color[U] = "red"
  BY <1>1, <1>2 DEF Around, Uncle, Recolor
<1>4. /\ Balanced(h, t, N, {z}) /\ Known(t)
      /\ h \in Links /\ Typed /\ Kept
  BY <1>1, <1>2 DEF IInv, Excepted, Recolor, Typed, TypeOK
<1>5. PICK sub : Shape(h, t, N, sub)
  BY <1>4 DEF Balanced
<1>6. /\ N \subseteq Own(t) /\ Sentinel \notin N /\ Null \notin N
      /\ \A n \in N : n \in Cells /\ n \in Nodes
      /\ \A n \in N, q \in Sides : /\ h.child[q][n] \in N \union {Sentinel}
                                   /\ h.child[q][n] # Sentinel => h.parent[h.child[q][n]] = n
  <2>1. ShapeParts(h, t, N, sub)
    BY <1>5, ShapeFacts
  <2> QED BY ONLY <2>1 DEF ShapeParts
<1>7. Other(d) \in Sides /\ Other(d) # d /\ Other(Other(d)) = d /\ \A q \in Sides : q = d \/ q = Other(d)
  BY <1>3, SidesTwo
<1>8. U \in N /\ h.parent[U] = G /\ U # P /\ U # G /\ P # G
  <2>1. U # Sentinel
    BY <1>1, <1>3, <1>4 DEF Kept
  <2>2. U \in N /\ h.parent[U] = G
    BY <1>3, <1>6, <1>7, <2>1
  <2>3. h.child[d][G] # h.child[Other(d)][G]
    BY <1>3, <1>5, <1>6, ChildrenApart
  <2> QED BY <1>3, <2>2, <2>3
<1>9. PICK R, C, Q, K :
        /\ h = [root |-> R, child |-> C, parent |-> Q, color |-> K]
        /\ R \in [Trees -> Cells \union {Null}]
        /\ C \in [Sides -> [Cells -> Cells \union {Null}]]
        /\ Q \in [Cells -> Nodes \union {Null}]
        /\ K \in [Cells -> {"red", "black"}]
  BY <1>4, LinksFields
<1>10. PICK L : L = [K EXCEPT ![U] = "black", ![P] = "black", ![G] = "red"]
  OBVIOUS
<1>11. h' = [root |-> R, child |-> C, parent |-> Q, color |-> L]
  <2>1. h' = [h EXCEPT !.color = [@ EXCEPT ![U] = "black", ![P] = "black", ![G] = "red"]]
    BY ONLY <1>2, Recolor(t) DEF Recolor
  <2>2. h.color = K
    BY ONLY <1>9
  <2>3. [h EXCEPT !.color = [@ EXCEPT ![U] = "black", ![P] = "black", ![G] = "red"]]
          = [h EXCEPT !.color = L]
    BY ONLY <1>10, <2>2
  <2> QED BY ONLY <1>9, <2>1, <2>3
<1>12. /\ L \in [Cells -> {"red", "black"}]
       /\ L[U] = "black" /\ L[P] = "black" /\ L[G] = "red"
       /\ \A n \in Cells : n \notin {U, P, G} => L[n] = K[n]
  BY <1>3, <1>6, <1>8, <1>9, <1>10
<1>13. /\ h' \in Links
       /\ h.root = R /\ h.child = C /\ h.parent = Q /\ h.color = K
       /\ h'.root = R /\ h'.child = C /\ h'.parent = Q /\ h'.color = L
  BY ONLY <1>9, <1>11, <1>12 DEF Links
<1>14. SameLinks(h, h', t, N) /\ Untouched(h, h', t)
  BY ONLY <1>3, <1>6, <1>8, <1>12, <1>13 DEF SameLinks, Untouched
<1>15. \E B : Heights(h', h'.color, N, B)
  <2>1. PICK B : Heights(h, K, N, B)
    BY <1>4, <1>13 DEF Balanced
  <2>2. /\ B \in [Cells -> Nat \ {0}] /\ B[Sentinel] = 1
        /\ \A n \in N, q \in Sides :
             B[n] = IF K[n] = "black" THEN B[C[q][n]] + 1 ELSE B[C[q][n]]
    BY ONLY <1>13, <2>1 DEF Heights
  <2>3. PICK E : E = [B EXCEPT ![P] = @ + 1, ![U] = @ + 1]
    OBVIOUS
  <2>4. /\ E \in [Cells -> Nat \ {0}] /\ E[Sentinel] = 1
        /\ E[P] = B[P] + 1 /\ E[U] = B[U] + 1
        /\ \A n \in Cells : n # P /\ n # U => E[n] = B[n]
    BY <1>3, <1>6, <1>8, <2>2, <2>3, NodesApart
  <2>5. ASSUME NEW n \in N, NEW q \in Sides
        PROVE  E[n] = IF L[n] = "black" THEN E[C[q][n]] + 1 ELSE E[C[q][n]]
    <3>1. C[q][n] \in Cells
      BY <1>6, <1>13, NodesApart DEF Cells
    <3>2. CASE n = G
      <4>1. C[q][G] = P \/ C[q][G] = U
        BY <1>3, <1>7, <1>13
      <4>2. B[G] = B[C[q][G]] + 1
        BY <1>3, <1>13, <2>2
      <4> QED BY <1>6, <1>8, <1>12, <2>4, <3>2, <4>1, <4>2
    <3>3. CASE n \in {P, U}
      <4>1. C[q][n] # P /\ C[q][n] # U
        BY <1>3, <1>6, <1>8, <1>13, <3>3
      <4>2. B[n] = B[C[q][n]]
        BY <1>3, <1>13, <2>2, <3>3
      <4> QED BY <1>8, <1>12, <2>4, <3>1, <3>3, <4>1, <4>2
    <3>4. CASE n \notin {P, U, G}
      <4>1. C[q][n] # P /\ C[q][n] # U
        BY <1>3, <1>6, <1>8, <1>13, <3>4
      <4>2. L[n] = K[n] /\ E[n] = B[n] /\ E[C[q][n]] = B[C[q][n]]
        BY <1>6, <1>12, <2>4, <3>1, <3>4, <4>1
      <4> QED BY <2>2, <4>2
    <3> QED BY <3>2, <3>3, <3>4
  <2> QED BY <1>13, <2>4, <2>5 DEF Heights
<1>16. Reds(h', N, {G})
  <2> SUFFICES ASSUME NEW n \in N, L[n] = "red", Q[n] = Null \/ L[Q[n]] = "red", n # G
               PROVE  FALSE
    BY <1>13 DEF Reds
  <2>1. K[n] = "red" /\ n # P /\ n # U
    BY <1>6, <1>12
  <2>2. Reds(h, N, {z})
    BY <1>4 DEF Balanced
  <2>3. CASE n = z
    BY <1>3, <1>6, <1>12, <1>13, <2>3
  <2>4. CASE n # z
    <3>1. Q[n] # Null /\ K[Q[n]] # "red"
      BY <1>13, <2>1, <2>2, <2>4 DEF Reds
    <3>2. Q[n] \in Cells /\ K[Q[n]] = "black"
      BY <1>6, <1>9, <3>1 DEF Cells
    <3>3. Q[n] = G
      BY <1>12, <3>1, <3>2
    <3>4. PICK q \in Sides : C[q][G] = n
      <4>1. n # R[t]
        BY <1>5, <1>13, <3>1 DEF Shape, Rooted
      <4> QED BY <1>5, <1>13, <3>3, <4>1 DEF Shape, Linked
    <3> QED BY <1>3, <1>7, <1>13, <2>1, <3>4
  <2> QED BY <2>3, <2>4
<1>17. /\ op' = [op EXCEPT ![t].z = G] /\ live' = live /\ size' = size /\ heap' = heap /\ given' = given
  BY <1>2 DEF Recolor
<1>18. op'[t].do = "fix" /\ op'[t].z = G /\ (\A u \in Trees : u # t => op'[u] = op[u])
       /\ op' \in [Trees -> [do : {"none", "fix", "loops", "faults"}, z : Nodes \union {Null}]]
  <2>1. op[t].do = "fix"
    BY DEF Recolor, Fixing
  <2>2. op \in [Trees -> [do : {"none", "fix", "loops", "faults"}, z : Nodes \union {Null}]]
    BY <1>4 DEF Typed, TypeOK
  <2> QED BY <1>3, <1>6, <1>17, <2>1, <2>2
<1>19. Typed'
  BY <1>4, <1>13, <1>17, <1>18 DEF Typed, TypeOK
<1>20. NodesOf(t)' = N /\ Fixing(t)' /\ Excepted(t)' = {G}
  BY <1>2, <1>17, <1>18 DEF NodesOf, Fixing, Excepted
<1>21. Known(t)'
  BY <1>2, <1>3, <1>4, <1>12, <1>13, <1>17, <1>18, <1>20 DEF Known
<1>22. Balanced(h, t, NodesOf(t), Excepted(t))'
  <2>1. Shape(h', t, N, sub)
    BY <1>5, <1>14, ShapeSame
  <2> QED BY <1>15, <1>16, <1>20, <2>1 DEF Balanced
<1>23. Elsewhere(t)
  BY <1>14, <1>17, <1>18 DEF Elsewhere
<1> QED BY <1>1, <1>17, <1>19, <1>21, <1>22, <1>23, StepKeeps
-----------------------------------------------------------------------------
LEMMA FixupEndKeeps ==
  ASSUME IInv, NEW t \in Trees, FixupEnd(t)
  PROVE  IInv'
<1>1. /\ t \in live /\ Balanced(h, t, NodesOf(t), {op[t].z}) /\ Known(t)
      /\ op[t].z \in NodesOf(t)
      /\ h \in Links /\ Typed /\ Kept
  BY DEF IInv, Known, Excepted, FixupEnd, Typed, TypeOK
<1>2. PICK N, z, e : N = NodesOf(t) /\ z = op[t].z /\ e = h.root[t]
  OBVIOUS
<1>3. PICK sub : Shape(h, t, N, sub)
  BY <1>1, <1>2 DEF Balanced
<1>4. e \in N /\ h.parent[e] = Null /\ z \in N
  BY <1>1, <1>2, <1>3 DEF Shape, Rooted
<1>5. /\ N \subseteq Own(t) /\ Sentinel \notin N /\ Null \notin N
      /\ \A n \in N : n \in Cells /\ n \in Nodes
      /\ \A n \in N, q \in Sides : /\ h.child[q][n] \in N \union {Sentinel}
                                   /\ h.child[q][n] # Sentinel => h.parent[h.child[q][n]] = n
  <2>1. ShapeParts(h, t, N, sub)
    BY <1>3, ShapeFacts
  <2> QED BY ONLY <2>1 DEF ShapeParts
<1>6. PICK R, C, Q, K :
        /\ h = [root |-> R, child |-> C, parent |-> Q, color |-> K]
        /\ R \in [Trees -> Cells \union {Null}]
        /\ C \in [Sides -> [Cells -> Cells \union {Null}]]
        /\ Q \in [Cells -> Nodes \union {Null}]
        /\ K \in [Cells -> {"red", "black"}]
  BY <1>1, LinksFields
<1>7. PICK L : L = [K EXCEPT ![e] = "black"]
  OBVIOUS
<1>8. h' = [root |-> R, child |-> C, parent |-> Q, color |-> L]
  <2>1. h' = [h EXCEPT !.color[e] = "black"]
    BY ONLY <1>2, FixupEnd(t) DEF FixupEnd
  <2> QED BY ONLY <1>6, <1>7, <2>1
<1>9. /\ L \in [Cells -> {"red", "black"}] /\ L[e] = "black"
      /\ \A n \in Cells : n # e => L[n] = K[n]
  BY <1>4, <1>5, <1>6, <1>7
<1>10. /\ h' \in Links
       /\ h.root = R /\ h.child = C /\ h.parent = Q /\ h.color = K
       /\ h'.root = R /\ h'.child = C /\ h'.parent = Q /\ h'.color = L
  BY ONLY <1>6, <1>8, <1>9 DEF Links
<1>11. SameLinks(h, h', t, N) /\ Untouched(h, h', t)
  BY ONLY <1>4, <1>5, <1>9, <1>10 DEF SameLinks, Untouched
<1>12. \E B : Heights(h', h'.color, N, B)
  <2>1. PICK B : Heights(h, K, N, B)
    BY <1>1, <1>2, <1>10 DEF Balanced
  <2>2. /\ B \in [Cells -> Nat \ {0}] /\ B[Sentinel] = 1
        /\ \A n \in N, q \in Sides :
             B[n] = IF K[n] = "black" THEN B[C[q][n]] + 1 ELSE B[C[q][n]]
    BY ONLY <1>10, <2>1 DEF Heights
  <2>3. CASE K[e] = "black"
    BY <1>5, <1>9, <1>10, <2>2, <2>3 DEF Heights
  <2>4. CASE K[e] # "black"
    <3>1. PICK E : E = [B EXCEPT ![e] = @ + 1]
      OBVIOUS
    <3>2. /\ E \in [Cells -> Nat \ {0}] /\ E[Sentinel] = 1 /\ E[e] = B[e] + 1
          /\ \A n \in Cells : n # e => E[n] = B[n]
      BY <1>4, <1>5, <2>2, <3>1, NodesApart
    <3>3. ASSUME NEW n \in N, NEW q \in Sides
          PROVE  E[n] = IF L[n] = "black" THEN E[C[q][n]] + 1 ELSE E[C[q][n]]
      <4>1. C[q][n] \in Cells /\ C[q][n] # e
        BY <1>4, <1>5, <1>10, NodesApart DEF Cells
      <4>2. E[C[q][n]] = B[C[q][n]]
        BY <3>2, <4>1
      <4> QED BY <1>5, <1>9, <2>2, <2>4, <3>2, <4>2
    <3> QED BY <1>10, <3>2, <3>3 DEF Heights
  <2> QED BY <2>3, <2>4
<1>13. Reds(h', N, {})
  <2> SUFFICES ASSUME NEW n \in N, L[n] = "red", Q[n] = Null \/ L[Q[n]] = "red"
               PROVE  FALSE
    BY <1>10 DEF Reds
  <2>1. K[n] = "red" /\ n # e
    BY <1>5, <1>9
  <2>2. Q[n] \in N
    BY <1>2, <1>3, <1>10, <2>1 DEF Shape, Linked
  <2>3. Q[n] # Null /\ Q[n] # e /\ K[Q[n]] = "red"
    BY <1>5, <1>9, <2>2
  <2>4. n = z
    BY <1>1, <1>2, <1>10, <2>1, <2>3 DEF Balanced, Reds
  <2> QED BY <1>2, <1>10, <2>1, <2>3, <2>4 DEF FixupEnd, Turn
<1>14. /\ op' = [op EXCEPT ![t] = Idle] /\ live' = live /\ size' = size /\ heap' = heap
       /\ given' = given
  BY DEF FixupEnd
<1>15. op'[t].do = "none" /\ (\A u \in Trees : u # t => op'[u] = op[u])
       /\ op' \in [Trees -> [do : {"none", "fix", "loops", "faults"}, z : Nodes \union {Null}]]
  <2>1. op \in [Trees -> [do : {"none", "fix", "loops", "faults"}, z : Nodes \union {Null}]]
    BY <1>1 DEF Typed, TypeOK
  <2> QED BY <1>14, <2>1 DEF Idle
<1>16. Typed'
  BY <1>1, <1>10, <1>14, <1>15 DEF Typed, TypeOK
<1>17. NodesOf(t)' = N /\ ~Fixing(t)' /\ Excepted(t)' = {}
  BY <1>2, <1>14, <1>15 DEF NodesOf, Fixing, Excepted
<1>18. Known(t)'
  BY <1>1, <1>2, <1>14, <1>17 DEF Known
<1>19. Balanced(h, t, NodesOf(t), Excepted(t))'
  <2>1. Shape(h', t, N, sub)
    BY <1>3, <1>11, ShapeSame
  <2> QED BY <1>12, <1>13, <1>17, <2>1 DEF Balanced
<1>20. Elsewhere(t)
  BY <1>11, <1>14, <1>15 DEF Elsewhere
<1> QED BY <1>1, <1>14, <1>16, <1>18, <1>19, <1>20, StepKeeps
-----------------------------------------------------------------------------
(* The node at which a turn restructures, its parent and its grandparent    *)
(* lie in a line of g.                                                      *)
InLine(t, g, z, P, G, d) ==
  /\ g \in Links /\ g.color = h.color /\ Untouched(h, g, t)
  /\ Balanced(g, t, NodesOf(t), {z})
  /\ Around(g, NodesOf(t), z, P, G, d)
  /\ g.child[d][P] = z /\ g.child[Other(d)][G] = Uncle(t)

LEMMA StraightenKeeps ==
  ASSUME IInv, NEW t \in Trees, Fixing(t), Turn(t)
  PROVE  \E P : InLine(t, Straighten(t).g, Straighten(t).z, P, Grand(t), SideOf(h, Parent(t)))
<1>1. /\ t \in live
      /\ Around(h, NodesOf(t), op[t].z, Parent(t), Grand(t), SideOf(h, Parent(t)))
      /\ op[t].z # Parent(t)
  BY TurnAround
<1>2. PICK N, z, P, G, d, U :
        /\ N = NodesOf(t) /\ z = op[t].z /\ P = Parent(t) /\ G = Grand(t)
        /\ d = SideOf(h, Parent(t)) /\ U = Uncle(t)
  OBVIOUS
<1>3. /\ z \in N /\ P \in N /\ G \in N /\ d \in Sides /\ z # P /\ G # P /\ G # z
      /\ h.parent[z] = P /\ h.parent[P] = G
      /\ h.child[d][G] = P /\ h.child[Other(d)][G] = U
      /\ h.color[z] = "red" /\ h.color[P] = "red" /\ h.color[G] = "black"
  BY <1>1, <1>2 DEF Around, Uncle
<1>4. Balanced(h, t, N, {z}) /\ h \in Links /\ Around(h, N, z, P, G, d)
  BY <1>1, <1>2 DEF IInv, Excepted, Typed, TypeOK
<1>5. PICK sub : Shape(h, t, N, sub)
  BY <1>4 DEF Balanced
<1>6. /\ N \subseteq Own(t) /\ Sentinel \notin N /\ Null \notin N
      /\ \A n \in N : n \in Cells /\ n \in Nodes
      /\ \A n \in N, q \in Sides : /\ h.child[q][n] \in N \union {Sentinel}
                                   /\ h.child[q][n] # Sentinel => h.parent[h.child[q][n]] = n
  <2>1. ShapeParts(h, t, N, sub)
    BY <1>5, ShapeFacts
  <2> QED BY ONLY <2>1 DEF ShapeParts
<1>7. Other(d) \in Sides /\ Other(d) # d /\ Other(Other(d)) = d /\ \A q \in Sides : q = d \/ q = Other(d)
  BY <1>3, SidesTwo
<1>8. SideOf(h, z) \in Sides /\ h.child[SideOf(h, z)][P] = z
  <2>1. z # h.root[t]
    BY <1>2 DEF Turn
  <2>2. \E q \in Sides : h.child[q][P] = z
    BY <1>3, <1>5, <2>1 DEF Shape, Linked
  <2> QED BY <1>3, <2>2 DEF SideOf, Sides
<1>9. CASE SideOf(h, z) = d
  <2>1. Straighten(t) = [g |-> h, z |-> z]
    BY ONLY <1>2, <1>9 DEF Straighten
  <2>2. Untouched(h, h, t)
    BY DEF Untouched
  <2>3. InLine(t, h, z, P, G, d)
    BY <1>2, <1>3, <1>4, <1>8, <1>9, <2>2 DEF InLine
  <2>4. Straighten(t).g = h /\ Straighten(t).z = z
    BY ONLY <2>1
  <2> QED BY <1>2, <2>3, <2>4
<1>10. CASE SideOf(h, z) # d
  <2>1. z = h.child[Other(d)][P]
    BY <1>7, <1>8, <1>10
  <2>2. PICK r, b : r = Rotate(h, t, P, d) /\ b = h.child[d][z]
    OBVIOUS
  <2>3. Straighten(t) = [g |-> r, z |-> P]
    BY ONLY <1>2, <1>10, <2>2 DEF Straighten
  <2>4. Rotated(h, r, t, d, P, z, b, G) /\ Untouched(h, r, t)
    BY <1>3, <1>4, <1>5, <2>1, <2>2, RotateNodes
  <2>5. Shape(r, t, N, Resub(h, sub, d, P, z))
    BY <1>3, <1>4, <1>5, <2>1, <2>2, RotateShape
  <2>6. r \in Links /\ r.color = h.color
    BY ONLY <2>4 DEF Rotated
  <2>7. \E B : Heights(r, r.color, N, B)
    <3>1. PICK B : Heights(h, h.color, N, B)
      BY <1>4 DEF Balanced
    <3>2. \E B2 : Heights(r, h.color, N, B2)
      BY <1>3, <1>4, <1>5, <2>1, <2>2, <3>1, RotateHeights
    <3> QED BY <2>6, <3>2
  <2>8. /\ r.parent[P] = z /\ r.parent[z] = G
        /\ \A n \in N : n # P /\ n # z => r.parent[n] = IF n = b THEN P ELSE h.parent[n]
        /\ r.child[d][z] = P /\ r.child[d][G] = z /\ r.child[Other(d)][G] = U
    <3>1. P \in Cells /\ z \in Cells /\ G \in Cells /\ d = SideOf(h, P) /\ G # Null
      BY <1>2, <1>3, <1>6
    <3>2. /\ \A n \in Cells :
               r.parent[n] = IF n = P THEN z ELSE IF n = z THEN G
                             ELSE IF n = b /\ b # Sentinel THEN P ELSE h.parent[n]
          /\ \A q \in Sides, n \in Cells :
               r.child[q][n] = IF n = P /\ q = Other(d) THEN b
                               ELSE IF n = z /\ q = d THEN P
                               ELSE IF G # Null /\ n = G /\ q = SideOf(h, P) THEN z
                               ELSE h.child[q][n]
      BY ONLY <2>4 DEF Rotated
    <3>3. r.parent[P] = z /\ r.parent[z] = G
          /\ \A n \in N : n # P /\ n # z => r.parent[n] = IF n = b THEN P ELSE h.parent[n]
      BY ONLY <1>3, <1>6, <3>1, <3>2
    <3> QED BY ONLY <1>3, <1>7, <3>1, <3>2, <3>3
  <2>9. Reds(r, N, {P})
    <3> SUFFICES ASSUME NEW n \in N, h.color[n] = "red", n # P,
                        r.parent[n] = Null \/ h.color[r.parent[n]] = "red"
                 PROVE  FALSE
      BY <2>6 DEF Reds
    <3>1. Reds(h, N, {z})
      BY <1>4 DEF Balanced
    <3>2. CASE n = z
      BY <1>3, <1>6, <2>8, <3>2
    <3>3. CASE n # z /\ n = b
      <4>1. h.parent[n] = z
        BY <1>3, <1>6, <2>2, <3>3
      <4> QED BY <1>3, <3>1, <3>3, <4>1 DEF Reds
    <3>4. CASE n # z /\ n # b
      BY <2>8, <3>1, <3>4 DEF Reds
    <3> QED BY <3>2, <3>3, <3>4
  <2>10. Balanced(r, t, N, {P}) /\ Around(r, N, P, z, G, d)
    BY <1>3, <2>5, <2>6, <2>7, <2>8, <2>9 DEF Balanced, Around
  <2>11. InLine(t, r, P, z, G, d)
    BY <1>2, <2>4, <2>6, <2>8, <2>10 DEF InLine
  <2>12. Straighten(t).g = r /\ Straighten(t).z = P
    BY ONLY <2>3
  <2> QED BY <1>2, <2>11, <2>12
<1> QED BY <1>9, <1>10

LEMMA RestructureKeeps ==
  ASSUME IInv, NEW t \in Trees, Restructure(t)
  PROVE  IInv'
<1>1. t \in live /\ Known(t) /\ Typed /\ op[t].do = "fix"
  BY TurnAround DEF IInv, Restructure, Fixing
<1>2. PICK N, g, z, P, G, d, U :
        /\ N = NodesOf(t) /\ g = Straighten(t).g /\ z = Straighten(t).z /\ G = Grand(t)
        /\ d = SideOf(h, Parent(t)) /\ U = Uncle(t)
        /\ InLine(t, g, z, P, G, d)
  <2>1. PICK Q : InLine(t, Straighten(t).g, Straighten(t).z, Q, Grand(t), SideOf(h, Parent(t)))
    BY StraightenKeeps DEF Restructure
  <2> QED BY <2>1
<1>3. /\ g \in Links /\ g.color = h.color /\ Untouched(h, g, t) /\ Balanced(g, t, N, {z})
      /\ z \in N /\ P \in N /\ G \in N /\ d \in Sides
      /\ g.parent[z] = P /\ g.parent[P] = G
      /\ g.child[d][P] = z /\ g.child[d][G] = P /\ g.child[Other(d)][G] = U
      /\ g.color[z] = "red" /\ g.color[P] = "red" /\ g.color[G] = "black" /\ g.color[U] = "black"
  BY <1>2 DEF InLine, Around, Restructure
<1>4. PICK sub : Shape(g, t, N, sub)
  BY <1>3 DEF Balanced
<1>5. /\ N \subseteq Own(t) /\ Sentinel \notin N /\ Null \notin N
      /\ \A n \in N : n \in Cells /\ n \in Nodes
      /\ \A n \in N, q \in Sides : /\ g.child[q][n] \in N \union {Sentinel}
                                   /\ g.child[q][n] # Sentinel => g.parent[g.child[q][n]] = n
  <2>1. ShapeParts(g, t, N, sub)
    BY <1>4, ShapeFacts
  <2> QED BY ONLY <2>1 DEF ShapeParts
<1>6. PICK o : /\ o = Other(d) /\ o \in Sides /\ o # d /\ Other(o) = d
               /\ \A q \in Sides : q = d \/ q = o
  BY <1>3, SidesTwo
<1>7. PICK R, C, Q, K :
        /\ g = [root |-> R, child |-> C, parent |-> Q, color |-> K]
        /\ R \in [Trees -> Cells \union {Null}]
        /\ C \in [Sides -> [Cells -> Cells \union {Null}]]
        /\ Q \in [Cells -> Nodes \union {Null}]
        /\ K \in [Cells -> {"red", "black"}]
  BY <1>3, LinksFields
<1>8. PICK L : L = [K EXCEPT ![P] = "black", ![G] = "red"]
  OBVIOUS
<1>9. PICK v : v = [root |-> R, child |-> C, parent |-> Q, color |-> L]
  OBVIOUS
<1>10. h' = Rotate(v, t, G, o)
  <2>1. /\ Straighten(t).g.parent[Straighten(t).z] = P
        /\ Straighten(t).g.parent[P] = G
    BY ONLY <1>2, <1>3
  <2>2. h' = Rotate([g EXCEPT !.color = [@ EXCEPT ![P] = "black", ![G] = "red"]], t, G, o)
    BY ONLY <1>2, <1>6, <2>1, Restructure(t) DEF Restructure
  <2>3. g.color = K
    BY ONLY <1>7
  <2>4. [g EXCEPT !.color = [@ EXCEPT ![P] = "black", ![G] = "red"]] = [g EXCEPT !.color = L]
    BY ONLY <1>8, <2>3
  <2>5. [g EXCEPT !.color = L] = v
    BY ONLY <1>7, <1>9
  <2> QED BY ONLY <2>2, <2>4, <2>5
<1>11. /\ L \in [Cells -> {"red", "black"}] /\ L[P] = "black" /\ L[G] = "red" /\ P # G
       /\ \A n \in Cells : n # P /\ n # G => L[n] = K[n]
  BY <1>3, <1>5, <1>7, <1>8
<1>12. /\ v \in Links
       /\ g.root = R /\ g.child = C /\ g.parent = Q /\ g.color = K
       /\ v.root = R /\ v.child = C /\ v.parent = Q /\ v.color = L
  BY ONLY <1>7, <1>9, <1>11 DEF Links
<1>13. SameLinks(g, v, t, N) /\ Untouched(g, v, t)
  BY ONLY <1>3, <1>5, <1>11, <1>12 DEF SameLinks, Untouched
<1>14. Shape(v, t, N, sub)
  BY <1>4, <1>13, ShapeSame
<1>15. P = v.child[Other(o)][G]
  BY <1>3, <1>6, <1>12
<1>16. PICK b, p : b = v.child[o][P] /\ p = v.parent[G]
  OBVIOUS
<1>17. Rotated(v, h', t, o, G, P, b, p) /\ Untouched(v, h', t)
  BY <1>3, <1>6, <1>10, <1>12, <1>14, <1>15, <1>16, RotateNodes
<1>18. Shape(h', t, N, Resub(v, sub, o, G, P))
  BY <1>3, <1>6, <1>10, <1>12, <1>14, <1>15, RotateShape
<1>19. h' \in Links /\ h'.color = L
  BY ONLY <1>12, <1>17 DEF Rotated
<1>20. \E B : Heights(h', h'.color, N, B)
  <2>1. PICK B : Heights(g, K, N, B)
    BY <1>3, <1>12 DEF Balanced
  <2>2. Heights(v, K, N, B)
    BY <1>13, <2>1, HeightsSame
  <2>3. \A n \in N : n # G /\ n # P => v.color[n] = K[n]
    BY <1>5, <1>11, <1>12
  <2>4. K[P] = "red" /\ K[G] = "black" /\ v.color[G] = "red" /\ v.color[P] = "black"
    BY <1>3, <1>11, <1>12
  <2>5. \E B2 : Heights(h', v.color, N, B2)
    BY <1>3, <1>6, <1>10, <1>12, <1>14, <1>15, <2>2, <2>3, <2>4, RotateHeights
  <2> QED BY <1>12, <1>19, <2>5
<1>21. /\ h'.parent[G] = P /\ h'.parent[P] = p
       /\ \A n \in N : n # P /\ n # G => h'.parent[n] = IF n = b THEN G ELSE Q[n]
  <2>1. \A n \in Cells :
          h'.parent[n] = IF n = G THEN P ELSE IF n = P THEN p
                         ELSE IF n = b /\ b # Sentinel THEN G ELSE v.parent[n]
    BY ONLY <1>17 DEF Rotated
  <2> QED BY ONLY <1>3, <1>5, <1>11, <1>12, <2>1
<1>22. Reds(h', N, {})
  <2> SUFFICES ASSUME NEW n \in N, L[n] = "red", h'.parent[n] = Null \/ L[h'.parent[n]] = "red"
               PROVE  FALSE
    BY <1>19 DEF Reds
  <2>1. Reds(g, N, {z})
    BY <1>3 DEF Balanced
  <2>2. n # P /\ n # G
    BY <1>3, <1>5, <1>11, <1>21
  <2>3. K[n] = "red"
    BY <1>5, <1>11, <2>2
  <2>4. CASE n = b
    <3>1. Q[n] = P
      BY <1>3, <1>5, <1>6, <1>12, <1>16, <2>4
    <3>2. n # z
      <4>1. g.child[d][P] # g.child[Other(d)][P]
        <5>1. g.child[d][P] # Sentinel
          BY ONLY <1>3, <1>5
        <5> QED BY ONLY <1>3, <1>4, <5>1, ChildrenApart, t \in Trees
      <4> QED BY <1>3, <1>6, <1>12, <1>16, <2>4, <4>1
    <3> QED BY <1>3, <1>12, <2>1, <2>3, <3>1, <3>2 DEF Reds
  <2>5. CASE n # b
    <3>1. Q[n] = Null \/ L[Q[n]] = "red"
      BY <1>21, <2>2, <2>5
    <3>2. n # z
      BY <1>3, <1>5, <1>11, <1>12, <3>1
    <3>3. Q[n] # Null /\ K[Q[n]] # "red"
      BY <1>12, <2>1, <2>3, <3>2 DEF Reds
    <3>4. Q[n] \in Cells
      BY <1>5, <1>7, <3>3 DEF Cells
    <3>5. Q[n] = G
      BY <1>11, <3>1, <3>3, <3>4
    <3>6. n # R[t]
      BY <1>4, <1>12, <3>3 DEF Shape, Rooted
    <3>7. PICK q \in Sides : C[q][G] = n
      BY <1>4, <1>12, <3>5, <3>6 DEF Shape, Linked
    <3>8. n = U
      BY <1>3, <1>6, <1>12, <2>2, <3>7
    <3> QED BY <1>3, <1>12, <2>3, <3>8
  <2> QED BY <2>4, <2>5
<1>23. Untouched(h, h', t)
  BY <1>3, <1>13, <1>17, UntouchedTrans
<1>24. /\ op' = [op EXCEPT ![t].z = z] /\ live' = live /\ size' = size /\ heap' = heap
       /\ given' = given
  BY ONLY <1>2, Restructure(t) DEF Restructure
<1>25. op'[t].do = "fix" /\ op'[t].z = z /\ (\A u \in Trees : u # t => op'[u] = op[u])
       /\ op' \in [Trees -> [do : {"none", "fix", "loops", "faults"}, z : Nodes \union {Null}]]
  <2>1. op \in [Trees -> [do : {"none", "fix", "loops", "faults"}, z : Nodes \union {Null}]]
    BY <1>1 DEF Typed, TypeOK
  <2> QED BY <1>1, <1>3, <1>5, <1>24, <2>1
<1>26. Typed'
  BY <1>1, <1>19, <1>24, <1>25 DEF Typed, TypeOK
<1>27. NodesOf(t)' = N /\ Fixing(t)' /\ Excepted(t)' = {z}
  BY <1>2, <1>24, <1>25 DEF NodesOf, Fixing, Excepted
<1>28. h'.color[z] = "red"
  <2>1. z # G /\ z # P
    <3>1. g.parent[z] = P /\ g.parent[P] = G /\ P # G
      BY <1>3, <1>11
    <3> QED BY <1>3, <3>1
  <2> QED BY <1>3, <1>5, <1>11, <1>12, <1>19, <2>1
<1>29. Known(t)'
  BY <1>1, <1>2, <1>3, <1>24, <1>25, <1>27, <1>28 DEF Known
<1>30. Balanced(h, t, NodesOf(t), Excepted(t))'
  BY <1>18, <1>20, <1>22, <1>27 DEF Balanced, Reds
<1>31. Elsewhere(t)
  BY <1>23, <1>24, <1>25 DEF Elsewhere
<1> QED BY <1>1, <1>24, <1>26, <1>29, <1>30, <1>31, StepKeeps
-----------------------------------------------------------------------------
(* One turn of the loop of rbNodeFind.                                      *)
Down(g, k, c) ==
  IF c.at = Sentinel \/ Cmp(k, c.at[2]) = 0 THEN c
  ELSE [at |-> g.child[IF Cmp(k, c.at[2]) < 0 THEN "left" ELSE "right"][c.at], above |-> c.at]

(* A search takes as many turns as the tree has keys.                       *)
LEMMA SearchTurns ==
  ASSUME NEW t \in Trees, NEW k, Cardinality(Keys(t)) \in Nat
  PROVE  \E f : /\ f[0] = [at |-> h.root[t], above |-> Null]
                /\ \A i \in 1 .. Cardinality(Keys(t)) : f[i] = Down(h, k, f[i - 1])
                /\ Search(t, k) = f[Cardinality(Keys(t))]
<1>1. PICK C \in Nat : C = Cardinality(Keys(t))
  OBVIOUS
<1>2. PICK start : start = [at |-> h.root[t], above |-> Null]
  OBVIOUS
<1> DEFINE Upto(j) == \E f : f = [i \in 0 .. j |-> IF i = 0 THEN start ELSE Down(h, k, f[i - 1])]
<1>3. \A j \in Nat : Upto(j)
  <2>1. SUFFICES ASSUME NEW j \in {i \in Nat : ~Upto(i)} PROVE FALSE
    OBVIOUS
  <2>2. PICK m \in {i \in Nat : ~Upto(i)} : \A i \in {i \in Nat : ~Upto(i)} : m <= i
    <3> HIDE DEF Upto
    <3> QED BY <2>1, LeastMember
  <2>3. m # 0
    <3>1. [i \in 0 .. 0 |-> start] = [i \in 0 .. 0 |-> IF i = 0 THEN start ELSE Down(h, k, [l \in 0 .. 0 |-> start][i - 1])]
      OBVIOUS
    <3>2. Upto(0)
      BY <3>1
    <3> QED BY <3>2
  <2>4. Upto(m - 1)
    <3> HIDE DEF Upto
    <3> QED BY <2>2, <2>3
  <2>5. PICK f : f = [i \in 0 .. m - 1 |-> IF i = 0 THEN start ELSE Down(h, k, f[i - 1])]
    BY <2>4
  <2>6. PICK e : e = [i \in 0 .. m |-> IF i = m THEN Down(h, k, f[m - 1]) ELSE f[i]]
    OBVIOUS
  <2>7. \A i \in 0 .. m : e[i] = IF i = 0 THEN start ELSE Down(h, k, e[i - 1])
    <3> SUFFICES ASSUME NEW i \in 0 .. m
                 PROVE  e[i] = IF i = 0 THEN start ELSE Down(h, k, e[i - 1])
      OBVIOUS
    <3>1. m \in Nat /\ i \in Nat /\ i <= m
      OBVIOUS
    <3>2. CASE i = m
      <4>1. e[i] = Down(h, k, f[m - 1]) /\ e[i - 1] = f[m - 1]
        BY ONLY <2>3, <2>6, <3>1, <3>2
      <4> QED BY ONLY <4>1, <3>2, <2>3
    <3>3. CASE i # m
      <4>1. i \in 0 .. m - 1 /\ (i # 0 => i - 1 \in 0 .. m /\ i - 1 # m)
        BY ONLY <3>1, <3>3
      <4>2. e[i] = f[i] /\ (i # 0 => e[i - 1] = f[i - 1])
        BY ONLY <2>6, <3>1, <3>3, <4>1
      <4>3. f[i] = IF i = 0 THEN start ELSE Down(h, k, f[i - 1])
        BY ONLY <2>5, <4>1
      <4> QED BY ONLY <4>2, <4>3
    <3> QED BY <3>2, <3>3
  <2>8. e = [i \in 0 .. m |-> IF i = 0 THEN start ELSE Down(h, k, e[i - 1])]
    BY ONLY <2>6, <2>7
  <2>9. Upto(m)
    BY ONLY <2>8
  <2> QED BY <2>9
<1>4. PICK f : f = [i \in 0 .. C |-> IF i = 0 THEN start ELSE Down(h, k, f[i - 1])]
  BY <1>3
<1>5. Search(t, k) =
        (CHOOSE down : down = [i \in 0 .. C |-> IF i = 0 THEN start ELSE Down(h, k, down[i - 1])])[C]
  BY ONLY <1>1, <1>2 DEF Search, Down
<1>6. PICK d : d = (CHOOSE down : down = [i \in 0 .. C |-> IF i = 0 THEN start ELSE Down(h, k, down[i - 1])])
  OBVIOUS
<1>7. d = [i \in 0 .. C |-> IF i = 0 THEN start ELSE Down(h, k, d[i - 1])]
  BY ONLY <1>4, <1>6
<1>8. d[0] = start /\ \A i \in 1 .. C : d[i] = Down(h, k, d[i - 1])
  BY ONLY <1>7, C \in Nat
<1>9. Search(t, k) = d[C]
  BY ONLY <1>5, <1>6
<1> QED BY ONLY <1>1, <1>2, <1>8, <1>9

(* k belongs where n is.                                                    *)
Leads(g, N, sub, k, n) ==
  \A m \in N, q \in Sides : n \in Below(g, sub, q, m) => Before(q, k, m[2])

(* What is known of a search for k that is at c.                            *)
OnPath(g, t, N, sub, k, c) ==
  /\ c = [at |-> c.at, above |-> c.above]
  /\ c.at \in N \union {Sentinel}
  /\ c.above = Null => c.at = g.root[t]
  /\ c.above # Null => /\ c.above \in N /\ Leads(g, N, sub, k, c.above)
                       /\ \E q \in Sides : c.at = g.child[q][c.above] /\ Before(q, k, c.above[2])
  /\ c.at \in N => c.above = g.parent[c.at] /\ Leads(g, N, sub, k, c.at)
  /\ \A m \in N : Cmp(k, m[2]) = 0 => c.at \in N /\ m \in sub[c.at]

LEMMA DownKeeps ==
  ASSUME NEW g, NEW t \in Trees, NEW N, NEW sub, Shape(g, t, N, sub),
         NEW k \in Keys(t), NEW c, OnPath(g, t, N, sub, k, c),
         c.at \in N, Cmp(k, c.at[2]) # 0
  PROVE  /\ OnPath(g, t, N, sub, k, Down(g, k, c))
         /\ Down(g, k, c).at # Sentinel =>
              /\ sub[Down(g, k, c).at] \subseteq sub[c.at] /\ c.at \notin sub[Down(g, k, c).at]
<1>1. PICK a : a = c.at /\ a \in N
  OBVIOUS
<1>2. ShapeParts(g, t, N, sub)
  BY ShapeFacts
<1>3. /\ Sentinel \notin N /\ Null \notin N
      /\ \A n \in N : n[2] \in Keys(t)
      /\ \A n \in N : n \in sub[n] /\ sub[n] \subseteq N
      /\ \A n \in N, m \in N : m \in sub[n] => sub[m] \subseteq sub[n]
      /\ \A n \in N, m \in N : m \in sub[n] /\ m # n => g.parent[m] \in sub[n]
      /\ \A n \in N, q \in Sides : /\ g.child[q][n] \in N \union {Sentinel}
                                   /\ g.child[q][n] # Sentinel => g.parent[g.child[q][n]] = n
  BY ONLY <1>2 DEF ShapeParts
<1>4. /\ \A n \in N, q \in Sides :
           sub[n] = {n} \union Below(g, sub, q, n) \union Below(g, sub, Other(q), n)
      /\ \A n \in N, q \in Sides : \A m \in Below(g, sub, q, n) : m \in N /\ Before(q, m[2], n[2])
  BY ONLY <1>2 DEF ShapeParts
<1>5. PICK q \in Sides : q = IF Cmp(k, a[2]) < 0 THEN "left" ELSE "right"
  BY DEF Sides
<1>6. Before(q, k, a[2])
  <2>1. /\ Cmp(k, a[2]) \in Int /\ Cmp(a[2], k) \in Int
        /\ Cmp(k, a[2]) < 0 <=> Cmp(a[2], k) > 0
        /\ Cmp(a[2], k) < 0 <=> Cmp(k, a[2]) > 0
    BY <1>1, <1>3, CmpAssumption
  <2> QED BY <1>1, <1>5, <2>1 DEF Before
<1>7. PICK b : b = g.child[q][a] /\ b \in N \union {Sentinel} /\ (b # Sentinel => g.parent[b] = a)
  BY <1>1, <1>3
<1>8. Down(g, k, c) = [at |-> b, above |-> a]
  BY ONLY <1>1, <1>3, <1>5, <1>7, Cmp(k, c.at[2]) # 0 DEF Down
<1>9. Leads(g, N, sub, k, a)
  BY <1>1 DEF OnPath
(* A node is under another on one side only.                                *)
<1>10. \A n \in N, m \in N, r, v \in Sides :
         m \in Below(g, sub, r, n) /\ m \in Below(g, sub, v, n) => r = v
  <2> SUFFICES ASSUME NEW n \in N, NEW m \in N, NEW r \in Sides, NEW v \in Sides, r # v,
                      m \in Below(g, sub, r, n), m \in Below(g, sub, v, n)
               PROVE  FALSE
    OBVIOUS
  <2>1. v = Other(r)
    BY SidesTwo
  <2>2. Before(r, m[2], n[2]) /\ Before(v, m[2], n[2])
    BY <1>4
  <2> QED BY <1>3, <2>1, <2>2, BeforeOrder
<1>11. b \in N => Below(g, sub, q, a) = sub[b] /\ b \in sub[b]
  BY <1>3, <1>7 DEF Below
<1>12. ASSUME b \in N PROVE Leads(g, N, sub, k, b)
  <2> SUFFICES ASSUME NEW n \in N, NEW r \in Sides, b \in Below(g, sub, r, n)
               PROVE  Before(r, k, n[2])
    BY DEF Leads
  <2>1. CASE n = a
    <3>1. r = q
      BY <1>1, <1>10, <1>11, <1>12, <2>1
    <3> QED BY <1>6, <2>1, <3>1
  <2>2. CASE n # a
    <3>1. b \in sub[n]
      BY <1>4
    <3>2. b # n
      <4>1. Before(r, b[2], n[2])
        BY <1>4
      <4> QED BY <1>3, <4>1, BeforeOrder
    <3>3. a \in sub[n]
      BY <1>3, <1>7, <1>12, <3>1, <3>2
    <3>4. PICK v \in Sides : a \in Below(g, sub, v, n)
      BY <1>4, <2>2, <3>3, SidesTwo
    <3>5. b \in Below(g, sub, v, n)
      <4>1. g.child[v][n] \in N /\ a \in sub[g.child[v][n]]
        BY <1>3, <3>4 DEF Below
      <4>2. b \in sub[a]
        BY <1>1, <1>4, <1>11, <1>12
      <4> QED BY <1>1, <1>3, <4>1, <4>2 DEF Below
    <3>6. r = v
      BY <1>10, <1>12, <3>5
    <3> QED BY <1>9, <3>4, <3>6 DEF Leads
  <2> QED BY <2>1, <2>2
<1>13. ASSUME NEW m \in N, Cmp(k, m[2]) = 0
       PROVE  b \in N /\ m \in sub[b]
  <2>1. m \in sub[a] /\ m # a
    BY <1>1, <1>13 DEF OnPath
  <2>2. m \in Below(g, sub, q, a) \/ m \in Below(g, sub, Other(q), a)
    BY <1>1, <1>4, <2>1
  <2>3. m \notin Below(g, sub, Other(q), a)
    <3> SUFFICES ASSUME m \in Below(g, sub, Other(q), a) PROVE FALSE
      OBVIOUS
    <3>1. Before(Other(q), m[2], a[2])
      BY <1>1, <1>4, SidesTwo
    <3>2. m[2] \in Keys(t) /\ a[2] \in Keys(t)
      BY <1>1, <1>3
    <3>3. Before(q, a[2], m[2])
      BY <3>1, <3>2, BeforeOrder, SidesTwo
    <3>4. Before(q, k, m[2])
      BY <1>6, <3>2, <3>3, BeforeOrder
    <3>5. Cmp(k, m[2]) < 0 <=> Cmp(m[2], k) > 0
      BY <3>2, CmpAssumption
    <3>6. Cmp(m[2], k) < 0 <=> Cmp(k, m[2]) > 0
      BY <3>2, CmpAssumption
    <3> QED BY <1>13, <3>4, <3>5, <3>6 DEF Before
  <2> QED BY <1>7, <2>2, <2>3 DEF Below
<1>14. OnPath(g, t, N, sub, k, [at |-> b, above |-> a])
  BY ONLY <1>1, <1>3, <1>6, <1>7, <1>9, <1>12, <1>13, q \in Sides DEF OnPath
<1>15. b # Sentinel => sub[b] \subseteq sub[a] /\ a \notin sub[b]
  <2>1. ~Before(q, a[2], a[2])
    BY <1>1, <1>3, BeforeOrder
  <2> QED BY <1>1, <1>4, <1>7, <1>11, <2>1
<1> QED BY <1>1, <1>8, <1>14, <1>15

(* A tree has at most as many nodes as keys.                                *)
LEMMA NodesFew ==
  ASSUME NEW t \in Trees, NEW N, N \subseteq Own(t)
  PROVE  /\ IsFiniteSet(N) /\ Cardinality(N) \in Nat /\ Cardinality(Keys(t)) \in Nat
         /\ Cardinality(N) <= Cardinality(Keys(t))
<1>1. IsFiniteSet(Keys(t))
  BY KeysAssumption
<1>2. PICK f : f = [k \in Keys(t) |-> <<t, k>>]
  OBVIOUS
<1>3. f \in Surjection(Keys(t), Own(t))
  <2>1. f \in [Keys(t) -> Own(t)]
    BY <1>2 DEF Own
  <2>2. \A n \in Own(t) : \E k \in Keys(t) : f[k] = n
    BY <1>2 DEF Own
  <2> QED BY <2>1, <2>2, Fun_IsSurj
<1>4. IsFiniteSet(Own(t)) /\ Cardinality(Own(t)) <= Cardinality(Keys(t))
  BY <1>1, <1>3, FS_Surjection
<1>5. IsFiniteSet(N) /\ Cardinality(N) <= Cardinality(Own(t))
  BY <1>4, FS_Subset
<1>6. Cardinality(N) \in Nat /\ Cardinality(Own(t)) \in Nat /\ Cardinality(Keys(t)) \in Nat
  BY <1>1, <1>4, <1>5, FS_CardinalityType
<1> QED BY <1>4, <1>5, <1>6

(* A search ends at a node that compares equal, or at the sentinel where    *)
(* there is none.                                                           *)
LEMMA SearchFinds ==
  ASSUME NEW t \in Trees, NEW N, NEW sub, Shape(h, t, N, sub), NEW k \in Keys(t)
  PROVE  /\ OnPath(h, t, N, sub, k, Search(t, k))
         /\ Search(t, k).at # Sentinel => Cmp(k, Search(t, k).at[2]) = 0
<1>1. ShapeParts(h, t, N, sub)
  BY ShapeFacts
<1>2. /\ N \subseteq Own(t) /\ Sentinel \notin N
      /\ \A n \in N : n \in sub[n] /\ sub[n] \subseteq N
  BY ONLY <1>1 DEF ShapeParts
<1>3. PICK C \in Nat : C = Cardinality(Keys(t))
  BY <1>2, NodesFew
<1>4. PICK f : /\ f[0] = [at |-> h.root[t], above |-> Null]
               /\ \A i \in 1 .. C : f[i] = Down(h, k, f[i - 1])
               /\ Search(t, k) = f[C]
  BY <1>3, SearchTurns
<1>5. \A n \in N : IsFiniteSet(sub[n]) /\ Cardinality(sub[n]) \in Nat /\ Cardinality(sub[n]) <= C
  BY <1>2, <1>3, NodesFew
<1> DEFINE Ended(c) == c.at # Sentinel => Cmp(k, c.at[2]) = 0
           Good(i) == /\ OnPath(h, t, N, sub, k, f[i])
                      /\ ~Ended(f[i]) => Cardinality(sub[f[i].at]) <= C - i
<1>6. Good(0)
  <2>1. PICK c : c = f[0]
    OBVIOUS
  <2>2. c = [at |-> h.root[t], above |-> Null] /\ c.at = h.root[t] /\ c.above = Null
    BY <1>4, <2>1
  <2>3. CASE N = {}
    <3>1. c.at = Sentinel
      BY <2>2, <2>3 DEF Shape, Rooted
    <3>2. OnPath(h, t, N, sub, k, c)
      BY ONLY <2>2, <2>3, <3>1 DEF OnPath
    <3> QED BY <2>1, <3>1, <3>2
  <2>4. CASE N # {}
    <3>1. c.at \in N /\ h.parent[c.at] = Null /\ sub[c.at] = N
      BY <2>2, <2>4 DEF Shape, Rooted
    <3>2. Leads(h, N, sub, k, c.at)
      <4> SUFFICES ASSUME NEW m \in N, NEW q \in Sides, c.at \in Below(h, sub, q, m)
                   PROVE  FALSE
        BY DEF Leads
      <4>1. h.child[q][m] \in N /\ c.at \in sub[h.child[q][m]]
        <5>1. h.child[q][m] \in N \union {Sentinel}
          BY ONLY <1>1, m \in N, q \in Sides DEF ShapeParts
        <5> QED BY <5>1 DEF Below
      <4>2. sub[h.child[q][m]] = N
        <5>1. sub[c.at] \subseteq sub[h.child[q][m]]
          BY ONLY <1>1, <3>1, <4>1 DEF ShapeParts
        <5> QED BY <1>2, <3>1, <4>1, <5>1
      <4>3. m \in Below(h, sub, q, m)
        BY <1>2, <4>1, <4>2 DEF Below
      <4>4. Before(q, m[2], m[2]) /\ m[2] \in Keys(t)
        BY ONLY <1>1, <4>3, m \in N, q \in Sides DEF ShapeParts
      <4> QED BY <4>4, BeforeOrder
    <3>3. OnPath(h, t, N, sub, k, c)
      BY ONLY <2>2, <3>1, <3>2 DEF OnPath
    <3>4. Cardinality(sub[c.at]) <= C - 0
      BY <1>5, <3>1
    <3> QED BY <2>1, <3>3, <3>4
  <2> QED BY <2>3, <2>4
<1>7. ASSUME NEW i \in 1 .. C, Good(i - 1) PROVE Good(i)
  <2>1. PICK c, e : c = f[i - 1] /\ e = f[i]
    OBVIOUS
  <2>2. e = Down(h, k, c) /\ OnPath(h, t, N, sub, k, c)
    BY <1>4, <1>7, <2>1
  <2>3. CASE c.at = Sentinel \/ Cmp(k, c.at[2]) = 0
    <3>1. e = c
      BY ONLY <2>2, <2>3 DEF Down
    <3> QED BY <2>1, <2>2, <2>3, <3>1
  <2>4. CASE c.at # Sentinel /\ Cmp(k, c.at[2]) # 0
    <3>1. c.at \in N /\ Cardinality(sub[c.at]) <= C - (i - 1)
      BY <1>7, <2>1, <2>4 DEF OnPath
    <3>2. OnPath(h, t, N, sub, k, e)
      BY <2>2, <2>4, <3>1, DownKeeps
    <3>3. e.at # Sentinel => sub[e.at] \subseteq sub[c.at] /\ c.at \notin sub[e.at]
      BY <2>2, <2>4, <3>1, DownKeeps
    <3>4. ASSUME e.at # Sentinel PROVE Cardinality(sub[e.at]) <= C - i
      <4>1. e.at \in N
        BY <3>2, <3>4 DEF OnPath
      <4>2. /\ IsFiniteSet(sub[c.at] \ {c.at})
            /\ Cardinality(sub[c.at] \ {c.at}) = Cardinality(sub[c.at]) - 1
        BY <1>2, <1>5, <3>1, FS_RemoveElement
      <4>3. Cardinality(sub[e.at]) <= Cardinality(sub[c.at] \ {c.at})
        BY <3>3, <3>4, <4>2, FS_Subset
      <4> QED BY <1>5, <3>1, <4>1, <4>2, <4>3
    <3> QED BY <2>1, <3>2, <3>4
  <2> QED BY <2>3, <2>4
<1>8. Good(C)
  <2> HIDE DEF Good
  <2>1. SUFFICES ASSUME ~Good(C) PROVE FALSE
    OBVIOUS
  <2>2. PICK m \in {i \in 0 .. C : ~Good(i)} : \A i \in {i \in 0 .. C : ~Good(i)} : m <= i
    <3>1. {i \in 0 .. C : ~Good(i)} \in SUBSET Nat /\ {i \in 0 .. C : ~Good(i)} # {}
      BY <2>1
    <3> QED BY <3>1, LeastMember
  <2>3. m \in 1 .. C /\ m - 1 \in 0 .. C
    BY <1>6, <2>2
  <2>4. Good(m - 1)
    BY <2>2, <2>3
  <2> QED BY <1>7, <2>2, <2>3, <2>4
<1>9. Ended(f[C])
  <2> SUFFICES ASSUME ~Ended(f[C]) PROVE FALSE
    OBVIOUS
  <2>1. f[C].at \in N /\ Cardinality(sub[f[C].at]) <= 0
    BY <1>8 DEF OnPath
  <2>2. sub[f[C].at] = {}
    BY <1>5, <2>1, FS_EmptySet
  <2> QED BY <1>2, <2>1, <2>2
<1> QED BY <1>4, <1>8, <1>9
-----------------------------------------------------------------------------
(* What an insertion that makes r of g does to each cell: z hangs on the    *)
(* side q of y, or is the root.                                             *)
Hung(g, r, t, z, y, q) ==
  /\ r \in Links
  /\ \A u \in Trees : r.root[u] = IF y = Null /\ u = t THEN z ELSE g.root[u]
  /\ \A n \in Cells :
       /\ r.color[n] = IF n # z THEN g.color[n] ELSE IF y = Null THEN "black" ELSE "red"
       /\ r.parent[n] = IF n = z THEN y ELSE g.parent[n]
       /\ \A s \in Sides : r.child[s][n] = IF n = z THEN Sentinel
                                           ELSE IF y # Null /\ n = y /\ s = q THEN z
                                           ELSE g.child[s][n]

LEMMA InsertEffect ==
  ASSUME h \in Links, NEW t \in Trees, NEW k \in Keys(t), Insert(t, k),
         Search(t, k).above \in Nodes \union {Null}, Search(t, k).above # <<t, k>>
  PROVE  Hung(h, h', t, <<t, k>>, Search(t, k).above,
              IF Cmp(k, Search(t, k).above[2]) < 0 THEN "left" ELSE "right")
<1>1. PICK z, y, q : /\ z = <<t, k>> /\ y = Search(t, k).above
                     /\ q = IF Cmp(k, Search(t, k).above[2]) < 0 THEN "left" ELSE "right"
  OBVIOUS
<1>2. /\ z \in Nodes /\ z \in Cells /\ y \in Nodes \union {Null} /\ (y # Null => y \in Cells)
      /\ y # z /\ q \in Sides /\ Sentinel \in Cells
  BY <1>1 DEF Nodes, Cells, Sides
<1>3. PICK R, C, P, K :
        /\ h = [root |-> R, child |-> C, parent |-> P, color |-> K]
        /\ R \in [Trees -> Cells \union {Null}]
        /\ C \in [Sides -> [Cells -> Cells \union {Null}]]
        /\ P \in [Cells -> Nodes \union {Null}]
        /\ K \in [Cells -> {"red", "black"}]
  BY LinksFields
<1>4. PICK paint \in {"red", "black"} : paint = IF y = Null THEN "black" ELSE "red"
  OBVIOUS
<1> DEFINE kk == [K EXCEPT ![z] = paint]
           ca == [C EXCEPT !["left"][z] = Sentinel]
           cb == [ca EXCEPT !["right"][z] = Sentinel]
           cc == [cb EXCEPT ![q][y] = z]
           pp == [P EXCEPT ![z] = y]
           ga == [h EXCEPT !.color[z] = paint]
           gb == [ga EXCEPT !.child["left"][z] = Sentinel]
           gc == [gb EXCEPT !.child["right"][z] = Sentinel]
           gd == [gc EXCEPT !.parent[z] = y]
<1>5. PICK g : g = [h EXCEPT !.color[z] = paint, !.child["left"][z] = Sentinel,
                             !.child["right"][z] = Sentinel, !.parent[z] = y]
  OBVIOUS
<1>6. h' = (IF y = Null THEN [g EXCEPT !.root[t] = z] ELSE [g EXCEPT !.child[q][y] = z]) /\ g = gd
  <2>1. g = gd
    BY <1>5
  <2>2. h' = IF y = Null THEN [g EXCEPT !.root[t] = z] ELSE [g EXCEPT !.child[q][y] = z]
    <3> HIDE DEF ga, gb, gc, gd
    <3> QED BY ONLY <1>1, <1>4, <1>5, Insert(t, k) DEF Insert
  <2> HIDE DEF gd
  <2> QED BY ONLY <2>1, <2>2
<1>7. ga = [root |-> R, child |-> C, parent |-> P, color |-> kk]
  <2>1. h = [root |-> R, child |-> C, parent |-> P, color |-> K]
    BY <1>3
  <2> QED BY ONLY <2>1
<1>8. kk \in [Cells -> {"red", "black"}] /\ \A n \in Cells : kk[n] = IF n = z THEN paint ELSE K[n]
  BY <1>2, <1>3
<1>9. /\ cb \in [Sides -> [Cells -> Cells \union {Null}]]
      /\ \A s \in Sides, n \in Cells : cb[s][n] = IF n = z THEN Sentinel ELSE C[s][n]
  BY <1>2, <1>3 DEF Sides
<1>10. pp \in [Cells -> Nodes \union {Null}] /\ \A n \in Cells : pp[n] = IF n = z THEN y ELSE P[n]
  BY <1>2, <1>3
<1> HIDE DEF ga, kk
<1>11. gb = [root |-> R, child |-> ca, parent |-> P, color |-> kk]
  BY ONLY <1>7
<1> HIDE DEF gb, ca
<1>12. gc = [root |-> R, child |-> cb, parent |-> P, color |-> kk]
  BY ONLY <1>11
<1> HIDE DEF gc, cb
<1>13. gd = [root |-> R, child |-> cb, parent |-> pp, color |-> kk]
  BY ONLY <1>12
<1> HIDE DEF gd, pp
<1>14. h.root = R /\ h.child = C /\ h.parent = P /\ h.color = K
  BY ONLY <1>3
<1>15. CASE y = Null
  <2>1. h' = [root |-> [R EXCEPT ![t] = z], child |-> cb, parent |-> pp, color |-> kk]
    BY ONLY <1>6, <1>13, <1>15
  <2>2. /\ [R EXCEPT ![t] = z] \in [Trees -> Cells \union {Null}]
        /\ \A u \in Trees : [R EXCEPT ![t] = z][u] = IF u = t THEN z ELSE R[u]
    BY <1>2, <1>3
  <2>3. h' \in Links
    BY ONLY <1>8, <1>9, <1>10, <2>1, <2>2 DEF Links
  <2>4. h'.color = kk /\ h'.root = [R EXCEPT ![t] = z] /\ h'.parent = pp /\ h'.child = cb
    BY ONLY <2>1
  <2>5. Hung(h, h', t, z, y, q)
    BY ONLY <1>4, <1>8, <1>9, <1>10, <1>14, <1>15, <2>2, <2>3, <2>4 DEF Hung
  <2> QED BY <1>1, <2>5
<1>16. CASE y # Null
  <2>1. h' = [root |-> R, child |-> cc, parent |-> pp, color |-> kk]
    BY ONLY <1>6, <1>13, <1>16
  <2>2. /\ cc \in [Sides -> [Cells -> Cells \union {Null}]]
        /\ \A s \in Sides, n \in Cells : cc[s][n] = IF n = y /\ s = q THEN z ELSE cb[s][n]
    BY <1>2, <1>9, <1>16
  <2> HIDE DEF cc
  <2>3. h' \in Links
    BY ONLY <1>3, <1>8, <1>10, <2>1, <2>2 DEF Links
  <2>4. h'.color = kk /\ h'.root = R /\ h'.parent = pp /\ h'.child = cc
    BY ONLY <2>1
  <2>5. Hung(h, h', t, z, y, q)
    BY ONLY <1>2, <1>4, <1>8, <1>9, <1>10, <1>14, <1>16, <2>2, <2>3, <2>4 DEF Hung
  <2> QED BY <1>1, <2>5
<1> QED BY <1>15, <1>16

(* The first node makes a tree of its own.                                  *)
LEMMA HungFirst ==
  ASSUME NEW g \in Links, NEW t \in Trees, NEW sub, Shape(g, t, {}, sub),
         NEW k \in Keys(t), NEW z, z = <<t, k>>, NEW q \in Sides, NEW r, Hung(g, r, t, z, Null, q)
  PROVE  \E v : Shape(r, t, {z}, v)
<1>1. z \in Own(t) /\ z \in Nodes /\ z \in Cells /\ z # Sentinel /\ z # Null /\ Null # Sentinel
  BY NodesApart DEF Own
<1>2. r.root[t] = z /\ r.parent[z] = Null /\ \A s \in Sides : r.child[s][z] = Sentinel
  BY <1>1 DEF Hung
<1>3. PICK v : v = [n \in Nodes |-> {z}]
  OBVIOUS
<1>4. v \in [Nodes -> SUBSET Nodes] /\ v[z] = {z}
  BY <1>1, <1>3
<1>5. \A s \in Sides : Below(r, v, s, z) = {}
  BY <1>2 DEF Below
<1>6. "left" \in Sides /\ "right" \in Sides
  BY DEF Sides
<1>7. Linked(r, t, {z}, v, z)
  BY <1>2 DEF Linked
<1>8. Covers(r, t, {z}, v, z)
  BY <1>4, <1>5, <1>6 DEF Covers
<1>9. Ordered(r, t, {z}, v, z)
  BY <1>5 DEF Ordered
<1>10. Rooted(r, t, {z}, v)
  BY <1>2, <1>4 DEF Rooted
<1> QED BY <1>1, <1>4, <1>7, <1>8, <1>9, <1>10 DEF Shape

(* A node hung where its search left off is in its place.                   *)
LEMMA HungShape ==
  ASSUME NEW g \in Links, NEW t \in Trees, NEW N, NEW sub, Shape(g, t, N, sub),
         NEW k \in Keys(t), NEW z, z = <<t, k>>, z \notin N, NEW y \in N, NEW q \in Sides,
         g.child[q][y] = Sentinel, Before(q, k, y[2]), Leads(g, N, sub, k, y),
         NEW r, Hung(g, r, t, z, y, q)
  PROVE  \E v : Shape(r, t, N \union {z}, v)
<1>1. ShapeParts(g, t, N, sub)
  BY ShapeFacts
<1>2. /\ N \subseteq Own(t) /\ Sentinel \notin N /\ Null \notin N /\ Null # Sentinel
      /\ \A n \in N : n[2] \in Keys(t) /\ n \in Cells /\ n \in Nodes
      /\ sub \in [Nodes -> SUBSET Nodes]
      /\ \A n \in N : n \in sub[n] /\ sub[n] \subseteq N
      /\ \A n \in N, m \in N : m \in sub[n] => sub[m] \subseteq sub[n]
      /\ \A n \in N, m \in N : m \in sub[n] /\ m # n => g.parent[m] \in sub[n]
      /\ \A n \in N, s \in Sides : /\ g.child[s][n] \in N \union {Sentinel}
                                   /\ g.child[s][n] # Sentinel => g.parent[g.child[s][n]] = n
  BY ONLY <1>1 DEF ShapeParts
<1>3. /\ \A n \in N, s \in Sides :
           sub[n] = {n} \union Below(g, sub, s, n) \union Below(g, sub, Other(s), n)
      /\ \A n \in N, s \in Sides : \A m \in Below(g, sub, s, n) : m \in N /\ Before(s, m[2], n[2])
  BY ONLY <1>1 DEF ShapeParts
<1>4. z \in Own(t) /\ z \in Nodes /\ z \in Cells /\ z # Sentinel /\ z # Null /\ y # Null /\ z[2] = k
  BY <1>2, NodesApart DEF Own
<1>5. /\ \A n \in N : r.parent[n] = g.parent[n]
      /\ r.parent[z] = y
      /\ \A s \in Sides : r.child[s][z] = Sentinel
      /\ r.child[q][y] = z
      /\ \A n \in N, s \in Sides : ~(n = y /\ s = q) => r.child[s][n] = g.child[s][n]
      /\ r.root[t] = g.root[t]
  <2>1. \A n \in Cells :
           /\ r.parent[n] = IF n = z THEN y ELSE g.parent[n]
           /\ \A s \in Sides : r.child[s][n] = IF n = z THEN Sentinel
                                               ELSE IF y # Null /\ n = y /\ s = q THEN z
                                               ELSE g.child[s][n]
    BY DEF Hung
  <2>2. r.root[t] = g.root[t]
    BY <1>4 DEF Hung
  <2> QED BY ONLY <1>2, <1>4, <2>1, <2>2, z \notin N, y \in N, q \in Sides
<1>6. PICK v : v = [n \in Nodes |-> IF n = z THEN {z}
                                    ELSE IF n \in N /\ y \in sub[n] THEN sub[n] \union {z}
                                    ELSE sub[n]]
  OBVIOUS
<1>7. /\ v \in [Nodes -> SUBSET Nodes] /\ v[z] = {z}
      /\ \A n \in N : v[n] = IF y \in sub[n] THEN sub[n] \union {z} ELSE sub[n]
  <2>1. \A n \in Nodes : sub[n] \in SUBSET Nodes
    BY <1>2
  <2>2. v \in [Nodes -> SUBSET Nodes]
    BY <1>4, <1>6, <2>1
  <2> QED BY ONLY <1>2, <1>4, <1>6, <2>2, z \notin N
<1>7a. \A n \in N : \A m : m \in v[n] <=> m \in sub[n] \/ (m = z /\ y \in sub[n])
  <2> SUFFICES ASSUME NEW n \in N, NEW m
               PROVE  m \in v[n] <=> m \in sub[n] \/ (m = z /\ y \in sub[n])
    OBVIOUS
  <2>1. CASE y \in sub[n]
    <3>1. v[n] = sub[n] \union {z}
      BY <1>7, <2>1
    <3> QED BY ONLY <2>1, <3>1
  <2>2. CASE y \notin sub[n]
    <3>1. v[n] = sub[n]
      BY <1>7, <2>2
    <3> QED BY ONLY <2>2, <3>1
  <2> QED BY <2>1, <2>2
<1>8. \A n \in N, s \in Sides :
        Below(r, v, s, n) = IF (n = y /\ s = q) \/ y \in Below(g, sub, s, n)
                            THEN Below(g, sub, s, n) \union {z} ELSE Below(g, sub, s, n)
  <2> SUFFICES ASSUME NEW n \in N, NEW s \in Sides
               PROVE  Below(r, v, s, n) = IF (n = y /\ s = q) \/ y \in Below(g, sub, s, n)
                                          THEN Below(g, sub, s, n) \union {z} ELSE Below(g, sub, s, n)
    OBVIOUS
  <2>1. CASE n = y /\ s = q
    BY <1>4, <1>5, <1>7, <2>1 DEF Below
  <2>2. CASE ~(n = y /\ s = q) /\ g.child[s][n] = Sentinel
    BY <1>5, <2>2 DEF Below
  <2>3. CASE ~(n = y /\ s = q) /\ g.child[s][n] # Sentinel
    <3>1. r.child[s][n] = g.child[s][n] /\ g.child[s][n] \in N
      BY <1>2, <1>5, <2>3
    <3> QED BY <1>7, <2>3, <3>1 DEF Below
  <2> QED BY <2>1, <2>2, <2>3
<1>9. \A s \in Sides : Below(r, v, s, z) = {}
  BY <1>5 DEF Below
<1>10. "left" \in Sides /\ "right" \in Sides /\ Other("left") = "right"
  BY SidesTwo DEF Sides
<1>11. ASSUME NEW n \in N PROVE Linked(r, t, N \union {z}, v, n)
  <2>1. ASSUME NEW s \in Sides
        PROVE  /\ r.child[s][n] \in N \union {z} \union {Sentinel}
               /\ r.child[s][n] # Sentinel => r.parent[r.child[s][n]] = n
    BY <1>2, <1>5
  <2>2. ASSUME n # r.root[t]
        PROVE  /\ r.parent[n] \in N \union {z}
               /\ \E s \in Sides : r.child[s][r.parent[n]] = n
    <3>1. PICK s \in Sides : g.parent[n] \in N /\ g.child[s][g.parent[n]] = n
      BY <1>5, <2>2 DEF Shape, Linked
    <3>2. ~(g.parent[n] = y /\ s = q)
      BY <1>2, <3>1
    <3> QED BY <1>5, <3>1, <3>2
  <2> QED BY <2>1, <2>2 DEF Linked
<1>12. Linked(r, t, N \union {z}, v, z)
  BY <1>5 DEF Linked
<1>13. ASSUME NEW n \in N PROVE Covers(r, t, N \union {z}, v, n)
  <2>1. n \in v[n] /\ v[n] \subseteq N \union {z}
    BY ONLY <1>2, <1>7a, n \in N
  <2>2. v[n] = {n} \union Below(r, v, "left", n) \union Below(r, v, "right", n)
    <3>1. sub[n] = {n} \union Below(g, sub, "left", n) \union Below(g, sub, "right", n)
      BY <1>3, <1>10
    <3>2. y \in sub[n] <=> n = y \/ y \in Below(g, sub, "left", n) \/ y \in Below(g, sub, "right", n)
      BY <3>1
    <3>3. q = "left" \/ q = "right"
      BY DEF Sides
    <3> QED BY <1>7, <1>8, <1>10, <3>1, <3>2, <3>3
  <2>3. ASSUME NEW m \in v[n]
        PROVE  v[m] \subseteq v[n] /\ (m # n => r.parent[m] \in v[n])
    <3>1. CASE m = z
      <4>1. y \in sub[n]
        BY ONLY <1>2, <1>7a, <2>3, <3>1, n \in N, z \notin N
      <4>2. y \in v[n] /\ z \in v[n]
        BY ONLY <1>7a, <4>1, n \in N
      <4> QED BY ONLY <1>5, <1>7, <3>1, <4>2
    <3>2. CASE m # z
      <4>1. m \in sub[n] /\ m \in N
        BY ONLY <1>2, <1>7a, <2>3, <3>2, n \in N
      <4>2. sub[m] \subseteq sub[n] /\ (m # n => r.parent[m] \in sub[n])
        BY ONLY <1>2, <1>5, <4>1, n \in N
      <4> QED BY ONLY <1>7a, <4>1, <4>2, n \in N
    <3> QED BY <3>1, <3>2
  <2> QED BY <2>1, <2>2, <2>3 DEF Covers
<1>14. Covers(r, t, N \union {z}, v, z)
  BY <1>7, <1>9, <1>10 DEF Covers
<1>15. ASSUME NEW n \in N PROVE Ordered(r, t, N \union {z}, v, n)
  <2> SUFFICES ASSUME NEW s \in Sides, NEW m \in Below(r, v, s, n)
               PROVE  Before(s, m[2], n[2])
    BY DEF Ordered
  <2>1. CASE m \in Below(g, sub, s, n)
    BY <1>3, <2>1
  <2>2. CASE m = z /\ n = y /\ s = q
    BY <1>4, <2>2
  <2>3. CASE m = z /\ y \in Below(g, sub, s, n)
    BY <1>4, <2>3 DEF Leads
  <2> QED BY <1>8, <2>1, <2>2, <2>3
<1>16. Ordered(r, t, N \union {z}, v, z)
  BY <1>9 DEF Ordered
<1>17. Rooted(r, t, N \union {z}, v)
  <2>1. g.root[t] \in N /\ g.parent[g.root[t]] = Null /\ sub[g.root[t]] = N
    BY DEF Shape, Rooted
  <2>2. v[g.root[t]] = N \union {z}
    BY ONLY <1>7, <2>1, y \in N
  <2> QED BY ONLY <1>5, <2>1, <2>2 DEF Rooted
<1>17a. N \union {z} \subseteq Own(t)
  BY <1>2, <1>4
<1> QED BY ONLY <1>17a, <1>7, <1>11, <1>12, <1>13, <1>14, <1>15, <1>16, <1>17 DEF Shape

(* A new node is black at the root and red elsewhere, and counts no black   *)
(* node more under those above it.                                          *)
LEMMA HungHeights ==
  ASSUME NEW g \in Links, NEW t \in Trees, NEW N, NEW sub, Shape(g, t, N, sub),
         NEW k \in Keys(t), NEW z, z = <<t, k>>, z \notin N, NEW y \in N \union {Null}, NEW q \in Sides,
         y = Null => N = {}, y # Null => g.child[q][y] = Sentinel,
         NEW r, Hung(g, r, t, z, y, q), NEW B, Heights(g, g.color, N, B)
  PROVE  \E E : Heights(r, r.color, N \union {z}, E)
<1>1. ShapeParts(g, t, N, sub)
  BY ShapeFacts
<1>2. /\ N \subseteq Own(t) /\ Sentinel \notin N /\ Null \notin N /\ Null # Sentinel
      /\ \A n \in N : n \in Cells
      /\ \A n \in N, s \in Sides : g.child[s][n] \in N \union {Sentinel}
  BY ONLY <1>1 DEF ShapeParts
<1>3. z \in Cells /\ z # Sentinel /\ z # Null /\ Sentinel \in Cells
  BY NodesApart DEF Own
<1>4. \A n \in Cells :
       /\ r.color[n] = IF n # z THEN g.color[n] ELSE IF y = Null THEN "black" ELSE "red"
       /\ \A s \in Sides : r.child[s][n] = IF n = z THEN Sentinel
                                           ELSE IF y # Null /\ n = y /\ s = q THEN z
                                           ELSE g.child[s][n]
  BY DEF Hung
<1>5. /\ B \in [Cells -> Nat \ {0}] /\ B[Sentinel] = 1
      /\ \A n \in N, s \in Sides :
           B[n] = IF g.color[n] = "black" THEN B[g.child[s][n]] + 1 ELSE B[g.child[s][n]]
  BY DEF Heights
<1>6. PICK E : E = [B EXCEPT ![z] = IF y = Null THEN 2 ELSE 1]
  OBVIOUS
<1>7. /\ E \in [Cells -> Nat \ {0}] /\ E[Sentinel] = 1 /\ E[z] = IF y = Null THEN 2 ELSE 1
      /\ \A n \in Cells : n # z => E[n] = B[n]
  BY <1>3, <1>5, <1>6
<1>8. ASSUME NEW n \in N, NEW s \in Sides
      PROVE  E[n] = IF r.color[n] = "black" THEN E[r.child[s][n]] + 1 ELSE E[r.child[s][n]]
  <2>1. n \in Cells /\ n # z /\ r.color[n] = g.color[n] /\ E[n] = B[n] /\ y # Null
    BY ONLY <1>2, <1>4, <1>7, n \in N, z \notin N, y = Null => N = {}
  <2>2. CASE n = y /\ s = q
    <3>1. r.child[s][n] = z /\ g.child[s][n] = Sentinel
      BY <1>4, <2>1, <2>2
    <3>2. B[n] = IF g.color[n] = "black" THEN B[Sentinel] + 1 ELSE B[Sentinel]
      BY <1>5, <3>1
    <3> QED BY ONLY <1>5, <1>7, <2>1, <3>1, <3>2
  <2>3. CASE ~(n = y /\ s = q)
    <3>1. r.child[s][n] = g.child[s][n]
      BY <1>4, <2>1, <2>3
    <3>2. g.child[s][n] \in Cells /\ g.child[s][n] # z
      BY <1>2, <1>3
    <3> QED BY ONLY <1>5, <1>7, <2>1, <3>1, <3>2, n \in N, s \in Sides
  <2> QED BY <2>2, <2>3
<1>9. ASSUME NEW s \in Sides
      PROVE  E[z] = IF r.color[z] = "black" THEN E[r.child[s][z]] + 1 ELSE E[r.child[s][z]]
  <2>1. r.child[s][z] = Sentinel /\ r.color[z] = IF y = Null THEN "black" ELSE "red"
    BY ONLY <1>3, <1>4, s \in Sides
  <2> QED BY ONLY <1>7, <2>1
<1>10. Heights(r, r.color, N \union {z}, E)
  BY ONLY <1>7, <1>8, <1>9 DEF Heights
<1> QED BY <1>10

(* A tree on which its thread may call an operation.                        *)
LEMMA IdleFacts ==
  ASSUME IInv, NEW t \in Trees, Ready(t)
  PROVE  /\ t \in live /\ op[t] = Idle /\ Known(t) /\ h \in Links /\ Typed /\ Kept
         /\ Balanced(h, t, NodesOf(t), {})
<1>1. t \in live /\ op[t] = Idle
  BY DEF Ready
<1>2. Excepted(t) = {}
  <2>1. op[t].do = "none"
    BY ONLY <1>1 DEF Idle
  <2> QED BY ONLY <2>1 DEF Excepted, Fixing
<1>3. Typed /\ Kept /\ Known(t) /\ Balanced(h, t, NodesOf(t), Excepted(t))
  BY <1>1 DEF IInv
<1>4. h \in Links
  BY <1>3 DEF Typed, TypeOK
<1> QED BY <1>1, <1>2, <1>3, <1>4

LEMMA InsertKeeps ==
  ASSUME IInv, NEW t \in Trees, NEW k \in Keys(t), Insert(t, k)
  PROVE  IInv'
<1>1. /\ t \in live /\ op[t] = Idle /\ Known(t) /\ h \in Links /\ Typed /\ Kept
      /\ Balanced(h, t, NodesOf(t), {})
  BY IdleFacts DEF Insert
<1>2. PICK N, z, y, q : /\ N = NodesOf(t) /\ z = <<t, k>> /\ y = Search(t, k).above
                        /\ q = IF Cmp(k, Search(t, k).above[2]) < 0 THEN "left" ELSE "right"
  OBVIOUS
<1>3. PICK sub : Shape(h, t, N, sub)
  BY <1>1, <1>2 DEF Balanced
<1>4. /\ N \subseteq Own(t) /\ Sentinel \notin N /\ Null \notin N
      /\ \A n \in N : n \in Cells /\ n \in Nodes /\ n[2] \in Keys(t)
  <2>1. ShapeParts(h, t, N, sub)
    BY <1>3, ShapeFacts
  <2> QED BY ONLY <2>1 DEF ShapeParts
<1>5. OnPath(h, t, N, sub, k, Search(t, k)) /\ Search(t, k).at = Sentinel
  BY <1>3, SearchFinds DEF Insert
<1>6. /\ \A m \in N : Cmp(k, m[2]) # 0
      /\ Cmp(k, k) = 0
      /\ z \notin N /\ z \in Own(t) /\ z \in Nodes /\ z \in Cells /\ z # Sentinel /\ z # Null
      /\ z[1] = t /\ z[2] = k
  <2>1. \A m \in N : Cmp(k, m[2]) # 0
    BY <1>4, <1>5 DEF OnPath
  <2>2. Cmp(k, k) = 0
    <3>1. Cmp(k, k) \in Int /\ (Cmp(k, k) < 0 <=> Cmp(k, k) > 0)
      BY CmpAssumption
    <3> QED BY ONLY <3>1
  <2>3. z \in Own(t) /\ z[2] = k /\ z[1] = t
    BY <1>2 DEF Own
  <2> QED BY <2>1, <2>2, <2>3, NodesApart
<1>7. /\ q \in Sides /\ y \in N \union {Null}
      /\ y = Null => N = {}
      /\ y # Null => /\ h.child[q][y] = Sentinel /\ Before(q, k, y[2])
                     /\ Leads(h, N, sub, k, y)
  <2>1. q \in Sides /\ y \in N \union {Null}
    BY <1>2, <1>5 DEF OnPath, Sides
  <2>2. ASSUME y = Null PROVE N = {}
    BY <1>2, <1>3, <1>4, <1>5, <2>2 DEF OnPath, Shape, Rooted
  <2>3. ASSUME y # Null
        PROVE  h.child[q][y] = Sentinel /\ Before(q, k, y[2]) /\ Leads(h, N, sub, k, y)
    <3>1. PICK s \in Sides : h.child[s][y] = Sentinel /\ Before(s, k, y[2])
      BY <1>2, <1>5, <2>3 DEF OnPath
    <3>2. s = q
      <4>1. y[2] \in Keys(t)
        BY <1>4, <2>1, <2>3
      <4>2. /\ Cmp(k, y[2]) \in Int /\ Cmp(y[2], k) \in Int
            /\ Cmp(k, y[2]) < 0 <=> Cmp(y[2], k) > 0
            /\ Cmp(y[2], k) < 0 <=> Cmp(k, y[2]) > 0
        BY <4>1, CmpAssumption
      <4>3. s = "left" \/ s = "right"
        BY DEF Sides
      <4> QED BY ONLY <1>2, <3>1, <4>2, <4>3 DEF Before
    <3> QED BY <1>2, <1>5, <2>3, <3>1, <3>2 DEF OnPath
  <2> QED BY <2>1, <2>2, <2>3
<1>8. Hung(h, h', t, z, y, q)
  <2>1. Search(t, k).above \in Nodes \union {Null} /\ Search(t, k).above # <<t, k>>
    BY <1>2, <1>4, <1>6, <1>7
  <2> QED BY <1>1, <1>2, <2>1, InsertEffect
<1>9. /\ h' \in Links
      /\ \A n \in Cells :
                          /\ h'.parent[n] = IF n = z THEN y ELSE h.parent[n]
                          /\ h'.color[n] = IF n # z THEN h.color[n] ELSE IF y = Null THEN "black" ELSE "red"
  BY <1>8 DEF Hung
<1>10. \E v : Shape(h', t, N \union {z}, v)
  <2>1. CASE y = Null
    BY <1>1, <1>2, <1>3, <1>7, <1>8, <2>1, HungFirst
  <2>2. CASE y # Null
    BY <1>1, <1>2, <1>3, <1>6, <1>7, <1>8, <2>2, HungShape
  <2> QED BY <2>1, <2>2
<1>11. \E B : Heights(h', h'.color, N \union {z}, B)
  <2>1. PICK B : Heights(h, h.color, N, B)
    BY <1>1, <1>2 DEF Balanced
  <2> QED BY <1>1, <1>2, <1>3, <1>6, <1>7, <1>8, <2>1, HungHeights
<1>12. \A n \in N : n \in Cells /\ n # z /\ (h.parent[n] # Null => h.parent[n] \in Cells /\ h.parent[n] # z)
  <2>1. \A n \in N : h.parent[n] # Null => h.parent[n] \in N
    BY <1>3 DEF Shape, Rooted, Linked
  <2> QED BY <1>4, <1>6, <2>1
<1>13. Untouched(h, h', t)
  <2>1. \A u \in Trees : u # t => h'.root[u] = h.root[u]
    BY <1>8 DEF Hung
  <2>2. \A n \in Cells : n \notin Own(t) =>
          /\ h'.parent[n] = h.parent[n] /\ h'.color[n] = h.color[n]
          /\ \A s \in Sides : h'.child[s][n] = h.child[s][n]
    <3>1. \A n \in Cells : n \notin Own(t) => n # z /\ (n # y \/ y = Null)
      BY <1>4, <1>6, <1>7
    <3> QED BY <1>8, <3>1 DEF Hung
  <2> QED BY <2>1, <2>2 DEF Untouched
<1>14. /\ live' = live /\ heap' = heap \union {z} /\ size' = [size EXCEPT ![t] = @ + 1]
       /\ given' = [given EXCEPT ![t] = @ \union {k}]
       /\ op' = [op EXCEPT ![t] =
            IF y = Null \/ h.parent[y] = Null THEN Idle ELSE [do |-> "fix", z |-> z]]
  BY ONLY <1>2, Insert(t, k) DEF Insert
<1>15. NodesOf(t)' = N \union {z}
  BY <1>2, <1>6, <1>14 DEF NodesOf
<1>16. /\ op' \in [Trees -> [do : {"none", "fix", "loops", "faults"}, z : Nodes \union {Null}]]
       /\ op'[t] = IF y = Null \/ h.parent[y] = Null THEN Idle ELSE [do |-> "fix", z |-> z]
       /\ \A u \in Trees : u # t => op'[u] = op[u]
  <2>1. op \in [Trees -> [do : {"none", "fix", "loops", "faults"}, z : Nodes \union {Null}]]
    BY <1>1 DEF Typed, TypeOK
  <2>2. PICK o : o = IF y = Null \/ h.parent[y] = Null THEN Idle ELSE [do |-> "fix", z |-> z]
    OBVIOUS
  <2>3. o \in [do : {"none", "fix", "loops", "faults"}, z : Nodes \union {Null}]
    BY <1>6, <2>2 DEF Idle
  <2> QED BY ONLY <1>14, <2>1, <2>2, <2>3, t \in Trees
<1>17. Excepted(t)' = IF y = Null \/ h.parent[y] = Null THEN {} ELSE {z}
  <2>1. op'[t] = Idle => Excepted(t)' = {}
    BY DEF Excepted, Fixing, Idle
  <2>2. op'[t] = [do |-> "fix", z |-> z] => Excepted(t)' = {z}
    BY DEF Excepted, Fixing
  <2> QED BY <1>16, <2>1, <2>2
<1>18. Reds(h', N \union {z}, Excepted(t)')
  <2> SUFFICES ASSUME NEW n \in N \union {z}, h'.color[n] = "red",
                      h'.parent[n] = Null \/ h'.color[h'.parent[n]] = "red"
               PROVE  n \in Excepted(t)'
    BY DEF Reds
  <2>1. Reds(h, N, {})
    BY <1>1, <1>2 DEF Balanced
  <2>2. n = z
    BY <1>9, <1>12, <2>1 DEF Reds
  <2>3. y # Null /\ h'.parent[z] = y /\ y \in N
    BY <1>6, <1>7, <1>9, <2>2
  <2>4. h.color[y] = "red"
    BY <1>4, <1>6, <1>9, <2>2, <2>3
  <2>5. h.parent[y] # Null
    BY <2>1, <2>3, <2>4 DEF Reds
  <2> QED BY <1>17, <2>2, <2>3, <2>5
<1>19. /\ size'[t] = Cardinality(N \union {z}) /\ size'[t] \in 0 .. Cardinality(Keys(t))
       /\ size' \in [Trees -> Nat] /\ \A u \in Trees : u # t => size'[u] = size[u]
  <2>1. IsFiniteSet(N) /\ Cardinality(N \union {z}) = Cardinality(N) + 1
    BY <1>4, <1>6, NodesFew, CountOneMore
  <2>2. /\ Cardinality(N \union {z}) \in Nat /\ Cardinality(Keys(t)) \in Nat
        /\ Cardinality(N \union {z}) <= Cardinality(Keys(t))
    BY <1>4, <1>6, NodesFew
  <2>3. size[t] = Cardinality(N) /\ size \in [Trees -> Nat]
    BY <1>1, <1>2 DEF Known, Typed
  <2> QED BY ONLY <1>14, <2>1, <2>2, <2>3, t \in Trees
<1>20. /\ given' \in [Trees -> SUBSET UNION {Keys(u) : u \in Trees}]
       /\ given'[t] = given[t] \union {k}
       /\ \A u \in Trees : u # t => given'[u] = given[u]
  <2>1. given \in [Trees -> SUBSET UNION {Keys(u) : u \in Trees}]
    BY <1>1 DEF Typed
  <2>2. given[t] \union {k} \in SUBSET UNION {Keys(u) : u \in Trees}
    BY <2>1
  <2> QED BY ONLY <1>14, <2>1, <2>2, t \in Trees
<1>21. Typed'
  <2>1. \A u \in Trees : size'[u] \in 0 .. Cardinality(Keys(u))
    BY <1>1, <1>19 DEF Typed, TypeOK
  <2> QED BY <1>1, <1>6, <1>9, <1>14, <1>16, <1>19, <1>20, <2>1 DEF Typed, TypeOK
<1>22. Known(t)'
  <2>1. Fixing(t)' => op'[t].z = z /\ h'.color[z] = "red"
    <3>1. op'[t] = Idle => ~Fixing(t)'
      BY DEF Fixing, Idle
    <3> QED BY <1>6, <1>9, <1>16, <3>1
  <2>2. /\ given[t] \subseteq Keys(t)
        /\ \A n \in N : n[2] \in given[t]
        /\ \A l \in given[t] : \E n \in N : Cmp(l, n[2]) = 0
    BY <1>1, <1>2 DEF Known
  <2> QED BY <1>1, <1>6, <1>14, <1>15, <1>19, <1>20, <2>1, <2>2 DEF Known
<1>23. Balanced(h, t, NodesOf(t), Excepted(t))'
  BY <1>10, <1>11, <1>15, <1>18 DEF Balanced
<1>24. Elsewhere(t)
  <2>1. heap' \ Own(t) = heap \ Own(t)
    BY <1>6, <1>14
  <2> QED BY <1>13, <1>14, <1>16, <1>19, <1>20, <2>1 DEF Elsewhere
<1> QED BY <1>1, <1>14, <1>21, <1>22, <1>23, <1>24, StepKeeps

LEMMA InsertDupeKeeps ==
  ASSUME IInv, NEW t \in Trees, NEW k \in Keys(t), InsertDupe(t, k)
  PROVE  IInv'
<1>1. /\ t \in live /\ op[t] = Idle /\ Known(t) /\ Typed
      /\ Balanced(h, t, NodesOf(t), {})
  BY IdleFacts DEF InsertDupe
<1>2. PICK sub : Shape(h, t, NodesOf(t), sub)
  BY <1>1 DEF Balanced
<1>3. \E n \in NodesOf(t) : Cmp(k, n[2]) = 0
  <2>1. /\ OnPath(h, t, NodesOf(t), sub, k, Search(t, k))
        /\ Search(t, k).at # Sentinel => Cmp(k, Search(t, k).at[2]) = 0
    BY <1>2, SearchFinds
  <2> QED BY <2>1 DEF InsertDupe, OnPath
<1>4. /\ live' = live /\ heap' = heap /\ h' = h /\ size' = size /\ op' = op
      /\ given' = [given EXCEPT ![t] = @ \union {k}]
  BY DEF InsertDupe
<1>5. /\ given' \in [Trees -> SUBSET UNION {Keys(u) : u \in Trees}]
      /\ given'[t] = given[t] \union {k}
      /\ \A u \in Trees : u # t => given'[u] = given[u]
  <2>1. given \in [Trees -> SUBSET UNION {Keys(u) : u \in Trees}]
    BY <1>1 DEF Typed
  <2>2. given[t] \union {k} \in SUBSET UNION {Keys(u) : u \in Trees}
    BY <2>1
  <2> QED BY ONLY <1>4, <2>1, <2>2, t \in Trees
<1>6. Typed'
  BY <1>1, <1>4, <1>5 DEF Typed, TypeOK
<1>7. NodesOf(t)' = NodesOf(t) /\ Excepted(t)' = Excepted(t) /\ (Fixing(t)' <=> Fixing(t))
  BY <1>4 DEF NodesOf, Excepted, Fixing
<1>8. Known(t)'
  BY <1>1, <1>3, <1>4, <1>5, <1>7 DEF Known
<1>9. Balanced(h, t, NodesOf(t), Excepted(t))'
  BY <1>1, <1>4, <1>7 DEF IInv
<1>10. Elsewhere(t)
  BY <1>4, <1>5 DEF Elsewhere, Untouched
<1> QED BY <1>1, <1>4, <1>6, <1>8, <1>9, <1>10, StepKeeps

LEMMA DeleteKeeps ==
  ASSUME IInv, NEW t \in Trees, NEW k \in Keys(t), Delete(t, k)
  PROVE  IInv'
<1>1. /\ t \in live /\ op[t] = Idle /\ Known(t) /\ Typed
      /\ Balanced(h, t, NodesOf(t), {})
  BY IdleFacts DEF Delete
<1>2. PICK d : d = IF Search(t, k).at = Sentinel THEN "faults" ELSE "loops"
  OBVIOUS
<1>3. /\ live' = live /\ heap' = heap /\ h' = h /\ size' = size /\ given' = given
      /\ op' = [op EXCEPT ![t].do = d]
  BY ONLY <1>2, Delete(t, k) DEF Delete
<1>4. op \in [Trees -> [do : {"none", "fix", "loops", "faults"}, z : Nodes \union {Null}]]
  BY <1>1 DEF Typed, TypeOK
<1>5. /\ op' \in [Trees -> [do : {"none", "fix", "loops", "faults"}, z : Nodes \union {Null}]]
      /\ op'[t].do # "fix" /\ \A u \in Trees : u # t => op'[u] = op[u]
  BY ONLY <1>2, <1>3, <1>4, t \in Trees
<1>6. Typed'
  BY <1>1, <1>3, <1>5 DEF Typed, TypeOK
<1>7. NodesOf(t)' = NodesOf(t) /\ Excepted(t)' = {} /\ ~Fixing(t)'
  BY <1>3, <1>5 DEF NodesOf, Excepted, Fixing
<1>8. Known(t)'
  BY <1>1, <1>3, <1>7 DEF Known
<1>9. Balanced(h, t, NodesOf(t), Excepted(t))'
  BY <1>1, <1>3, <1>7
<1>10. Elsewhere(t)
  BY <1>3, <1>5 DEF Elsewhere, Untouched
<1> QED BY <1>1, <1>3, <1>6, <1>8, <1>9, <1>10, StepKeeps
-----------------------------------------------------------------------------
(* What is reached when the children of u are visited.                      *)
Visited(g, u) == u \union ({g.child[s][n] : s \in Sides, n \in u} \ {Sentinel})

LEMMA FreedTurns ==
  ASSUME NEW t \in Trees, NEW N, NEW sub, Shape(h, t, N, sub), NEW C \in Nat, C = Cardinality(Keys(t))
  PROVE  \E f : /\ f[0] = {h.root[t]} \ {Sentinel}
                /\ \A i \in 1 .. C : f[i] = Visited(h, f[i - 1])
                /\ Freed(t) = f[C]
<1>1. PICK a : a = {h.root[t]} \ {Sentinel} /\ a \in SUBSET N
  BY DEF Shape, Rooted
<1>2. \A u \in SUBSET N : Visited(h, u) \in SUBSET N
  <2>1. ShapeParts(h, t, N, sub)
    BY ShapeFacts
  <2>2. \A n \in N, q \in Sides : h.child[q][n] \in N \union {Sentinel}
    BY ONLY <2>1 DEF ShapeParts
  <2> QED BY <2>2 DEF Visited
<1>3. PICK F : F = [u \in SUBSET N |-> Visited(h, u)]
  OBVIOUS
<1>4. F \in [SUBSET N -> SUBSET N]
  BY <1>2, <1>3
<1>5. PICK g \in [0 .. C -> SUBSET N] : g[0] = a /\ \A i \in 1 .. C : g[i] = F[g[i - 1]]
  <2>1. PICK S : S = SUBSET N
    OBVIOUS
  <2>2. a \in S /\ F \in [S -> S]
    BY <1>1, <1>4, <2>1
  <2>3. \E g \in [0 .. C -> S] : g[0] = a /\ \A i \in 1 .. C : g[i] = F[g[i - 1]]
    <3>1. Runs(S, F, a, C)
      BY ONLY <2>2, Unrolled, C \in Nat
    <3> QED BY ONLY <3>1 DEF Runs
  <2> QED BY ONLY <2>1, <2>3
<1>6. g = [d \in 0 .. C |-> IF d = 0 THEN a ELSE Visited(h, g[d - 1])]
  <2>1. \A d \in 0 .. C : d # 0 => d \in 1 .. C /\ d - 1 \in 0 .. C
    OBVIOUS
  <2>2. \A d \in 0 .. C : g[d] = IF d = 0 THEN a ELSE Visited(h, g[d - 1])
    BY <1>3, <1>5, <2>1
  <2> QED BY <1>5, <2>2
<1>7. Freed(t) = (CHOOSE under : under = [d \in 0 .. C |-> IF d = 0 THEN a ELSE Visited(h, under[d - 1])])[C]
  BY ONLY <1>1, C = Cardinality(Keys(t)) DEF Freed, Visited
<1>8. PICK f : f = (CHOOSE under : under = [d \in 0 .. C |-> IF d = 0 THEN a ELSE Visited(h, under[d - 1])])
  OBVIOUS
<1>9. f = [d \in 0 .. C |-> IF d = 0 THEN a ELSE Visited(h, f[d - 1])]
  BY ONLY <1>6, <1>8
<1>10. f[0] = a /\ \A i \in 1 .. C : f[i] = Visited(h, f[i - 1])
  BY ONLY <1>9, C \in Nat
<1>11. Freed(t) = f[C]
  BY ONLY <1>7, <1>8
<1> QED BY ONLY <1>1, <1>10, <1>11

(* The nodes above a node, with itself.                                     *)
Above(N, sub, n) == {a \in N : n \in sub[a]}

(* A release frees every node of the tree, and no other.                    *)
LEMMA FreedAll ==
  ASSUME NEW t \in Trees, NEW N, NEW sub, Shape(h, t, N, sub)
  PROVE  Freed(t) = N
<1>1. ShapeParts(h, t, N, sub)
  BY ShapeFacts
<1>2. /\ N \subseteq Own(t) /\ Sentinel \notin N
      /\ \A n \in N : n \in sub[n] /\ sub[n] \subseteq N /\ n[2] \in Keys(t)
      /\ \A n \in N, m \in N : m \in sub[n] => sub[m] \subseteq sub[n]
      /\ \A n \in N, q \in Sides : h.child[q][n] \in N \union {Sentinel}
      /\ \A n \in N, q \in Sides : \A m \in Below(h, sub, q, n) : m \in N /\ Before(q, m[2], n[2])
      /\ \A n \in N, q \in Sides :
           sub[n] = {n} \union Below(h, sub, q, n) \union Below(h, sub, Other(q), n)
  BY ONLY <1>1 DEF ShapeParts
<1>3. PICK C \in Nat : C = Cardinality(Keys(t))
  BY <1>2, NodesFew
<1>4. PICK f : /\ f[0] = {h.root[t]} \ {Sentinel}
               /\ \A i \in 1 .. C : f[i] = Visited(h, f[i - 1])
               /\ Freed(t) = f[C]
  BY <1>3, FreedTurns
<1>5. \A n \in N : /\ IsFiniteSet(Above(N, sub, n)) /\ Cardinality(Above(N, sub, n)) \in Nat
                   /\ Cardinality(Above(N, sub, n)) <= C /\ n \in Above(N, sub, n)
  <2> SUFFICES ASSUME NEW n \in N
               PROVE  /\ IsFiniteSet(Above(N, sub, n)) /\ Cardinality(Above(N, sub, n)) \in Nat
                      /\ Cardinality(Above(N, sub, n)) <= C /\ n \in Above(N, sub, n)
    OBVIOUS
  <2>1. Above(N, sub, n) \subseteq Own(t) /\ n \in Above(N, sub, n)
    BY <1>2 DEF Above
  <2> QED BY <1>3, <2>1, NodesFew
<1>6. ASSUME NEW n \in N, n # h.root[t]
      PROVE  \E m \in N, q \in Sides : /\ h.child[q][m] = n
                                       /\ Cardinality(Above(N, sub, m)) <= Cardinality(Above(N, sub, n)) - 1
  <2>1. PICK m \in N, q \in Sides : h.child[q][m] = n
    BY <1>6 DEF Shape, Linked
  <2>2. n \in Below(h, sub, q, m) /\ Below(h, sub, q, m) = sub[n]
    BY <1>2, <2>1 DEF Below
  <2>3. n \in sub[m] /\ m \notin sub[n]
    <3>1. ~Before(q, m[2], m[2])
      BY <1>2, BeforeOrder
    <3> QED BY <1>2, <2>2, <3>1
  <2>4. Above(N, sub, m) \subseteq Above(N, sub, n) \ {n}
    BY <1>2, <2>3 DEF Above
  <2>5. /\ IsFiniteSet(Above(N, sub, n) \ {n})
        /\ Cardinality(Above(N, sub, n) \ {n}) = Cardinality(Above(N, sub, n)) - 1
    BY <1>5, FS_RemoveElement
  <2>6. Cardinality(Above(N, sub, m)) <= Cardinality(Above(N, sub, n) \ {n})
    BY <2>4, <2>5, FS_Subset
  <2> QED BY <2>1, <2>5, <2>6
<1> DEFINE Good(i) == /\ f[i] \subseteq N /\ (N # {} => h.root[t] \in f[i])
                      /\ \A n \in N : Cardinality(Above(N, sub, n)) <= i => n \in f[i]
<1>7. Good(0)
  <2>1. f[0] \subseteq N /\ (N # {} => h.root[t] \in f[0])
    BY <1>2, <1>4 DEF Shape, Rooted
  <2>2. \A n \in N : ~(Cardinality(Above(N, sub, n)) <= 0)
    <3> SUFFICES ASSUME NEW n \in N, Cardinality(Above(N, sub, n)) <= 0 PROVE FALSE
      OBVIOUS
    <3>1. Cardinality(Above(N, sub, n)) = 0
      BY <1>5
    <3>2. Above(N, sub, n) = {}
      BY <1>5, <3>1, FS_EmptySet
    <3> QED BY <1>5, <3>2
  <2> QED BY <2>1, <2>2
<1>8. ASSUME NEW i \in 1 .. C, Good(i - 1) PROVE Good(i)
  <2>1. f[i] = f[i - 1] \union ({h.child[s][n] : s \in Sides, n \in f[i - 1]} \ {Sentinel})
    BY <1>4 DEF Visited
  <2>2. f[i - 1] \subseteq N /\ (N # {} => h.root[t] \in f[i - 1])
    BY <1>8
  <2>3. f[i] \subseteq N
    BY <1>2, <2>1, <2>2
  <2>4. ASSUME NEW n \in N, Cardinality(Above(N, sub, n)) <= i PROVE n \in f[i]
    <3>1. CASE n = h.root[t]
      BY <2>1, <2>2, <3>1
    <3>2. CASE n # h.root[t]
      <4>1. PICK m \in N, q \in Sides : /\ h.child[q][m] = n
                                        /\ Cardinality(Above(N, sub, m)) <= Cardinality(Above(N, sub, n)) - 1
        BY <1>6, <3>2
      <4>2. Cardinality(Above(N, sub, m)) <= i - 1
        BY <1>5, <2>4, <4>1
      <4>3. m \in f[i - 1]
        BY <1>8, <4>2
      <4> QED BY <1>2, <2>1, <4>1, <4>3
    <3> QED BY <3>1, <3>2
  <2> QED BY <2>1, <2>2, <2>3, <2>4
<1>9. Good(C)
  <2> HIDE DEF Good
  <2>1. SUFFICES ASSUME ~Good(C) PROVE FALSE
    OBVIOUS
  <2>2. PICK m \in {i \in 0 .. C : ~Good(i)} : \A i \in {i \in 0 .. C : ~Good(i)} : m <= i
    <3>1. {i \in 0 .. C : ~Good(i)} \in SUBSET Nat /\ {i \in 0 .. C : ~Good(i)} # {}
      BY <2>1
    <3> QED BY <3>1, LeastMember
  <2>3. m \in 1 .. C /\ m - 1 \in 0 .. C
    BY <1>7, <2>2
  <2>4. Good(m - 1)
    BY <2>2, <2>3
  <2> QED BY <1>8, <2>2, <2>3, <2>4
<1>10. f[C] \subseteq N /\ \A n \in N : Cardinality(Above(N, sub, n)) <= C => n \in f[C]
  BY <1>9
<1> QED BY <1>4, <1>5, <1>10
-----------------------------------------------------------------------------
LEMMA EmptyBalanced ==
  ASSUME NEW g, NEW t \in Trees, g.root[t] = Sentinel, NEW E
  PROVE  Balanced(g, t, {}, E)
<1>1. PICK v, B : v = [n \in Nodes |-> {}] /\ B = [c \in Cells |-> 1]
  OBVIOUS
<1>2. Shape(g, t, {}, v)
  BY <1>1 DEF Shape, Rooted
<1>3. Heights(g, g.color, {}, B)
  BY <1>1, NodesApart DEF Heights
<1> QED BY <1>2, <1>3 DEF Balanced, Reds

(* What is left of the cells of a tree that is freed.                       *)
LEMMA ClearedEffect ==
  ASSUME h \in Links, NEW t \in Trees, Freed(t) \subseteq Own(t)
  PROVE  /\ Cleared(t) \in Links /\ Cleared(t).root[t] = Sentinel
         /\ Untouched(h, Cleared(t), t)
         /\ [Cleared(t) EXCEPT !.root[t] = Null] \in Links
         /\ Untouched(h, [Cleared(t) EXCEPT !.root[t] = Null], t)
<1>1. PICK N : N = Freed(t) /\ N \subseteq Own(t)
  OBVIOUS
<1>2. PICK R, C, P, K :
        /\ h = [root |-> R, child |-> C, parent |-> P, color |-> K]
        /\ R \in [Trees -> Cells \union {Null}]
        /\ C \in [Sides -> [Cells -> Cells \union {Null}]]
        /\ P \in [Cells -> Nodes \union {Null}]
        /\ K \in [Cells -> {"red", "black"}]
  BY LinksFields
<1>3. PICK cc : cc = [s \in Sides |-> [n \in Cells |-> IF n \in N THEN Null ELSE C[s][n]]]
  OBVIOUS
<1>4. PICK pp : pp = [n \in Cells |-> IF n \in N THEN Null ELSE P[n]]
  OBVIOUS
<1>5. PICK kk : kk = [n \in Cells |-> IF n \in N THEN "red" ELSE K[n]]
  OBVIOUS
<1>6. PICK rr, ro : rr = [R EXCEPT ![t] = Sentinel] /\ ro = [R EXCEPT ![t] = Null]
  OBVIOUS
<1>7. PICK g : g = [h EXCEPT !.root[t] = Sentinel, !.child = cc, !.parent = pp, !.color = kk]
  OBVIOUS
<1>8. Cleared(t) = g
  <2>1. h.child = C /\ h.parent = P /\ h.color = K
    BY ONLY <1>2
  <2>2. Cleared(t) = [h EXCEPT !.root[t] = Sentinel,
            !.child = [s \in Sides |-> [n \in Cells |-> IF n \in N THEN Null ELSE h.child[s][n]]],
            !.parent = [n \in Cells |-> IF n \in N THEN Null ELSE h.parent[n]],
            !.color = [n \in Cells |-> IF n \in N THEN "red" ELSE h.color[n]]]
    BY ONLY <1>1 DEF Cleared
  <2> QED BY ONLY <1>3, <1>4, <1>5, <1>7, <2>1, <2>2
<1>9. g = [root |-> rr, child |-> cc, parent |-> pp, color |-> kk]
  BY ONLY <1>2, <1>6, <1>7
<1>10. [g EXCEPT !.root[t] = Null] = [root |-> ro, child |-> cc, parent |-> pp, color |-> kk]
  <2>1. [rr EXCEPT ![t] = Null] = ro
    BY ONLY <1>2, <1>6
  <2>2. [g EXCEPT !.root[t] = Null] = [root |-> [rr EXCEPT ![t] = Null], child |-> cc, parent |-> pp, color |-> kk]
    BY ONLY <1>9
  <2> QED BY ONLY <2>1, <2>2
<1>11. /\ rr \in [Trees -> Cells \union {Null}] /\ ro \in [Trees -> Cells \union {Null}]
       /\ rr[t] = Sentinel /\ \A u \in Trees : u # t => rr[u] = R[u] /\ ro[u] = R[u]
  BY <1>2, <1>6 DEF Cells
<1>12. /\ cc \in [Sides -> [Cells -> Cells \union {Null}]]
       /\ pp \in [Cells -> Nodes \union {Null}]
       /\ kk \in [Cells -> {"red", "black"}]
       /\ \A n \in Cells : n \notin N => pp[n] = P[n] /\ kk[n] = K[n] /\ \A s \in Sides : cc[s][n] = C[s][n]
  BY <1>2, <1>3, <1>4, <1>5
<1>13. PICK e : e = [g EXCEPT !.root[t] = Null]
  OBVIOUS
<1>14. g \in Links /\ e \in Links
  BY ONLY <1>9, <1>10, <1>11, <1>12, <1>13 DEF Links
<1>15. /\ g.root = rr /\ g.child = cc /\ g.parent = pp /\ g.color = kk
       /\ e.root = ro /\ e.child = cc /\ e.parent = pp /\ e.color = kk
       /\ h.root = R /\ h.child = C /\ h.parent = P /\ h.color = K
  BY ONLY <1>2, <1>9, <1>10, <1>13
<1>16. Untouched(h, g, t) /\ Untouched(h, e, t)
  BY ONLY <1>1, <1>11, <1>12, <1>15 DEF Untouched
<1> QED BY ONLY <1>8, <1>11, <1>13, <1>14, <1>15, <1>16

(* Clear and Release leave a tree without nodes.                            *)
LEMMA GoneKeeps ==
  ASSUME IInv, NEW t \in Trees, Ready(t), heap' = heap \ Freed(t),
         size' = [size EXCEPT ![t] = 0], given' = [given EXCEPT ![t] = {}], op' = op,
         \/ h' = Cleared(t) /\ live' = live
         \/ h' = [Cleared(t) EXCEPT !.root[t] = Null] /\ live' = live \ {t}
  PROVE  IInv'
<1>1. /\ t \in live /\ op[t] = Idle /\ Known(t) /\ h \in Links /\ Typed
      /\ Balanced(h, t, NodesOf(t), {})
  BY IdleFacts
<1>2. NodesOf(t) \subseteq Own(t)
  BY OwnApart
<1>3. Freed(t) = NodesOf(t)
  <2>1. PICK sub : Shape(h, t, NodesOf(t), sub)
    BY <1>1 DEF Balanced
  <2> QED BY <2>1, FreedAll
<1>4. /\ Cleared(t) \in Links /\ Cleared(t).root[t] = Sentinel
      /\ Untouched(h, Cleared(t), t)
      /\ [Cleared(t) EXCEPT !.root[t] = Null] \in Links
      /\ Untouched(h, [Cleared(t) EXCEPT !.root[t] = Null], t)
  BY <1>1, <1>2, <1>3, ClearedEffect
<1>5. h' \in Links /\ Untouched(h, h', t)
  BY ONLY <1>4, \/ h' = Cleared(t) /\ live' = live
                \/ h' = [Cleared(t) EXCEPT !.root[t] = Null] /\ live' = live \ {t}
<1>6. NodesOf(t)' = {} /\ heap' \ Own(t) = heap \ Own(t)
  BY <1>2, <1>3 DEF NodesOf
<1>7. /\ size' \in [Trees -> Nat] /\ size'[t] = 0 /\ \A u \in Trees : u # t => size'[u] = size[u]
  BY <1>1 DEF Typed
<1>8. /\ given' \in [Trees -> SUBSET UNION {Keys(u) : u \in Trees}]
      /\ given'[t] = {} /\ \A u \in Trees : u # t => given'[u] = given[u]
  BY <1>1 DEF Typed
<1>9. Typed'
  <2>1. \A u \in Trees : size'[u] \in 0 .. Cardinality(Keys(u))
    <3>1. Cardinality(Keys(t)) \in Nat
      BY <1>2, NodesFew
    <3> QED BY <1>1, <1>7, <3>1 DEF Typed, TypeOK
  <2>2. heap' \subseteq Nodes /\ live' \subseteq Trees
    BY <1>1 DEF Typed, TypeOK
  <2> QED BY <1>1, <1>5, <1>7, <1>8, <2>1, <2>2 DEF Typed, TypeOK
<1>10. ~Fixing(t)'
  BY <1>1 DEF Fixing, Idle
<1>11. Known(t)'
  <2>1. Cardinality({}) = 0
    BY FS_EmptySet
  <2> QED BY <1>6, <1>7, <1>8, <1>10, <2>1 DEF Known
<1>12. t \in live' => Balanced(h, t, NodesOf(t), Excepted(t))'
  <2>1. t \in live' => h' = Cleared(t)
    OBVIOUS
  <2> QED BY <1>4, <1>6, <2>1, EmptyBalanced
<1>13. Elsewhere(t)
  BY <1>5, <1>6, <1>7, <1>8 DEF Elsewhere
<1> QED BY <1>1, <1>9, <1>11, <1>12, <1>13, StepKeeps

LEMMA ClearKeeps ==
  ASSUME IInv, NEW t \in Trees, Clear(t)
  PROVE  IInv'
BY GoneKeeps DEF Clear

LEMMA ReleaseKeeps ==
  ASSUME IInv, NEW t \in Trees, Release(t)
  PROVE  IInv'
BY GoneKeeps DEF Release

(* The first tree sets the sentinel up; another finds it as it was.         *)
LEMMA NewKeeps ==
  ASSUME IInv, NEW t \in Trees, New(t)
  PROVE  IInv'
<1>1. h \in Links /\ Typed /\ Kept /\ Known(t) /\ t \notin live
  BY DEF IInv, Typed, TypeOK, New
<1>2. NodesOf(t) = {} /\ given[t] = {} /\ ~Fixing(t)
  BY <1>1 DEF Known
<1>3. PICK R, C, P, K :
        /\ h = [root |-> R, child |-> C, parent |-> P, color |-> K]
        /\ R \in [Trees -> Cells \union {Null}]
        /\ C \in [Sides -> [Cells -> Cells \union {Null}]]
        /\ P \in [Cells -> Nodes \union {Null}]
        /\ K \in [Cells -> {"red", "black"}]
  BY <1>1, LinksFields
<1> DEFINE rr == [R EXCEPT ![t] = Sentinel]
           kk == [K EXCEPT ![Sentinel] = "black"]
           ca == [C EXCEPT !["left"][Sentinel] = Null]
           cb == [ca EXCEPT !["right"][Sentinel] = Null]
           ga == [h EXCEPT !.root[t] = Sentinel]
           gb == [ga EXCEPT !.color[Sentinel] = "black"]
           gc == [gb EXCEPT !.child["left"][Sentinel] = Null]
           gd == [gc EXCEPT !.child["right"][Sentinel] = Null]
<1>4. h' = gd
  BY DEF New
<1>5. /\ rr \in [Trees -> Cells \union {Null}]
      /\ rr[t] = Sentinel /\ \A u \in Trees : u # t => rr[u] = R[u]
  BY <1>3 DEF Cells
<1>6. /\ kk \in [Cells -> {"red", "black"}]
      /\ \A n \in Cells : kk[n] = IF n = Sentinel THEN "black" ELSE K[n]
  BY <1>3
<1>7. /\ cb \in [Sides -> [Cells -> Cells \union {Null}]]
      /\ \A s \in Sides, n \in Cells : cb[s][n] = IF n = Sentinel THEN Null ELSE C[s][n]
  BY <1>3 DEF Sides
<1>8. ga = [root |-> rr, child |-> C, parent |-> P, color |-> K]
  <2>1. h = [root |-> R, child |-> C, parent |-> P, color |-> K]
    BY <1>3
  <2> QED BY ONLY <2>1
<1> HIDE DEF ga, rr
<1>9. gb = [root |-> rr, child |-> C, parent |-> P, color |-> kk]
  BY ONLY <1>8
<1> HIDE DEF gb, kk
<1>10. gc = [root |-> rr, child |-> ca, parent |-> P, color |-> kk]
  BY ONLY <1>9
<1> HIDE DEF gc, ca
<1>11. gd = [root |-> rr, child |-> cb, parent |-> P, color |-> kk]
  BY ONLY <1>10
<1> HIDE DEF gd, cb
<1>12. /\ h' \in Links
       /\ h'.root = rr /\ h'.child = cb /\ h'.parent = P /\ h'.color = kk
       /\ h.root = R /\ h.child = C /\ h.parent = P /\ h.color = K
  BY ONLY <1>3, <1>4, <1>5, <1>6, <1>7, <1>11 DEF Links
<1>13. /\ live' = live \union {t} /\ size' = [size EXCEPT ![t] = 0] /\ heap' = heap
       /\ op' = op /\ given' = given
  BY DEF New
<1>14. /\ size' \in [Trees -> Nat] /\ size'[t] = 0 /\ \A u \in Trees : u # t => size'[u] = size[u]
  BY <1>1, <1>13 DEF Typed
<1>15. Typed'
  <2>1. \A u \in Trees : size'[u] \in 0 .. Cardinality(Keys(u))
    <3>1. Cardinality(Keys(t)) \in Nat
      BY <1>2, NodesFew
    <3> QED BY <1>1, <1>14, <3>1 DEF Typed, TypeOK
  <2> QED BY <1>1, <1>12, <1>13, <1>14, <2>1 DEF Typed, TypeOK
<1>16. Kept'
  BY <1>1, <1>6, <1>7, <1>12, NodesApart DEF Kept
<1>17. Known(t)'
  <2>1. NodesOf(t)' = {} /\ ~Fixing(t)'
    BY <1>2, <1>13 DEF NodesOf, Fixing
  <2>2. Cardinality({}) = 0
    BY FS_EmptySet
  <2> QED BY <1>2, <1>13, <1>14, <2>1, <2>2 DEF Known
<1>18. Balanced(h, t, NodesOf(t), Excepted(t))'
  <2>1. NodesOf(t)' = {} /\ h'.root[t] = Sentinel
    BY <1>2, <1>5, <1>12, <1>13 DEF NodesOf
  <2> QED BY <2>1, EmptyBalanced
<1>19. ASSUME NEW u \in Trees, u # t
       PROVE  Known(u)' /\ (u \in live' => Balanced(h, u, NodesOf(u), Excepted(u))')
  <2>1. CASE live = {}
    <3>1. Known(u) /\ u \notin live /\ u \notin live'
      BY <1>13, <1>19, <2>1 DEF IInv
    <3>2. NodesOf(u)' = NodesOf(u) /\ (Fixing(u)' <=> Fixing(u))
      BY <1>13 DEF NodesOf, Fixing
    <3> QED BY <1>13, <1>14, <1>19, <3>1, <3>2 DEF Known
  <2>2. CASE live # {}
    <3>1. K[Sentinel] = "black" /\ \A s \in Sides : C[s][Sentinel] = Null
      BY <1>1, <1>12, <2>2 DEF Kept
    <3>2. Untouched(h, h', t)
      BY ONLY <1>5, <1>6, <1>7, <1>12, <3>1 DEF Untouched
    <3>3. Elsewhere(t)
      BY <1>13, <1>14, <3>2 DEF Elsewhere
    <3> QED BY <1>19, <3>3, OthersKept
  <2> QED BY <2>1, <2>2
<1> QED BY <1>15, <1>16, <1>17, <1>18, <1>19 DEF IInv
-----------------------------------------------------------------------------
LEMMA InitIInv == Init => IInv
<1> SUFFICES ASSUME Init PROVE IInv
  OBVIOUS
<1>1. h \in Links
  <2>1. PICK R, C, P, K :
          /\ R = [t \in Trees |-> Null] /\ C = [s \in Sides |-> [n \in Cells |-> Null]]
          /\ P = [n \in Cells |-> Null] /\ K = [n \in Cells |-> "red"]
    OBVIOUS
  <2>2. h = [root |-> R, child |-> C, parent |-> P, color |-> K]
    BY ONLY <2>1, Init DEF Init
  <2>3. /\ R \in [Trees -> Cells \union {Null}]
        /\ C \in [Sides -> [Cells -> Cells \union {Null}]]
        /\ P \in [Cells -> Nodes \union {Null}]
        /\ K \in [Cells -> {"red", "black"}]
    BY ONLY <2>1
  <2> QED BY ONLY <2>2, <2>3 DEF Links
<1>2. \A t \in Trees : Cardinality(Keys(t)) \in Nat
  BY KeysAssumption, FS_CardinalityType
<1>3. /\ live = {} /\ size = [t \in Trees |-> 0] /\ heap = {} /\ given = [t \in Trees |-> {}]
      /\ op \in [Trees -> [do : {"none", "fix", "loops", "faults"}, z : Nodes \union {Null}]]
      /\ \A t \in Trees : op[t].do = "none"
  BY DEF Init, Idle
<1>4. Typed
  BY <1>1, <1>2, <1>3 DEF Typed, TypeOK
<1>5. Kept
  <2>1. Sentinel \in Cells
    BY NodesApart DEF Cells
  <2> QED BY <1>3, <2>1 DEF Kept, Init
<1>6. ASSUME NEW t \in Trees PROVE Known(t)
  <2>1. NodesOf(t) = {} /\ Cardinality({}) = 0 /\ ~Fixing(t)
    BY <1>3, FS_EmptySet DEF NodesOf, Fixing
  <2> QED BY <1>3, <2>1 DEF Known
<1> QED BY <1>3, <1>4, <1>5, <1>6 DEF IInv

LEMMA NextIInv == IInv /\ [Next]_vars => IInv'
<1> SUFFICES ASSUME IInv, [Next]_vars PROVE IInv'
  OBVIOUS
<1>1. CASE UNCHANGED vars
  BY <1>1 DEF vars, IInv, Typed, TypeOK, Kept, Known, NodesOf, Fixing, Excepted
<1>2. CASE \E t \in Trees : Step(t)
  <2>1. PICK t \in Trees : Step(t)
    BY <1>2
  <2>2. CASE New(t)
    BY <2>2, NewKeeps
  <2>3. CASE Clear(t)
    BY <2>3, ClearKeeps
  <2>4. CASE Release(t)
    BY <2>4, ReleaseKeeps
  <2>5. CASE \E k \in Keys(t) : Insert(t, k)
    BY <2>5, InsertKeeps
  <2>6. CASE \E k \in Keys(t) : InsertDupe(t, k)
    BY <2>6, InsertDupeKeeps
  <2>7. CASE \E k \in Keys(t) : Delete(t, k)
    BY <2>7, DeleteKeeps
  <2>8. CASE Recolor(t)
    BY <2>8, RecolorKeeps
  <2>9. CASE Restructure(t)
    BY <2>9, RestructureKeeps
  <2>10. CASE FixupEnd(t)
    BY <2>10, FixupEndKeeps
  <2>11. CASE DeleteTurn(t)
    BY <1>1, <2>11 DEF DeleteTurn
  <2> QED BY <2>1, <2>2, <2>3, <2>4, <2>5, <2>6, <2>7, <2>8, <2>9, <2>10, <2>11 DEF Step
<1> QED BY <1>1, <1>2 DEF Next

(* The invariant of all trees: their links, colours, nodes and keys.        *)
THEOREM TreesInvariant == Spec => []IInv
<1> QED BY InitIInv, NextIInv, PTL DEF Spec

(* Every field keeps its type and no tree outgrows its keys, whatever the   *)
(* operations of mbox-redblacktree.c that are called.                       *)
THEOREM TypesHold == Spec => []TypeOK
<1>1. IInv => TypeOK
  BY DEF IInv, Typed
<1> QED BY <1>1, TreesInvariant, PTL

(* No step of any thread changes RB_SENTINAL while a tree exists.           *)
THEOREM SentinelIsKept == Spec => []SentinelKept
<1>1. IInv => SentinelKept
  BY DEF IInv, Kept, SentinelKept
<1> QED BY <1>1, TreesInvariant, PTL


LEMMA KeyEqualsItself ==
  ASSUME NEW t \in Trees, NEW a \in Keys(t), NEW b \in Keys(t), NEW s \in Sides
  PROVE  Cmp(a, a) = 0 /\ (Cmp(a, b) = 0 => ~Before(s, a, b))
<1>1. /\ Cmp(a, a) \in Int /\ Cmp(a, b) \in Int /\ Cmp(b, a) \in Int
      /\ Cmp(a, a) < 0 <=> Cmp(a, a) > 0
      /\ Cmp(a, b) < 0 <=> Cmp(b, a) > 0
      /\ Cmp(b, a) < 0 <=> Cmp(a, b) > 0
  BY CmpAssumption
<1> QED BY ONLY <1>1 DEF Before

LEMMA InvFindsAll == IInv => FindsAll
<1> SUFFICES ASSUME IInv, NEW t \in live
             PROVE  /\ \A k \in Keys(t) :
                         LET equal == {n \in NodesOf(t) : Cmp(k, n[2]) = 0}
                         IN  Search(t, k).at \in IF equal = {} THEN {Sentinel} ELSE equal
                    /\ \A k \in given[t] : Search(t, k).at # Sentinel
                    /\ \A n \in NodesOf(t) :
                         n[2] \in given[t] /\ Search(t, n[2]) = [at |-> n, above |-> h.parent[n]]
                    /\ size[t] = Cardinality(NodesOf(t))
  BY DEF IInv, Typed, FindsAll
<1>1. t \in Trees /\ Known(t) /\ Balanced(h, t, NodesOf(t), Excepted(t))
  BY DEF IInv, Typed, TypeOK
<1>2. PICK N : N = NodesOf(t)
  OBVIOUS
<1>3. PICK sub : Shape(h, t, N, sub)
  BY <1>1, <1>2 DEF Balanced
<1>4. ShapeParts(h, t, N, sub)
  BY <1>1, <1>3, ShapeFacts
<1>5. Sentinel \notin N /\ \A n \in N : n[2] \in Keys(t) /\ sub[n] \subseteq N
  BY ONLY <1>4 DEF ShapeParts
<1>6. ASSUME NEW k \in Keys(t)
      PROVE  /\ OnPath(h, t, N, sub, k, Search(t, k))
             /\ Search(t, k).at # Sentinel => Cmp(k, Search(t, k).at[2]) = 0
  BY <1>1, <1>3, SearchFinds
<1>7. \A k \in Keys(t) :
        /\ Search(t, k).at \in N \union {Sentinel}
        /\ Search(t, k).at \in N => Cmp(k, Search(t, k).at[2]) = 0
        /\ \A m \in N : Cmp(k, m[2]) = 0 => Search(t, k).at \in N
  BY <1>5, <1>6 DEF OnPath
<1>8. ASSUME NEW k \in Keys(t)
      PROVE  LET equal == {n \in NodesOf(t) : Cmp(k, n[2]) = 0}
             IN  Search(t, k).at \in IF equal = {} THEN {Sentinel} ELSE equal
  BY <1>2, <1>7
<1>9. ASSUME NEW k \in given[t]
      PROVE  Search(t, k).at # Sentinel
  BY <1>1, <1>2, <1>5, <1>7 DEF Known
<1>10. ASSUME NEW n \in N
       PROVE  Search(t, n[2]) = [at |-> n, above |-> h.parent[n]]
  <2>1. PICK c : c = Search(t, n[2])
    OBVIOUS
  <2>2. Cmp(n[2], n[2]) = 0 /\ n[2] \in Keys(t)
    <3>1. n[2] \in Keys(t) /\ "left" \in Sides
      BY <1>5 DEF Sides
    <3> QED BY <1>1, <3>1, KeyEqualsItself
  <2>3. OnPath(h, t, N, sub, n[2], c)
    BY <1>6, <2>1, <2>2
  <2>4. c.at \in N /\ n \in sub[c.at] /\ Cmp(n[2], c.at[2]) = 0
    BY <1>7, <2>1, <2>2, <2>3 DEF OnPath
  <2>5. c.at = n
    <3> SUFFICES ASSUME c.at # n PROVE FALSE
      OBVIOUS
    <3>1. PICK q \in Sides : q = "left"
      BY DEF Sides
    <3>2. sub[c.at] = {c.at} \union Below(h, sub, q, c.at) \union Below(h, sub, Other(q), c.at)
      BY ONLY <1>4, <2>4, q \in Sides DEF ShapeParts
    <3>3. PICK s \in Sides : n \in Below(h, sub, s, c.at)
      BY <2>4, <3>2, SidesTwo
    <3>4. Before(s, n[2], c.at[2])
      BY ONLY <1>4, <2>4, <3>3, s \in Sides DEF ShapeParts
    <3> QED BY <1>1, <1>5, <2>4, <3>4, KeyEqualsItself
  <2> QED BY <1>5, <2>1, <2>3, <2>5 DEF OnPath
<1>11. /\ \A n \in N : n[2] \in given[t]
       /\ size[t] = Cardinality(N)
  BY <1>1, <1>2 DEF Known
<1> QED BY ONLY <1>2, <1>8, <1>9, <1>10, <1>11

(* mboxRBTreeFind finds each name inserted, even between the turns of a     *)
(* fix-up: what it stops at compares equal, and no node is lost.            *)
THEOREM SearchFindsAll == Spec => []FindsAll
<1> QED BY InvFindsAll, TreesInvariant, PTL
-----------------------------------------------------------------------------
(* One level of BlackHeight.                                                *)
HeightAt(g, d, b) ==
  [c \in Cells \union {Null} |->
     IF c = Sentinel THEN 1
     ELSE IF d = 0 \/ c = Null THEN 0
     ELSE LET l == b[g.child["left"][c]]
              r == b[g.child["right"][c]]
          IN  IF l # r \/ l = 0 THEN 0 ELSE IF g.color[c] = "black" THEN l + 1 ELSE l]

LEMMA HeightTurns ==
  ASSUME h \in Links, NEW t \in Trees, NEW n, NEW C \in Nat, C = Cardinality(Keys(t))
  PROVE  \E f : /\ f[0][Sentinel] = 1
                /\ \A i \in 1 .. C : f[i] = HeightAt(h, i, f[i - 1])
                /\ BlackHeight(t, n) = f[C][n]
<1>1. PICK S : S = [Cells \union {Null} -> Nat]
  OBVIOUS
<1>2. PICK a : a = HeightAt(h, 0, h)
  OBVIOUS
<1>3. a \in S /\ \A b : HeightAt(h, 0, b) = a
  <2>1. \A b : HeightAt(h, 0, b) = [c \in Cells \union {Null} |-> IF c = Sentinel THEN 1 ELSE 0]
    BY DEF HeightAt
  <2> QED BY <1>1, <1>2, <2>1
<1>4. \A i \in Nat \ {0} : \A b : HeightAt(h, i, b) = HeightAt(h, 1, b)
  BY DEF HeightAt
<1>5. ASSUME NEW b \in S PROVE HeightAt(h, 1, b) \in S
  <2>1. /\ h.child \in [Sides -> [Cells -> Cells \union {Null}]]
    BY LinksFields
  <2>2. \A c \in Cells : b[h.child["left"][c]] \in Nat /\ b[h.child["right"][c]] \in Nat
    BY <1>1, <2>1 DEF Sides
  <2>3. \A c \in Cells \union {Null} :
          (IF c = Sentinel THEN 1
           ELSE IF 1 = 0 \/ c = Null THEN 0
           ELSE LET l == b[h.child["left"][c]]
                    r == b[h.child["right"][c]]
                IN  IF l # r \/ l = 0 THEN 0 ELSE IF h.color[c] = "black" THEN l + 1 ELSE l) \in Nat
    BY <2>2
  <2> QED BY ONLY <1>1, <2>3 DEF HeightAt
<1>6. PICK F : F = [b \in S |-> HeightAt(h, 1, b)]
  OBVIOUS
<1>7. F \in [S -> S]
  BY ONLY <1>5, <1>6
<1>8. PICK g \in [0 .. C -> S] : g[0] = a /\ \A i \in 1 .. C : g[i] = F[g[i - 1]]
  <2>1. Runs(S, F, a, C)
    BY <1>3, <1>7, Unrolled
  <2> QED BY ONLY <2>1 DEF Runs
<1>9. g = [d \in 0 .. C |-> HeightAt(h, d, g[d - 1])]
  <2>1. \A d \in 0 .. C : g[d] = HeightAt(h, d, g[d - 1])
    <3> SUFFICES ASSUME NEW d \in 0 .. C PROVE g[d] = HeightAt(h, d, g[d - 1])
      OBVIOUS
    <3>1. CASE d = 0
      BY <1>3, <1>8, <3>1
    <3>2. CASE d # 0
      <4>1. d \in 1 .. C /\ d - 1 \in 0 .. C /\ d \in Nat \ {0}
        BY <3>2
      <4>2. g[d - 1] \in S /\ g[d] = F[g[d - 1]]
        BY ONLY <1>8, <4>1
      <4>3. F[g[d - 1]] = HeightAt(h, 1, g[d - 1])
        BY ONLY <1>6, <4>2
      <4>4. HeightAt(h, d, g[d - 1]) = HeightAt(h, 1, g[d - 1])
        BY ONLY <1>4, <4>1
      <4> QED BY ONLY <4>2, <4>3, <4>4
    <3> QED BY <3>1, <3>2
  <2> QED BY ONLY <1>8, <2>1
<1>10. BlackHeight(t, n) = (CHOOSE bh : bh = [d \in 0 .. C |-> HeightAt(h, d, bh[d - 1])])[C][n]
  BY ONLY C = Cardinality(Keys(t)) DEF BlackHeight, HeightAt
<1>11. PICK f : f = (CHOOSE bh : bh = [d \in 0 .. C |-> HeightAt(h, d, bh[d - 1])])
  OBVIOUS
<1>12. f = [d \in 0 .. C |-> HeightAt(h, d, f[d - 1])]
  BY ONLY <1>9, <1>11
<1>13. /\ f[0][Sentinel] = 1
       /\ \A i \in 1 .. C : f[i] = HeightAt(h, i, f[i - 1])
  <2>1. 0 \in 0 .. C /\ \A i \in 1 .. C : i \in 0 .. C
    OBVIOUS
  <2>2. \A d \in 0 .. C : f[d] = HeightAt(h, d, f[d - 1])
    BY ONLY <1>12
  <2>3. f[0] = HeightAt(h, 0, f[0 - 1])
    BY ONLY <2>1, <2>2
  <2>4. f[0][Sentinel] = 1
    BY ONLY <2>3 DEF HeightAt, Cells
  <2> QED BY ONLY <2>1, <2>2, <2>4
<1> QED BY ONLY <1>10, <1>11, <1>13


(* The black nodes on each path down from a node, counted.                  *)
LEMMA HeightCounted ==
  ASSUME h \in Links, NEW t \in Trees, NEW N, NEW sub, Shape(h, t, N, sub),
         NEW B, Heights(h, h.color, N, B), NEW n \in N \union {Sentinel}
  PROVE  BlackHeight(t, n) = B[n]
<1>1. ShapeParts(h, t, N, sub)
  BY ShapeFacts
<1>2. /\ N \subseteq Own(t) /\ Sentinel \notin N /\ Null \notin N
      /\ \A m \in N : m \in sub[m] /\ sub[m] \subseteq N /\ m \in Cells /\ m[2] \in Keys(t)
      /\ \A m \in N, q \in Sides : h.child[q][m] \in N \union {Sentinel}
      /\ \A m \in N, q \in Sides : \A l \in Below(h, sub, q, m) : l \in N /\ Before(q, l[2], m[2])
      /\ \A m \in N, q \in Sides :
           sub[m] = {m} \union Below(h, sub, q, m) \union Below(h, sub, Other(q), m)
  BY ONLY <1>1 DEF ShapeParts
<1>3. PICK C \in Nat : C = Cardinality(Keys(t))
  BY <1>2, NodesFew
<1>4. PICK f : /\ f[0][Sentinel] = 1
               /\ \A i \in 1 .. C : f[i] = HeightAt(h, i, f[i - 1])
               /\ BlackHeight(t, n) = f[C][n]
  BY <1>3, HeightTurns
<1>5. \A m \in N : /\ IsFiniteSet(sub[m]) /\ Cardinality(sub[m]) \in Nat /\ Cardinality(sub[m]) <= C
  BY <1>2, <1>3, NodesFew
<1>6. /\ B \in [Cells -> Nat \ {0}] /\ B[Sentinel] = 1
      /\ \A m \in N, q \in Sides :
           B[m] = IF h.color[m] = "black" THEN B[h.child[q][m]] + 1 ELSE B[h.child[q][m]]
  BY DEF Heights
<1>7. ASSUME NEW m \in N, NEW q \in Sides, h.child[q][m] # Sentinel
      PROVE  /\ h.child[q][m] \in N
             /\ Cardinality(sub[h.child[q][m]]) <= Cardinality(sub[m]) - 1
  <2>1. h.child[q][m] \in N /\ Below(h, sub, q, m) = sub[h.child[q][m]]
    BY <1>2, <1>7 DEF Below
  <2>2. m \notin Below(h, sub, q, m)
    BY <1>2, BeforeOrder
  <2>3. sub[h.child[q][m]] \subseteq sub[m] \ {m}
    BY <1>2, <2>1, <2>2
  <2>4. /\ IsFiniteSet(sub[m] \ {m}) /\ Cardinality(sub[m] \ {m}) = Cardinality(sub[m]) - 1
    BY <1>2, <1>5, FS_RemoveElement
  <2> QED BY <2>1, <2>3, <2>4, FS_Subset
<1> DEFINE Good(i) == /\ f[i][Sentinel] = 1
                      /\ \A m \in N : Cardinality(sub[m]) <= i => f[i][m] = B[m]
<1>8. Good(0)
  <2> SUFFICES ASSUME NEW m \in N, Cardinality(sub[m]) <= 0 PROVE FALSE
    BY <1>4
  <2>1. sub[m] = {}
    <3>1. Cardinality(sub[m]) = 0
      BY ONLY <1>5, Cardinality(sub[m]) <= 0, m \in N
    <3> QED BY <1>5, <3>1, FS_EmptySet
  <2> QED BY <1>2, <2>1
<1>9. ASSUME NEW i \in 1 .. C, Good(i - 1) PROVE Good(i)
  <2>1. PICK b : b = f[i - 1] /\ f[i] = HeightAt(h, i, b)
    BY <1>4
  <2>2. f[i][Sentinel] = 1
    BY ONLY <2>1 DEF HeightAt, Cells
  <2>3. ASSUME NEW m \in N, Cardinality(sub[m]) <= i PROVE f[i][m] = B[m]
    <3>1. ASSUME NEW q \in Sides
          PROVE  b[h.child[q][m]] = B[h.child[q][m]] /\ B[h.child[q][m]] \in Nat \ {0}
      <4>1. CASE h.child[q][m] = Sentinel
        BY <1>6, <1>9, <2>1, <4>1, NodesApart
      <4>2. CASE h.child[q][m] # Sentinel
        <5>1. PICK c \in N : c = h.child[q][m] /\ Cardinality(sub[c]) <= Cardinality(sub[m]) - 1
          BY <1>7, <4>2
        <5>2. Cardinality(sub[c]) <= i - 1
          BY <1>5, <2>3, <5>1
        <5>3. b[c] = B[c]
          BY <1>9, <2>1, <5>2
        <5>4. B[c] \in Nat \ {0}
          BY <1>2, <1>6
        <5> QED BY <5>1, <5>3, <5>4
      <4> QED BY <4>1, <4>2
    <3>2. PICK l, r : l = b[h.child["left"][m]] /\ r = b[h.child["right"][m]]
      OBVIOUS
    <3>3. /\ l \in Nat \ {0} /\ l = B[h.child["left"][m]] /\ r = B[h.child["right"][m]]
          /\ B[m] = IF h.color[m] = "black" THEN l + 1 ELSE l
          /\ B[m] = IF h.color[m] = "black" THEN r + 1 ELSE r
          /\ r \in Nat
      BY <1>6, <3>1, <3>2 DEF Sides
    <3>4. l = r
      BY ONLY <3>3
    <3>5. f[i][m] = IF l # r \/ l = 0 THEN 0 ELSE IF h.color[m] = "black" THEN l + 1 ELSE l
      <4>1. m \in Cells \union {Null} /\ m # Sentinel /\ m # Null /\ i # 0
        BY <1>2
      <4> QED BY ONLY <2>1, <3>2, <4>1 DEF HeightAt
    <3> QED BY ONLY <3>3, <3>4, <3>5
  <2> QED BY <2>2, <2>3
<1>10. Good(C)
  <2> HIDE DEF Good
  <2>1. SUFFICES ASSUME ~Good(C) PROVE FALSE
    OBVIOUS
  <2>2. PICK m \in {i \in 0 .. C : ~Good(i)} : \A i \in {i \in 0 .. C : ~Good(i)} : m <= i
    <3>1. {i \in 0 .. C : ~Good(i)} \in SUBSET Nat /\ {i \in 0 .. C : ~Good(i)} # {}
      BY <2>1
    <3> QED BY <3>1, LeastMember
  <2>3. m \in 1 .. C /\ m - 1 \in 0 .. C
    BY <1>8, <2>2
  <2>4. Good(m - 1)
    BY <2>2, <2>3
  <2> QED BY <1>9, <2>2, <2>3, <2>4
<1>11. f[C][Sentinel] = 1 /\ \A m \in N : Cardinality(sub[m]) <= C => f[C][m] = B[m]
  BY <1>10
<1> QED BY <1>4, <1>5, <1>6, <1>11

LEMMA InvBalanced == IInv => FixupKeepsBalance
<1> SUFFICES ASSUME IInv, NEW t \in live
             PROVE  /\ BlackHeight(t, h.root[t]) # 0
                    /\ \A n \in heap :
                         /\ n[1] = t /\ h.color[n] = "red"
                         /\ h.parent[n] = Null \/ h.color[h.parent[n]] = "red"
                         => Fixing(t) /\ n = op[t].z
  BY DEF FixupKeepsBalance
<1>1. /\ t \in Trees /\ h \in Links /\ Known(t)
      /\ Balanced(h, t, NodesOf(t), Excepted(t))
  BY DEF IInv, Typed, TypeOK
<1>2. PICK N : N = NodesOf(t)
  OBVIOUS
<1>3. PICK sub : Shape(h, t, N, sub)
  BY <1>1, <1>2 DEF Balanced
<1>4. PICK B : Heights(h, h.color, N, B)
  BY <1>1, <1>2 DEF Balanced
<1>5. BlackHeight(t, h.root[t]) # 0
  <2>1. h.root[t] \in N \union {Sentinel}
    BY <1>3 DEF Shape, Rooted
  <2>2. BlackHeight(t, h.root[t]) = B[h.root[t]]
    BY <1>1, <1>3, <1>4, <2>1, HeightCounted
  <2>3. h.root[t] \in Cells
    <3>1. N \subseteq Own(t)
      BY <1>3 DEF Shape
    <3> QED BY <1>1, <2>1, <3>1, NodesApart
  <2> QED BY <1>4, <2>2, <2>3 DEF Heights
<1>6. ASSUME NEW n \in heap, n[1] = t, h.color[n] = "red",
             h.parent[n] = Null \/ h.color[h.parent[n]] = "red"
      PROVE  Fixing(t) /\ n = op[t].z
  <2>1. n \in N
    BY <1>2, <1>6 DEF NodesOf
  <2>2. n \in Excepted(t)
    BY <1>1, <1>2, <1>6, <2>1 DEF Balanced, Reds
  <2> QED BY <2>2 DEF Excepted
<1> QED BY <1>5, <1>6

(* rbInsertFixup keeps the tree balanced at each of its turns, but for the  *)
(* pair of red nodes it is at, and leaves none.                             *)
THEOREM FixupIsBalanced == Spec => []FixupKeepsBalance
<1> QED BY InvBalanced, TreesInvariant, PTL
=============================================================================
