--------------------------- MODULE MboxIndexProofs ---------------------------
(***************************************************************************)
(* The index of a list of messages, for every list, every size of a read   *)
(* and of the buffer of the save, and any number of workers: what a save   *)
(* that was stopped leaves behind, and what a load makes of it.            *)
(***************************************************************************)
EXTENDS MboxIndex, QueueLemmas, SequenceTheorems

(* The messages that may be saved, whose offsets atol gives back.           *)
LEMMA MessageType ==
  ASSUME NEW m \in Messages
  PROVE  /\ m \in [start : Nat, end : Nat] /\ m \in Offsets /\ m.start < m.end
         /\ m.start <= LongMax /\ m.end <= LongMax
         /\ Spelled(<<m.start>>) = m.start /\ Spelled(<<m.end>>) = m.end
<1>1. PICK l \in Lists : m \in ToSet(l)
  BY DEF Messages
<1>2. PICK i \in DOMAIN l : m = l[i]
  BY <1>1 DEF ToSet
<1> DEFINE R == [start : Nat, end : Nat]
<1>3. l \in Seq(R) /\ l[i].start < l[i].end
  BY ListsAssumption
<1>4. m \in R /\ m.start < m.end
  <2> HIDE DEF R
  <2> QED BY <1>2, <1>3
<1>5. \A n \in {m.start, m.end} : n <= LongMax /\ Spelled(<<n>>) = n
  BY NumbersAssumption
<1>6. m.start <= LongMax /\ m.end <= LongMax
      /\ Spelled(<<m.start>>) = m.start /\ Spelled(<<m.end>>) = m.end
  BY <1>5
<1>7. m \in Offsets
  BY <1>4, <1>6, NumbersAssumption DEF Offsets
<1> QED BY <1>4, <1>6, <1>7

(* A list that may be saved is one of them.                                 *)
LEMMA ListType ==
  ASSUME NEW l \in Lists
  PROVE  l \in Seq(Messages)
<1>1. l \in Seq([start : Nat, end : Nat])
  BY ListsAssumption
<1>2. \A i \in DOMAIN l : l[i] \in Messages
  BY DEF Messages, ToSet
<1> QED BY <1>1, <1>2

(* The order in which the quick sort leaves the list has the starts and the *)
(* ends ascend.                                                             *)
LEMMA SortedAscends ==
  ASSUME NEW l \in Lists, NEW s \in Sorted(l)
  PROVE  s \in Seq(Messages) /\ Len(s) = Len(l) /\ Ascends(s)
<1>1. l \in Seq(Messages) /\ DOMAIN l = 1 .. Len(l) /\ Len(l) \in Nat
  BY ListType
<1>2. PICK p \in Bijection(DOMAIN l, DOMAIN l) : s = [i \in DOMAIN l |-> l[p[i]]]
  BY DEF Sorted, Arrangements
<1>3. p \in [DOMAIN l -> DOMAIN l]
  BY Fun_BijectionProperties
<1>4. /\ s \in Seq(Messages) /\ Len(s) = Len(l)
      /\ \A i \in DOMAIN l : s[i] = l[p[i]] /\ p[i] \in DOMAIN l
  BY <1>1, <1>2, <1>3
<1>5. \A i \in 2 .. Len(s) : s[i - 1].start <= s[i].start
  BY DEF Sorted
<1>6. \A i \in DOMAIN l : s[i].start \in Nat
  <2>1. \A i \in DOMAIN l : s[i] \in Messages
    BY <1>1, <1>4
  <2> QED BY <2>1, MessageType
<1>7. ASSUME NEW i \in DOMAIN l
      PROVE  \A j \in DOMAIN l : i <= j => s[i].start <= s[j].start
  <2> DEFINE T == {j \in DOMAIN l : i <= j /\ ~(s[i].start <= s[j].start)}
  <2> SUFFICES ASSUME T # {} PROVE FALSE
    OBVIOUS
  <2>1. T \in SUBSET Nat
    BY <1>1
  <2>2. PICK n \in T : \A m \in T : n <= m
    <3> HIDE DEF T
    <3> QED BY <2>1, LeastMember
  <2>3. n # i
    BY <1>6, <2>2
  <2>4. /\ n \in 2 .. Len(s) /\ n - 1 \in DOMAIN l /\ n - 1 >= i /\ n - 1 \notin T
    BY <1>1, <1>4, <2>2, <2>3
  <2>5. s[i].start <= s[n - 1].start /\ s[n - 1].start <= s[n].start
    BY <1>5, <2>4
  <2> QED BY <1>6, <2>2, <2>4, <2>5
<1>8. ASSUME NEW i \in DOMAIN l, NEW j \in DOMAIN l, i <= j
      PROVE  Below(s[i], s[j])
  <2>1. s[i].start <= s[j].start
    BY <1>7, <1>8
  <2>2. l[p[i]].start <= l[p[j]].start => l[p[i]].end <= l[p[j]].end
    BY <1>4, ListsAssumption
  <2> QED BY <1>4, <2>1, <2>2 DEF Below
<1>9. \A i \in DOMAIN l : s[i].start < s[i].end
  <2>1. \A i \in DOMAIN l : s[i] \in Messages
    BY <1>1, <1>4
  <2> QED BY <2>1, MessageType
<1> QED BY <1>1, <1>4, <1>8, <1>9 DEF Ascends

-----------------------------------------------------------------------------
(* The tokens of a file, four to a line.                                    *)
LEMMA Quarters ==
  ASSUME NEW n \in Nat
  PROVE  /\ n \div 4 \in Nat /\ n % 4 \in 0 .. 3
         /\ n = 4 * (n \div 4) + (n % 4)
BY Z3

LEMMA QuarterOf ==
  ASSUME NEW q \in Nat, NEW r \in 0 .. 3
  PROVE  (4 * q + r) \div 4 = q /\ (4 * q + r) % 4 = r
BY Z3

(* Where a token of the line of a message is.                               *)
LEMMA PlaceInLine ==
  ASSUME NEW n \in Nat \ {0}, NEW r \in 1 .. 4
  PROVE  Line(4 * (n - 1) + r) = n /\ (((4 * (n - 1) + r) - 1) % 4) + 1 = r
<1> DEFINE i == 4 * (n - 1) + r
<1>1. i - 1 = 4 * (n - 1) + (r - 1) /\ n - 1 \in Nat /\ r - 1 \in 0 .. 3
  OBVIOUS
<1>2. (i - 1) \div 4 = n - 1 /\ (i - 1) % 4 = r - 1
  <2> HIDE DEF i
  <2> QED BY <1>1, QuarterOf
<1> QED BY <1>2 DEF Line

(* The tokens of a line, in a sequence of such lines.                       *)
LEMMA LineType ==
  ASSUME NEW m \in Messages
  PROVE  LineOf(m) \in Seq(Tokens) /\ Len(LineOf(m)) = 4
<1>1. m.start \in Nat /\ m.end \in Nat
  BY MessageType
<1>2. {Number(m.start), Blank, Number(m.end), NewLine} \subseteq Tokens
  BY <1>1 DEF Number, Blank, NewLine, Tokens
<1> QED BY <1>2 DEF LineOf

LEMMA LineTokens ==
  ASSUME NEW f, DOMAIN f = 1 .. Len(f), Len(f) \in Nat, Lines(f), Len(f) % 4 = 0,
         NEW k \in Nat, 4 * k < Len(f)
  PROVE  /\ 4 * k + 4 <= Len(f) /\ k + 1 \in DOMAIN list
         /\ f[4 * k + 1] = Number(list[k + 1].start) /\ f[4 * k + 2] = Blank
         /\ f[4 * k + 3] = Number(list[k + 1].end) /\ f[4 * k + 4] = NewLine
<1>1. 4 * k + 4 <= Len(f)
  <2>1. PICK q \in Nat : Len(f) = 4 * q
    <3>1. Len(f) \in Nat
      OBVIOUS
    <3> DEFINE n == Len(f)
    <3> HIDE DEF n
    <3>2. n \div 4 \in Nat /\ n = 4 * (n \div 4) + (n % 4) /\ n % 4 = 0
      BY <3>1, Quarters DEF n
    <3>3. n = 4 * (n \div 4)
      BY <3>2
    <3> QED BY <3>2, <3>3 DEF n
  <2> QED BY <2>1
<1>2. ASSUME NEW r \in 1 .. 4
      PROVE  k + 1 \in DOMAIN list /\ f[4 * k + r] = LineOf(list[k + 1])[r]
  <2> DEFINE i == 4 * ((k + 1) - 1) + r
  <2>1. i \in DOMAIN f /\ i = 4 * k + r
    BY <1>1
  <2>2. Line(i) = k + 1 /\ ((i - 1) % 4) + 1 = r
    <3>1. k + 1 \in Nat \ {0} /\ r \in 1 .. 4
      OBVIOUS
    <3> QED BY <3>1, PlaceInLine, Zenon
  <2> HIDE DEF i
  <2>3. Line(i) \in DOMAIN list /\ f[i] = LineOf(list[Line(i)])[((i - 1) % 4) + 1]
    BY <2>1 DEF Lines
  <2> QED BY <2>1, <2>2, <2>3
<1>3. /\ f[4 * k + 1] = LineOf(list[k + 1])[1] /\ f[4 * k + 2] = LineOf(list[k + 1])[2]
      /\ f[4 * k + 3] = LineOf(list[k + 1])[3] /\ f[4 * k + 4] = LineOf(list[k + 1])[4]
      /\ k + 1 \in DOMAIN list
  <2>1. 1 \in 1 .. 4 /\ 2 \in 1 .. 4 /\ 3 \in 1 .. 4 /\ 4 \in 1 .. 4
    OBVIOUS
  <2> QED BY <1>2, <2>1
<1> QED BY <1>1, <1>3 DEF LineOf

(* What a loop of indexesToList makes of such a line is the message saved.  *)
LEMMA LineRead ==
  ASSUME file \in Seq(Tokens), list \in Seq(Messages), Lines(file), Len(file) % 4 = 0,
         NEW k \in Nat, 4 * k < Len(file)
  PROVE  /\ k + 1 \in DOMAIN list
         /\ NextOf({Blank}, 4 * k) = {4 * k + 2}
         /\ NextOf({NewLine}, 4 * k + 2) = {4 * k + 4}
         /\ [start |-> Atol(4 * k), end |-> Atol(4 * k + 2)] = list[k + 1]
<1> DEFINE m == list[k + 1]
<1>1. Len(file) \in Nat /\ DOMAIN file = 1 .. Len(file)
  OBVIOUS
<1>2. /\ 4 * k + 4 <= Len(file) /\ k + 1 \in DOMAIN list
      /\ file[4 * k + 1] = Number(m.start) /\ file[4 * k + 2] = Blank
      /\ file[4 * k + 3] = Number(m.end) /\ file[4 * k + 4] = NewLine
  BY <1>1, LineTokens
<1>3. m \in Messages
  BY <1>2
<1> HIDE DEF m
<1>4. \A n : Number(n) # Blank /\ Number(n) # NewLine
  BY DEF Number, Blank, NewLine
<1>5. Blank # NewLine
  BY DEF Blank, NewLine
<1> DEFINE o == 4 * k
<1>6. o \in Nat /\ o + 4 <= Len(file) /\ o = 4 * k
  BY <1>2
<1>7. /\ file[o + 1] = Number(m.start) /\ file[o + 2] = Blank
      /\ file[o + 3] = Number(m.end) /\ file[o + 4] = NewLine
  BY <1>2
<1> HIDE DEF o
<1>8. ASSUME NEW S, S \in {{Blank}, {Blank, NewLine}}
      PROVE  NextOf(S, o) = {o + 2}
  <2>1. Blank \in S /\ Number(m.start) \notin S
    BY <1>4, <1>8
  <2>2. o + 2 \in NextOf(S, o)
    <3>1. \A j \in o + 1 .. (o + 2) - 1 : j = o + 1
      BY <1>6
    <3> QED BY <1>1, <1>6, <1>7, <2>1, <3>1 DEF NextOf
  <2>3. ASSUME NEW i \in NextOf(S, o)
        PROVE  i = o + 2
    <3>1. i \in o + 1 .. Len(file) /\ file[i] \in S /\ \A j \in o + 1 .. i - 1 : file[j] \notin S
      BY DEF NextOf
    <3>2. i # o + 1
      BY <1>7, <2>1, <3>1
    <3>3. ~(i > o + 2)
      <4>1. i > o + 2 => o + 2 \in o + 1 .. i - 1
        BY <1>1, <1>6, <3>1
      <4> QED BY <1>7, <2>1, <3>1, <4>1
    <3> QED BY <1>1, <1>6, <3>1, <3>2, <3>3
  <2> QED BY <2>2, <2>3
<1>9. ASSUME NEW S, S \in {{NewLine}, {Blank, NewLine}}
      PROVE  NextOf(S, o + 2) = {o + 4}
  <2>1. NewLine \in S /\ Number(m.end) \notin S
    BY <1>4, <1>9
  <2>2. o + 4 \in NextOf(S, o + 2)
    <3>1. \A j \in (o + 2) + 1 .. (o + 4) - 1 : j = o + 3
      BY <1>6
    <3> QED BY <1>1, <1>6, <1>7, <2>1, <3>1 DEF NextOf
  <2>3. ASSUME NEW i \in NextOf(S, o + 2)
        PROVE  i = o + 4
    <3>1. /\ i \in (o + 2) + 1 .. Len(file) /\ file[i] \in S
          /\ \A j \in (o + 2) + 1 .. i - 1 : file[j] \notin S
      BY DEF NextOf
    <3>2. i # o + 3
      BY <1>7, <2>1, <3>1
    <3>3. ~(i > o + 4)
      <4>1. i > o + 4 => o + 4 \in (o + 2) + 1 .. i - 1
        BY <1>1, <1>6, <3>1
      <4> QED BY <1>7, <2>1, <3>1, <4>1
    <3> QED BY <1>1, <1>6, <3>1, <3>2, <3>3
  <2> QED BY <2>2, <2>3
<1>10. ASSUME NEW p \in Nat, NEW n \in Nat, n <= LongMax, Spelled(<<n>>) = n,
              file[p + 1] = Number(n), NextOf({Blank, NewLine}, p) = {p + 2}
       PROVE  Atol(p) = n
  <2>1. (CHOOSE i \in NextOf({Blank, NewLine}, p) : TRUE) = p + 2
    BY <1>10
  <2>2. Written(p) = [j \in 1 .. (p + 2) - p - 1 |-> file[p + j][2]]
    BY <2>1 DEF Written
  <2>3. (p + 2) - p - 1 = 1
    OBVIOUS
  <2>4. file[p + 1][2] = n
    BY <1>10 DEF Number
  <2>5. Written(p) = <<n>>
    <3>1. Written(p) = [j \in 1 .. 1 |-> file[p + j][2]]
      BY <2>2, <2>3
    <3>2. \A j \in 1 .. 1 : j = 1
      OBVIOUS
    <3>3. Written(p) = [j \in 1 .. 1 |-> n]
      BY <2>4, <3>1, <3>2
    <3>4. [j \in 1 .. 1 |-> n] = <<n>>
      OBVIOUS
    <3> QED BY <3>3, <3>4
  <2>6. Spelled(Written(p)) = n
    BY <1>10, <2>5
  <2> QED BY <1>10, <2>6, NumbersAssumption DEF Atol
<1>11. /\ m.start \in Nat /\ m.end \in Nat /\ m.start <= LongMax /\ m.end <= LongMax
       /\ Spelled(<<m.start>>) = m.start /\ Spelled(<<m.end>>) = m.end
       /\ m \in [start : Nat, end : Nat]
  BY <1>3, MessageType
<1>12. Atol(o) = m.start
  BY <1>6, <1>7, <1>8, <1>10, <1>11
<1>13. Atol(o + 2) = m.end
  <2>1. o + 2 \in Nat /\ (o + 2) + 1 = o + 3 /\ (o + 2) + 2 = o + 4
    BY <1>6
  <2> QED BY <1>7, <1>9, <1>10, <1>11, <2>1
<1>14. [start |-> Atol(o), end |-> Atol(o + 2)] = m
  BY <1>11, <1>12, <1>13
<1> QED BY <1>2, <1>6, <1>8, <1>9, <1>14 DEF m

-----------------------------------------------------------------------------
(* How often a message is in a list, as the list grows at its end and loses *)
(* its head.                                                                *)
LEMMA PlacesFinite ==
  ASSUME NEW S, NEW s \in Seq(S), NEW m
  PROVE  IsFiniteSet(Places(s, m)) /\ Cardinality(Places(s, m)) \in Nat
<1>1. Len(s) \in Nat /\ DOMAIN s = 1 .. Len(s)
  OBVIOUS
<1>2. IsFiniteSet(1 .. Len(s))
  BY <1>1, FS_Interval
<1>3. Places(s, m) \in SUBSET (1 .. Len(s))
  BY <1>1 DEF Places
<1>4. IsFiniteSet(Places(s, m))
  BY <1>2, <1>3, FS_Subset
<1> QED BY <1>4, FS_CardinalityType

(* One more at the end is in one place more.                                *)
LEMMA PlacesAppend ==
  ASSUME NEW S, NEW s \in Seq(S), NEW e \in S, NEW m
  PROVE  Cardinality(Places(Append(s, e), m))
           = IF e = m THEN Cardinality(Places(s, m)) + 1 ELSE Cardinality(Places(s, m))
<1> DEFINE P == Places(s, m)
           n == Len(s) + 1
<1>1. IsFiniteSet(P)
  BY PlacesFinite
<1>2. n \notin P
  BY DEF Places
<1>3. /\ Append(s, e)[n] = e /\ DOMAIN Append(s, e) = DOMAIN s \union {n}
      /\ \A i \in DOMAIN s : Append(s, e)[i] = s[i]
  OBVIOUS
<1>4. CASE e = m
  <2>1. Places(Append(s, e), m) = P \union {n}
    <3> HIDE DEF n
    <3> QED BY <1>3, <1>4 DEF Places
  <2>2. Cardinality(P \union {n}) = Cardinality(P) + 1
    <3> HIDE DEF n, P
    <3> QED BY <1>1, <1>2, FS_AddElement
  <2> QED BY <1>4, <2>1, <2>2
<1>5. CASE e # m
  <2>1. Places(Append(s, e), m) = P
    <3> HIDE DEF n
    <3> QED BY <1>3, <1>5 DEF Places
  <2> QED BY <1>5, <2>1
<1> QED BY <1>4, <1>5

(* Without its head a list has that message in one place less.              *)
LEMMA PlacesTail ==
  ASSUME NEW S, NEW s \in Seq(S), s # << >>, NEW m
  PROVE  Cardinality(Places(s, m))
           = IF Head(s) = m THEN Cardinality(Places(Tail(s), m)) + 1
                            ELSE Cardinality(Places(Tail(s), m))
<1> DEFINE P == Places(Tail(s), m)
           Q == Places(s, m) \ {1}
           f == [i \in P |-> i + 1]
<1>1. /\ Len(s) \in Nat \ {0} /\ DOMAIN s = 1 .. Len(s) /\ Head(s) = s[1]
      /\ Tail(s) \in Seq(S) /\ DOMAIN Tail(s) = 1 .. Len(s) - 1
      /\ \A i \in 1 .. Len(s) - 1 : Tail(s)[i] = s[i + 1]
  OBVIOUS
<1>2. IsFiniteSet(P) /\ IsFiniteSet(Places(s, m)) /\ Cardinality(Places(s, m)) \in Nat
  BY <1>1, PlacesFinite
<1>3. f \in [P -> Q]
  BY <1>1 DEF Places
<1>4. \A a, b \in P : f[a] = f[b] => a = b
  BY <1>1 DEF Places
<1>5. \A q \in Q : \E a \in P : f[a] = q
  <2>1. ASSUME NEW q \in Q
        PROVE  \E a \in P : f[a] = q
    <3>1. q \in 2 .. Len(s) /\ s[q] = m
      BY <1>1 DEF Places
    <3>2. q - 1 \in P /\ (q - 1) + 1 = q
      BY <1>1, <3>1 DEF Places
    <3> QED BY <3>2
  <2> QED BY <2>1
<1>6. Cardinality(Q) = Cardinality(P)
  <2> HIDE DEF f, P, Q
  <2>1. f \in Bijection(P, Q)
    BY <1>3, <1>4, <1>5, Fun_IsBij
  <2>2. ExistsBijection(P, Q)
    BY <2>1 DEF ExistsBijection
  <2> QED BY <1>2, <2>2, FS_Bijection
<1>7. Cardinality(Q) = IF 1 \in Places(s, m) THEN Cardinality(Places(s, m)) - 1
                                             ELSE Cardinality(Places(s, m))
  BY <1>2, FS_RemoveElement
<1>8. 1 \in Places(s, m) <=> Head(s) = m
  BY <1>1 DEF Places
<1> HIDE DEF P, Q
<1>9. Cardinality(Places(s, m)) = IF Head(s) = m THEN Cardinality(P) + 1 ELSE Cardinality(P)
  BY <1>2, <1>6, <1>7, <1>8
<1> QED BY <1>9 DEF P

(* How often it is in the batches.                                          *)
LEMMA CellIff ==
  ASSUME NEW bs, NEW m, NEW c
  PROVE  c \in Cells(bs, m)
           <=> \E b \in DOMAIN bs : \E i \in DOMAIN bs[b] : c = <<b, i>> /\ bs[b][i] = m
BY DEF Cells

(* A batch enqueued adds the places it has.                                 *)
LEMMA CellsAppend ==
  ASSUME NEW S, NEW bs \in Seq(Seq(S)), NEW s \in Seq(S), NEW m, IsFiniteSet(Cells(bs, m))
  PROVE  /\ IsFiniteSet(Cells(Append(bs, s), m))
         /\ Cardinality(Cells(Append(bs, s), m))
              = Cardinality(Cells(bs, m)) + Cardinality(Places(s, m))
<1> DEFINE n == Len(bs) + 1
           t == Append(bs, s)
           P == Places(s, m)
           Q == {<<n, i>> : i \in P}
           C == Cells(bs, m)
           f == [i \in P |-> <<n, i>>]
<1>1. /\ t[n] = s /\ DOMAIN t = DOMAIN bs \union {n} /\ n \notin DOMAIN bs
      /\ \A b \in DOMAIN bs : t[b] = bs[b]
  OBVIOUS
<1> HIDE DEF n, t
<1>2. Cells(t, m) = C \union Q
  <2>1. ASSUME NEW c
        PROVE  c \in Cells(t, m) <=> c \in C \/ c \in Q
    <3>1. c \in Cells(t, m)
            <=> \/ \E b \in DOMAIN bs : \E i \in DOMAIN t[b] : c = <<b, i>> /\ t[b][i] = m
                \/ \E i \in DOMAIN t[n] : c = <<n, i>> /\ t[n][i] = m
      BY <1>1, CellIff
    <3>2. c \in C <=> \E b \in DOMAIN bs : \E i \in DOMAIN t[b] : c = <<b, i>> /\ t[b][i] = m
      BY <1>1, CellIff
    <3>3. c \in Q <=> \E i \in DOMAIN t[n] : c = <<n, i>> /\ t[n][i] = m
      BY <1>1 DEF Places
    <3> HIDE DEF C, Q
    <3> QED BY <3>1, <3>2, <3>3, Zenon
  <2> QED BY <2>1
<1>3. C \intersect Q = {}
  BY <1>1, CellIff
<1>4. IsFiniteSet(P) /\ Cardinality(P) \in Nat
  BY PlacesFinite
<1>5. IsFiniteSet(Q) /\ Cardinality(Q) = Cardinality(P)
  <2>1. /\ f \in [P -> Q] /\ \A a, b \in P : f[a] = f[b] => a = b
        /\ \A q \in Q : \E a \in P : f[a] = q
    OBVIOUS
  <2> HIDE DEF f, P, Q
  <2>2. f \in Bijection(P, Q)
    BY <2>1, Fun_IsBij
  <2>3. ExistsBijection(P, Q)
    BY <2>2 DEF ExistsBijection
  <2> QED BY <1>4, <2>3, FS_Bijection
<1>6. Cardinality(C) \in Nat
  BY FS_CardinalityType
<1>7. IsFiniteSet(C \union Q) /\ Cardinality(C \union Q) = Cardinality(C) + Cardinality(Q)
  <2>1. IsFiniteSet(C)
    OBVIOUS
  <2> HIDE DEF C, Q, P
  <2>2. /\ IsFiniteSet(C \union Q)
        /\ Cardinality(C \union Q)
             = Cardinality(C) + Cardinality(Q) - Cardinality(C \intersect Q)
    BY <1>5, <2>1, FS_Union
  <2>3. Cardinality(C \intersect Q) = 0
    BY <1>3, FS_EmptySet
  <2> QED BY <1>4, <1>5, <1>6, <2>2, <2>3
<1> QED BY <1>2, <1>5, <1>7 DEF t

(* A message taken out of a batch, the others moved up.                     *)
LEMMA CellsTail ==
  ASSUME NEW bs \in Seq(Seq(Offsets)), NEW n \in DOMAIN bs, NEW m, NEW t,
         bs[n] # << >>, IsFiniteSet(Cells(bs, m)),
         DOMAIN t = DOMAIN bs, t[n] = Tail(bs[n]),
         \A b \in DOMAIN bs : b # n => t[b] = bs[b]
  PROVE  /\ IsFiniteSet(Cells(t, m))
         /\ Head(bs[n]) = m => Cardinality(Cells(bs, m)) = Cardinality(Cells(t, m)) + 1
         /\ Head(bs[n]) # m => Cardinality(Cells(bs, m)) = Cardinality(Cells(t, m))
<1> DEFINE s == bs[n]
           C == Cells(bs, m)
           Q == C \ {<<n, 1>>}
           D == Cells(t, m)
           f == [c \in Q |-> IF c[1] = n THEN <<n, c[2] - 1>> ELSE c]
<1>1. s \in Seq(Offsets) /\ s # << >>
  OBVIOUS
<1>2. /\ t[n] = Tail(s) /\ DOMAIN t = DOMAIN bs
      /\ \A b \in DOMAIN bs : b # n => t[b] = bs[b]
  OBVIOUS
<1> HIDE DEF s
<1>3. /\ Len(s) \in Nat \ {0} /\ DOMAIN s = 1 .. Len(s) /\ Head(s) = s[1]
      /\ DOMAIN Tail(s) = 1 .. Len(s) - 1
      /\ \A i \in 1 .. Len(s) - 1 : Tail(s)[i] = s[i + 1]
  BY <1>1
<1> DEFINE Other(c) == \E b \in DOMAIN bs : \E i \in DOMAIN bs[b] :
                         b # n /\ c = <<b, i>> /\ bs[b][i] = m
<1>4. ASSUME NEW c
      PROVE  c \in Q <=> (\E i \in 2 .. Len(s) : c = <<n, i>> /\ s[i] = m) \/ Other(c)
  <2>1. c \in C <=> (\E i \in DOMAIN s : c = <<n, i>> /\ s[i] = m) \/ Other(c)
    <3>1. c \in C <=> \E b \in DOMAIN bs : \E i \in DOMAIN bs[b] : c = <<b, i>> /\ bs[b][i] = m
      BY CellIff
    <3> HIDE DEF C
    <3> QED BY <3>1, Zenon DEF s
  <2>2. Other(c) => c # <<n, 1>>
    OBVIOUS
  <2>3. (\E i \in 2 .. Len(s) : c = <<n, i>> /\ s[i] = m)
          <=> (\E i \in DOMAIN s : c = <<n, i>> /\ s[i] = m) /\ c # <<n, 1>>
    BY <1>3
  <2> HIDE DEF C, Other
  <2> QED BY <2>1, <2>2, <2>3
<1>5. ASSUME NEW c
      PROVE  c \in D <=> (\E i \in 1 .. Len(s) - 1 : c = <<n, i>> /\ s[i + 1] = m) \/ Other(c)
  <2>1. c \in D <=> \E b \in DOMAIN t : \E i \in DOMAIN t[b] : c = <<b, i>> /\ t[b][i] = m
    BY CellIff
  <2>2. c \in D <=> \/ \E i \in DOMAIN Tail(s) : c = <<n, i>> /\ Tail(s)[i] = m
                    \/ \E b \in DOMAIN bs : \E i \in DOMAIN t[b] :
                         b # n /\ c = <<b, i>> /\ t[b][i] = m
    <3> HIDE DEF D
    <3> QED BY <1>2, <2>1, Zenon
  <2>3. (\E b \in DOMAIN bs : \E i \in DOMAIN t[b] : b # n /\ c = <<b, i>> /\ t[b][i] = m)
          <=> Other(c)
    BY <1>2, Zenon
  <2>4. (\E i \in DOMAIN Tail(s) : c = <<n, i>> /\ Tail(s)[i] = m)
          <=> \E i \in 1 .. Len(s) - 1 : c = <<n, i>> /\ s[i + 1] = m
    BY <1>3
  <2> HIDE DEF D, Other
  <2> QED BY <2>2, <2>3, <2>4, Zenon
<1> HIDE DEF Q, D
<1>6. \A c \in Q : Other(c) => f[c] = c /\ c[1] # n
  OBVIOUS
<1>7. ASSUME NEW i, <<n, i>> \in Q
       PROVE  f[<<n, i>>] = <<n, i - 1>>
  BY <1>7
<1> HIDE DEF Other
<1>8. f \in [Q -> D]
  <2>1. ASSUME NEW c \in Q
        PROVE  (IF c[1] = n THEN <<n, c[2] - 1>> ELSE c) \in D
    <3>1. CASE \E i \in 2 .. Len(s) : c = <<n, i>> /\ s[i] = m
      <4>1. PICK i \in 2 .. Len(s) : c = <<n, i>> /\ s[i] = m
        BY <3>1
      <4>2. i - 1 \in 1 .. Len(s) - 1 /\ (i - 1) + 1 = i
        BY <1>3
      <4>3. <<n, i - 1>> \in D
        BY <1>5, <4>1, <4>2
      <4> QED BY <4>1, <4>3
    <3>2. CASE Other(c)
      <4>1. c \in D
        BY <1>5, <3>2
      <4>2. c[1] # n
        BY <1>6, <3>2
      <4> QED BY <4>1, <4>2
    <3> QED BY <1>4, <3>1, <3>2
  <2> QED BY <2>1
<1>9. ASSUME NEW a \in Q, NEW c \in Q, f[a] = f[c]
      PROVE  a = c
  <2>1. (\E i \in 2 .. Len(s) : a = <<n, i>> /\ f[a] = <<n, i - 1>>)
        \/ (f[a] = a /\ a[1] # n)
    <3> HIDE DEF f
    <3> QED BY <1>4, <1>6, <1>7
  <2>2. (\E i \in 2 .. Len(s) : c = <<n, i>> /\ f[c] = <<n, i - 1>>)
        \/ (f[c] = c /\ c[1] # n)
    <3> HIDE DEF f
    <3> QED BY <1>4, <1>6, <1>7
  <2> HIDE DEF f
  <2>3. CASE f[a] = a /\ a[1] # n
    BY <1>9, <2>2, <2>3
  <2>4. CASE \E i \in 2 .. Len(s) : a = <<n, i>> /\ f[a] = <<n, i - 1>>
    <3>1. PICK i \in 2 .. Len(s) : a = <<n, i>> /\ f[a] = <<n, i - 1>>
      BY <2>4
    <3>2. PICK j \in 2 .. Len(s) : c = <<n, j>> /\ f[c] = <<n, j - 1>>
      <4>1. f[c][1] = n
        <5>1. f[c] = <<n, i - 1>>
          BY <1>9, <3>1, Zenon
        <5> QED BY <5>1
      <4>2. ~(f[c] = c /\ c[1] # n)
        BY <4>1
      <4> QED BY <2>2, <4>2, Zenon
    <3>3. i - 1 = j - 1
      <4>1. <<n, i - 1>> = <<n, j - 1>>
        BY <1>9, <3>1, <3>2, Zenon
      <4> QED BY <4>1
    <3>4. i = j
      BY <1>3, <3>3
    <3> QED BY <3>1, <3>2, <3>4
  <2> QED BY <2>1, <2>3, <2>4
<1>10. \A d \in D : \E c \in Q : f[c] = d
  <2>1. ASSUME NEW d \in D
        PROVE  \E c \in Q : f[c] = d
    <3>1. CASE \E i \in 1 .. Len(s) - 1 : d = <<n, i>> /\ s[i + 1] = m
      <4>1. PICK i \in 1 .. Len(s) - 1 : d = <<n, i>> /\ s[i + 1] = m
        BY <3>1
      <4>2. i + 1 \in 2 .. Len(s) /\ (i + 1) - 1 = i
        BY <1>3
      <4>3. <<n, i + 1>> \in Q
        BY <1>4, <4>1, <4>2
      <4> QED BY <1>7, <4>1, <4>2, <4>3
    <3>2. CASE Other(d)
      <4>1. d \in Q
        BY <1>4, <3>2
      <4> QED BY <1>6, <3>2, <4>1
    <3> QED BY <1>5, <3>1, <3>2
  <2> QED BY <2>1
<1>11. IsFiniteSet(Q)
  BY FS_RemoveElement DEF Q
<1>12. IsFiniteSet(D) /\ Cardinality(D) = Cardinality(Q)
  <2> HIDE DEF f
  <2>1. f \in Bijection(Q, D)
    BY <1>8, <1>9, <1>10, Fun_IsBij
  <2>2. ExistsBijection(Q, D)
    BY <2>1 DEF ExistsBijection
  <2> QED BY <1>11, <2>2, FS_Bijection
<1>13. Cardinality(Q) = IF <<n, 1>> \in C THEN Cardinality(C) - 1 ELSE Cardinality(C)
  BY FS_RemoveElement DEF Q
<1>14. Cardinality(C) \in Nat
  BY FS_CardinalityType
<1>15. <<n, 1>> \in C <=> Head(s) = m
  BY <1>3, CellIff DEF s
<1> HIDE DEF C
<1>16. /\ Head(s) = m => Cardinality(C) = Cardinality(D) + 1
       /\ Head(s) # m => Cardinality(C) = Cardinality(D)
  BY <1>12, <1>13, <1>14, <1>15
<1> QED BY <1>12, <1>16 DEF C, D, s

-----------------------------------------------------------------------------
(* The steps of a save, and what is written and buffered.                   *)

(* Nothing is saved and nothing is loaded at the beginning.                 *)
LEMMA InitInv == Init => IInv
<1> SUFFICES ASSUME Init PROVE IInv
  OBVIOUS
<1>1. /\ pc = "save" /\ node = 1 /\ out = << >> /\ file = NoFile /\ fileOff = 0
      /\ cut = FALSE /\ result = "none" /\ readOff = 0 /\ entries = << >>
      /\ indexes = << >> /\ batch = << >>
      /\ batchBytes = 0 /\ batches = << >> /\ ranges = << >> /\ msgs = << >>
      /\ pending = << >> /\ running = {} /\ finished = {}
      /\ list \in Lists
  BY DEF Init, Pool!Init
<1>2. list \in Seq(Messages)
  BY <1>1, ListType
<1>3. TypeOK
  <2>1. /\ << >> \in Seq(Tokens) /\ << >> \in Seq(Offsets) /\ << >> \in Seq(Seq(Offsets))
        /\ << >> \in Seq([diff : 0 .. LongMax, end : 0 .. LongMax])
    OBVIOUS
  <2>2. 0 \in 0 .. ReadSize - 1 /\ 1 \in 1 .. Len(list) + 1
    BY <1>2, NumbersAssumption
  <2>3. cut \in BOOLEAN /\ fileOff \in Nat /\ readOff \in Nat
    BY <1>1
  <2>4. node \in 1 .. Len(list) + 1 /\ batchBytes \in 0 .. ReadSize - 1
    BY <1>1, <2>2
  <2> QED BY <1>1, <1>2, <2>1, <2>3, <2>4, Zenon DEF TypeOK
<1>4. SaveState /\ FileState /\ LoadState /\ EntriesKept
  BY <1>1 DEF SaveState, FileState, LoadState, EntriesKept, Loading
<1>5. ReadState
  BY <1>1, <1>2 DEF ReadState
<1>6. BatchQueue
  BY <1>1 DEF BatchQueue
<1>7. BatchesInOrder
  <2>1. DOMAIN (batch \o indexes) = {} /\ DOMAIN batches = {} /\ DOMAIN ranges = {}
    BY <1>1
  <2> QED BY <2>1 DEF BatchesInOrder, Ascends
<1> QED BY <1>3, <1>4, <1>5, <1>6, <1>7 DEF IInv

(* What a load keeps is as it was before it, until it begins.               *)
LEMMA LoadNotBegun ==
  ASSUME IInv, UNCHANGED <<fill, batches, ranges, msgs, pool>>, cut \in BOOLEAN,
         cut => cut', ~Loading, pc' \in {"line", "write", "saved", "null", "read", "fault"}
  PROVE  LoadState' /\ BatchQueue' /\ BatchesInOrder' /\ EntriesKept'
<1>1. ~Loading'
  BY DEF Loading
<1>2. LoadState'
  BY <1>1 DEF IInv, LoadState, fill, pool, Loading
<1>3. BatchQueue'
  BY DEF IInv, BatchQueue, pool
<1>4. BatchesInOrder'
  <2>1. UNCHANGED <<batch, indexes, batches, ranges>> /\ (~cut' => ~cut)
    BY DEF fill
  <2>2. BatchesInOrder
    BY DEF IInv
  <2> QED BY <2>1, <2>2 DEF BatchesInOrder, Ascends, Outside, Below
<1> QED BY <1>1, <1>2, <1>3, <1>4 DEF EntriesKept

(* While the list is saved nothing is read of the index.                    *)
LEMMA NothingRead ==
  ASSUME IInv, pc \in {"save", "line", "write"}, UNCHANGED read,
         pc' \in {"line", "write", "saved"},
         Len(list') \in Nat
  PROVE  ReadState'
<1>1. readOff' = 0 /\ entries' = << >>
  BY DEF IInv, ReadState, read
<1> QED BY <1>1 DEF ReadState

(* The save returns at once.                                                *)
LEMMA SaveNothingInv == IInv /\ SaveNothing => IInv'
<1> SUFFICES ASSUME IInv, SaveNothing PROVE IInv'
  OBVIOUS
<1>1. /\ pc = "save" /\ pc' = "saved" /\ result' = "ok"
      /\ UNCHANGED <<list, node, out, file, fileOff, cut, read, fill, batches, ranges, msgs, pool>>
  BY DEF SaveNothing
<1>2. TypeOK'
  BY <1>1 DEF IInv, TypeOK, read, fill, pool
<1>3. SaveState' /\ FileState'
  BY <1>1 DEF IInv, SaveState, FileState
<1>4. ~Loading /\ cut \in BOOLEAN /\ Len(list') \in Nat
  BY <1>1 DEF Loading, IInv, TypeOK
<1>5. ReadState'
  BY <1>1, <1>4, NothingRead
<1> QED BY <1>1, <1>2, <1>3, <1>4, <1>5, LoadNotBegun DEF IInv

(* The list is sorted and the file emptied: every line is yet to come.      *)
LEMMA SaveOpenInv == IInv /\ SaveOpen => IInv'
<1> SUFFICES ASSUME IInv, SaveOpen PROVE IInv'
  OBVIOUS
<1>1. /\ pc = "save" /\ pc' = "line" /\ list # << >> /\ list' \in Sorted(list)
      /\ file' = << >>
      /\ UNCHANGED <<node, out, fileOff, cut, result, read, fill, batches, ranges, msgs, pool>>
  BY DEF SaveOpen
<1>2. /\ list \in Lists /\ file = NoFile /\ fileOff = 0 /\ result = "none"
      /\ out = << >> /\ node = 1
  BY <1>1 DEF IInv, SaveState
<1>3. list' \in Seq(Messages) /\ Len(list') = Len(list) /\ Ascends(list')
  BY <1>1, <1>2, SortedAscends
<1>4. Len(list) \in Nat /\ Len(list) # 0
  BY <1>1 DEF IInv, TypeOK
<1>5. TypeOK'
  BY <1>1, <1>2, <1>3, <1>4 DEF IInv, TypeOK, read, fill, pool
<1>6. /\ file' \o out' = << >> /\ file' \in Seq(Tokens) /\ Len(file') = 0
      /\ Len(file' \o out') = 0 /\ DOMAIN (file' \o out') = {} /\ DOMAIN file' = {}
      /\ Len(file') % 4 = 0
  BY <1>1, <1>2
<1>7. SaveState'
  BY <1>1, <1>2, <1>3, <1>4, <1>6 DEF SaveState, Lines
<1>8. FileState'
  BY <1>1, <1>2, <1>3, <1>4, <1>6 DEF FileState, Lines, Ascends, Below
<1>9. ~Loading /\ cut \in BOOLEAN /\ Len(list') \in Nat
  BY <1>1, <1>3 DEF Loading, IInv, TypeOK
<1>10. ReadState'
  BY <1>1, <1>9, NothingRead
<1> QED BY <1>1, <1>5, <1>7, <1>8, <1>9, <1>10, LoadNotBegun DEF IInv

(* What a save knows of its list, its file and its buffer.                  *)
LEMMA WhileSaving ==
  ASSUME IInv, pc \in {"line", "write"}
  PROVE  /\ file \in Seq(Tokens) /\ out \in Seq(Tokens) /\ file \o out \in Seq(Tokens)
         /\ Len(file) = fileOff /\ Len(file) \in Nat /\ Len(out) \in Nat
         /\ Len(file \o out) = Len(file) + Len(out)
         /\ list \in Seq(Messages) /\ Len(list) \in Nat /\ node \in 1 .. Len(list) + 1
         /\ result = "none" /\ Ascends(list) /\ cut \in BOOLEAN /\ ~Loading
         /\ ~cut => Lines(file \o out) /\ Len(file \o out) = 4 * (node - 1)
BY DEF IInv, TypeOK, SaveState, Loading

(* A line joins the buffer behind those before it.                          *)
LEMMA SaveLineInv == IInv /\ SaveLine => IInv'
<1> SUFFICES ASSUME IInv, SaveLine PROVE IInv'
  OBVIOUS
<1> DEFINE t == file \o out
           u == LineOf(list[node])
           n == Len(t)
<1>1. /\ pc = "line" /\ out' = out \o u /\ node' = node + 1
      /\ pc' \in {"line", "write"}
      /\ pc' = "line" => node' <= Len(list)
      /\ UNCHANGED <<list, file, fileOff, cut, result, read, fill, batches, ranges, msgs, pool>>
  <2>1. /\ pc = "line" /\ out' = out \o u /\ node' = node + 1
        /\ pc' = IF Len(out') % BufSiz = 0 \/ node' > Len(list) THEN "write" ELSE "line"
        /\ UNCHANGED <<list, file, fileOff, cut, result, read, fill, batches, ranges, msgs, pool>>
    BY DEF SaveLine
  <2>2. node \in Nat /\ Len(list) \in Nat
    BY DEF IInv, TypeOK
  <2>3. ~(node' > Len(list)) => node' <= Len(list)
    BY <2>1, <2>2
  <2> QED BY <2>1, <2>3, Zenon
<1>2. /\ file \in Seq(Tokens) /\ out \in Seq(Tokens) /\ t \in Seq(Tokens)
      /\ Len(file) = fileOff /\ list \in Seq(Messages) /\ Len(list) \in Nat
      /\ result = "none" /\ Ascends(list) /\ cut \in BOOLEAN /\ ~Loading
      /\ ~cut => Lines(t) /\ n = 4 * (node - 1)
  BY <1>1, WhileSaving
<1>3. node \in 1 .. Len(list) /\ list[node] \in Messages
  BY <1>1, <1>2 DEF IInv, TypeOK, SaveState
<1>4. u \in Seq(Tokens) /\ Len(u) = 4
  BY <1>3, LineType
<1> HIDE DEF u
<1>5. out' \in Seq(Tokens) /\ file' \o out' = t \o u
  <2>1. (file \o out) \o u = file \o (out \o u)
    <3>1. file \in Seq(Tokens) /\ out \in Seq(Tokens) /\ u \in Seq(Tokens)
      BY <1>2, <1>4, Zenon
    <3> QED BY <3>1, ConcatAssociative
  <2> QED BY <1>1, <1>2, <1>4, <2>1
<1> HIDE DEF t
<1>6. /\ n \in Nat /\ DOMAIN (t \o u) = 1 .. n + 4 /\ Len(t \o u) = n + 4
      /\ \A i \in 1 .. n : (t \o u)[i] = t[i] /\ i \in DOMAIN t
      /\ \A i \in n + 1 .. n + 4 : (t \o u)[i] = u[i - n]
  <2>1. n \in Nat /\ DOMAIN t = 1 .. n
    BY <1>2
  <2>2. /\ t \o u \in Seq(Tokens) /\ Len(t \o u) = n + 4
        /\ \A i \in 1 .. n + 4 : (t \o u)[i] = IF i <= n THEN t[i] ELSE u[i - n]
    <3>1. t \in Seq(Tokens) /\ u \in Seq(Tokens) /\ Len(u) = 4
      BY <1>2, <1>4, Zenon
    <3>2. /\ t \o u \in Seq(Tokens) /\ Len(t \o u) = Len(t) + Len(u)
          /\ \A i \in 1 .. Len(t) + Len(u) :
               (t \o u)[i] = IF i <= Len(t) THEN t[i] ELSE u[i - Len(t)]
      BY <3>1, ConcatProperties, Zenon
    <3> QED BY <3>1, <3>2, Zenon
  <2>3. DOMAIN (t \o u) = 1 .. n + 4
    BY <2>2
  <2> HIDE DEF n
  <2>4. \A i \in 1 .. n : i \in 1 .. n + 4 /\ i <= n
    BY <2>1
  <2>5. \A i \in n + 1 .. n + 4 : i \in 1 .. n + 4 /\ ~(i <= n)
    BY <2>1
  <2> QED BY <2>1, <2>2, <2>3, <2>4, <2>5
<1> DEFINE v == t \o u
<1> HIDE DEF n, v
<1>7. ASSUME ~cut
      PROVE  /\ Len(v) = 4 * ((node + 1) - 1)
             /\ \A i \in DOMAIN v : /\ Line(i) \in DOMAIN list
                                    /\ v[i] = LineOf(list[Line(i)])[((i - 1) % 4) + 1]
  <2>1. Lines(t) /\ n = 4 * (node - 1)
    BY <1>2, <1>7
  <2>2. ASSUME NEW i \in DOMAIN v
        PROVE  /\ Line(i) \in DOMAIN list
               /\ v[i] = LineOf(list[Line(i)])[((i - 1) % 4) + 1]
    <3>1. i \in 1 .. n \/ i \in n + 1 .. n + 4
      BY <1>6 DEF v
    <3>2. CASE i \in 1 .. n
      BY <1>6, <2>1, <3>2 DEF Lines, v
    <3>3. CASE i \in n + 1 .. n + 4
      <4> DEFINE r == i - n
      <4>1. r \in 1 .. 4 /\ i = 4 * (node - 1) + r /\ node \in Nat \ {0}
        <5>1. node \in Nat \ {0} /\ n \in Nat /\ i \in n + 1 .. n + 4 /\ n = 4 * (node - 1)
          BY <1>2, <1>3, <1>6, <2>1, <3>3
        <5> QED BY <5>1
      <4>2. v[i] = u[r]
        BY <1>6, <3>3 DEF v
      <4> HIDE DEF r
      <4>3. /\ Line(4 * (node - 1) + r) = node
            /\ (((4 * (node - 1) + r) - 1) % 4) + 1 = r
        BY <4>1, PlaceInLine, Zenon
      <4>4. Line(i) = node /\ ((i - 1) % 4) + 1 = r
        BY <4>1, <4>3, Zenon
      <4>5. node \in DOMAIN list
        BY <1>2, <1>3
      <4> QED BY <4>2, <4>4, <4>5, Zenon DEF u
    <3> QED BY <3>1, <3>2, <3>3
  <2>3. Len(v) = 4 * ((node + 1) - 1)
    BY <1>3, <1>6, <2>1 DEF v
  <2> QED BY <2>2, <2>3
<1>8. TypeOK'
  <2>1. node' \in 1 .. Len(list') + 1
    BY <1>1, <1>2, <1>3
  <2> QED BY <1>1, <1>5, <2>1 DEF IInv, TypeOK, read, fill, pool
<1>9. SaveState'
  <2>1. file' \o out' = v /\ node' = node + 1 /\ list' = list /\ cut' = cut
    BY <1>1, <1>5 DEF v
  <2>2. ~cut' => Lines(file \o out)' /\ Len(file \o out)' = 4 * (node' - 1)
    BY <1>7, <2>1, Zenon DEF Lines
  <2>3. Ascends(list)'
    BY <1>2, <2>1 DEF Ascends
  <2> HIDE DEF Lines
  <2> QED BY <1>1, <1>2, <2>2, <2>3 DEF SaveState
<1>10. FileState'
  BY <1>1 DEF IInv, FileState, Lines, Ascends
<1>11. ReadState'
  BY <1>1, <1>2, NothingRead
<1> QED BY <1>1, <1>2, <1>8, <1>9, <1>10, <1>11, LoadNotBegun DEF IInv

(* What a write may leave of the buffer consists of tokens.                 *)
LEMMA PieceType ==
  ASSUME NEW t \in Seq(Tokens), NEW p \in Pieces(t)
  PROVE  p \in Seq(Tokens)
<1>1. Len(t) \in Nat /\ DOMAIN t = 1 .. Len(t)
  OBVIOUS
<1>2. CASE p \in {SubSeq(t, 1, n) : n \in 1 .. Len(t)}
  <2>1. PICK n \in 1 .. Len(t) : p = SubSeq(t, 1, n)
    BY <1>2
  <2> QED BY <1>1, <2>1
<1>3. CASE \E n \in 1 .. Len(t) :
             p \in {Append(SubSeq(t, 1, n - 1), Number(d)) : d \in FirstDigits(t[n][2])}
  <2>1. PICK n \in 1 .. Len(t) :
          p \in {Append(SubSeq(t, 1, n - 1), Number(d)) : d \in FirstDigits(t[n][2])}
    BY <1>3
  <2>6. PICK d \in FirstDigits(t[n][2]) : p = Append(SubSeq(t, 1, n - 1), Number(d))
    BY <2>1
  <2>2. t[n] \in Tokens
    BY <1>1
  <2>3. d \in Nat
    <3>1. t[n][2] \in Nat /\ d \in 1 .. t[n][2]
      BY <2>2 DEF Tokens, FirstDigits
    <3> QED BY <3>1
  <2>4. Number(d) \in Tokens
    BY <2>3 DEF Number, Tokens
  <2>5. SubSeq(t, 1, n - 1) \in Seq(Tokens)
    BY <1>1
  <2> QED BY <2>4, <2>5, <2>6
<1> QED BY <1>2, <1>3, Zenon DEF Pieces

(* What the file holds after a piece of the buffer has been written.        *)
LEMMA PieceWritten ==
  ASSUME IInv, pc = "write", NEW p \in Seq(Tokens)
  PROVE  LET w == SubSeq(file, 1, fileOff) \o p
         IN  /\ w \in Seq(Tokens) /\ Len(w) = fileOff + Len(p) /\ w \o << >> = w
             /\ Len(w) \in Nat
             /\ ~cut /\ p = out => /\ Lines(w) /\ Len(w) = 4 * (node - 1) /\ Len(w) % 4 = 0
<1> DEFINE w == SubSeq(file, 1, fileOff) \o p
<1>1. /\ file \in Seq(Tokens) /\ Len(file) = fileOff /\ Len(file) \in Nat
      /\ Len(list) \in Nat /\ node \in 1 .. Len(list) + 1
      /\ ~cut => Lines(file \o out) /\ Len(file \o out) = 4 * (node - 1)
  BY WhileSaving
<1>2. SubSeq(file, 1, fileOff) = file
  BY <1>1, SubSeqFull
<1>3. w = file \o p
  BY <1>2
<1>4. w \in Seq(Tokens) /\ Len(w) = fileOff + Len(p)
  <2>1. file \o p \in Seq(Tokens) /\ Len(file \o p) = Len(file) + Len(p)
    BY <1>1, ConcatProperties, Zenon
  <2> QED BY <1>1, <1>3, <2>1
<1> HIDE DEF w
<1>5. w \o << >> = w /\ Len(w) \in Nat
  BY <1>4, ConcatEmptySeq
<1>6. ASSUME ~cut, p = out
      PROVE  Lines(w) /\ Len(w) = 4 * (node - 1) /\ Len(w) % 4 = 0
  <2>1. Lines(w) /\ Len(w) = 4 * (node - 1)
    BY <1>1, <1>3, <1>6
  <2>2. Len(w) = 4 * (node - 1) + 0 /\ node - 1 \in Nat
    BY <1>1, <2>1
  <2>3. (4 * (node - 1) + 0) % 4 = 0
    BY <2>2, QuarterOf
  <2> QED BY <2>1, <2>2, <2>3
<1> QED BY <1>4, <1>5, <1>6 DEF w

(* A write moves the buffer to the file; a whole one leaves lines.          *)
LEMMA WriteInv == IInv /\ Write => IInv'
<1> SUFFICES ASSUME IInv, Write PROVE IInv'
  OBVIOUS
<1>1. PICK p \in Pieces(out) : AfterWrite(p) /\ cut' = (cut \/ p # out)
  BY DEF Write
<1> DEFINE w == SubSeq(file, 1, fileOff) \o p
<1>2. /\ pc = "write" /\ file' = w /\ fileOff' = fileOff + Len(p) /\ out' = << >>
      /\ UNCHANGED <<list, node, read, fill, batches, ranges, msgs, pool>>
  BY <1>1 DEF Write, AfterWrite
<1>3. \/ node > Len(list) /\ pc' = "saved" /\ result' = "ok"
      \/ ~(node > Len(list)) /\ pc' = "line" /\ result' = result
  BY DEF Write
<1>4. /\ fileOff \in Nat /\ out \in Seq(Tokens)
      /\ list \in Seq(Messages) /\ Len(list) \in Nat /\ node \in 1 .. Len(list) + 1
      /\ result = "none" /\ Ascends(list) /\ cut \in BOOLEAN /\ ~Loading
  BY <1>2, WhileSaving
<1>5. p \in Seq(Tokens)
  BY <1>4, PieceType
<1>6. /\ w \in Seq(Tokens) /\ Len(w) = fileOff + Len(p) /\ w \o << >> = w /\ Len(w) \in Nat
      /\ ~cut /\ p = out => Lines(w) /\ Len(w) = 4 * (node - 1) /\ Len(w) % 4 = 0
  BY <1>2, <1>5, PieceWritten
<1> HIDE DEF w
<1>7. cut' \in BOOLEAN /\ (cut => cut') /\ (~cut' => ~cut /\ p = out)
  BY <1>1, <1>4
<1>8. file' \o out' = w
  BY <1>2, <1>6
<1>9. TypeOK'
  BY <1>2, <1>3, <1>4, <1>6, <1>7 DEF IInv, TypeOK, read, fill, pool
<1>10. Lines(file)' <=> Lines(w)
  BY <1>2 DEF Lines
<1>11. Ascends(list)'
  BY <1>2, <1>4 DEF Ascends
<1>12. SaveState'
  <2>1. Lines(file \o out)' <=> Lines(w)
    BY <1>2, <1>8 DEF Lines
  <2>2. ~(node > Len(list)) => node <= Len(list)
    BY <1>4
  <2> HIDE DEF Lines, Ascends
  <2>3. CASE pc' = "saved"
    BY <2>3 DEF SaveState
  <2>4. CASE pc' = "line" /\ node <= Len(list) /\ result' = result
    BY <1>2, <1>4, <1>6, <1>7, <1>8, <1>11, <2>1, <2>4 DEF SaveState
  <2> QED BY <1>3, <2>2, <2>3, <2>4
<1>13. FileState'
  <2>1. result' = "ok" => node = Len(list) + 1
    BY <1>3, <1>4
  <2>2. ~cut' /\ result' = "ok" => Len(w) = 4 * Len(list)
    BY <1>4, <1>6, <1>7, <2>1
  <2> HIDE DEF Lines, Ascends
  <2> QED BY <1>2, <1>6, <1>7, <1>10, <1>11, <2>2 DEF FileState
<1>14. ReadState'
  BY <1>2, <1>3, <1>4, NothingRead
<1> QED BY <1>2, <1>3, <1>4, <1>7, <1>9, <1>12, <1>13, <1>14, LoadNotBegun DEF IInv

(* A write that fails leaves the file, or the file with all of the buffer.  *)
LEMMA WriteFailsInv == IInv /\ WriteFails => IInv'
<1> SUFFICES ASSUME IInv, WriteFails PROVE IInv'
  OBVIOUS
<1> DEFINE w == SubSeq(file, 1, fileOff) \o out
<1>1. /\ pc = "write" /\ file' \in {file, w}
      /\ pc' = "saved" /\ result' = "failed"
      /\ UNCHANGED <<list, node, out, fileOff, cut, read, fill, batches, ranges, msgs, pool>>
  BY DEF WriteFails
<1>2. /\ out \in Seq(Tokens) /\ file \in Seq(Tokens) /\ Ascends(list) /\ Len(list) \in Nat
      /\ cut \in BOOLEAN /\ ~Loading
  BY <1>1, WhileSaving
<1>3. w \in Seq(Tokens) /\ (~cut => Lines(w) /\ Len(w) % 4 = 0)
  BY <1>1, <1>2, PieceWritten
<1> HIDE DEF w
<1>4. TypeOK'
  BY <1>1, <1>2, <1>3 DEF IInv, TypeOK, read, fill, pool
<1>5. SaveState'
  BY <1>1 DEF SaveState
<1>6. Ascends(list)'
  BY <1>1, <1>2 DEF Ascends
<1>7. FileState'
  <2>1. CASE file' = file
    BY <1>1, <1>6, <2>1 DEF IInv, FileState, Lines
  <2>2. CASE file' = w
    <3>1. Lines(file)' <=> Lines(w)
      BY <1>1, <2>2 DEF Lines
    <3> HIDE DEF Lines, Ascends
    <3> QED BY <1>1, <1>3, <1>6, <2>2, <3>1 DEF FileState
  <2> QED BY <1>1, <2>1, <2>2
<1>8. ReadState'
  BY <1>1, <1>2, NothingRead
<1> QED BY <1>1, <1>2, <1>4, <1>5, <1>7, <1>8, LoadNotBegun DEF IInv

(* A crash leaves the file.                                                 *)
LEMMA CrashInv == IInv /\ Crash => IInv'
<1> SUFFICES ASSUME IInv, Crash PROVE IInv'
  OBVIOUS
<1>1. /\ pc \in {"line", "write"} /\ pc' = "saved" /\ result' = "crashed"
      /\ UNCHANGED <<list, node, out, file, fileOff, cut, read, fill, batches, ranges, msgs, pool>>
  BY DEF Crash
<1>2. TypeOK'
  BY <1>1 DEF IInv, TypeOK, read, fill, pool
<1>3. SaveState'
  BY <1>1 DEF SaveState
<1>4. FileState'
  BY <1>1 DEF IInv, FileState, Lines, Ascends
<1>5. cut \in BOOLEAN /\ ~Loading /\ Len(list') \in Nat
  BY <1>1, WhileSaving
<1>6. ReadState'
  BY <1>1, <1>5, NothingRead
<1> QED BY <1>1, <1>2, <1>3, <1>4, <1>5, <1>6, LoadNotBegun DEF IInv

-----------------------------------------------------------------------------
(* The steps of a load.  What was saved stays as it is.                     *)
LEMMA SaveKept ==
  ASSUME IInv, UNCHANGED save, pc' \notin {"save", "line", "write"}
  PROVE  SaveState' /\ FileState'
<1>1. UNCHANGED <<list, file, cut, result>>
  BY DEF save
<1>2. SaveState'
  BY DEF SaveState
<1>3. FileState'
  BY <1>1 DEF IInv, FileState, Lines, Ascends
<1> QED BY <1>2, <1>3

(* What was read of the file stays as it is, too.                           *)
LEMMA ReadKept ==
  ASSUME IInv, UNCHANGED <<save, read>>, pc' \notin {"save", "line", "write", "saved", "fault"},
         pc' # "null" => file # NoFile
  PROVE  ReadState'
<1>1. UNCHANGED <<list, file, cut, readOff, entries>>
  BY DEF save, read
<1>2. ~cut => /\ readOff = 4 * Len(entries) /\ Len(entries) <= Len(list)
              /\ \A i \in DOMAIN entries : entries[i] = list[i]
  BY DEF IInv, ReadState
<1>3. ~cut' => /\ readOff' = 4 * Len(entries') /\ Len(entries') <= Len(list')
               /\ \A i \in DOMAIN entries' : entries'[i] = list'[i]
  BY <1>1, <1>2
<1>4. pc' \notin {"save", "line", "write", "saved", "null"} => file' # NoFile
  BY <1>1
<1>5. ~(pc' \in {"save", "line", "write", "saved"}) /\ pc' # "fault"
  OBVIOUS
<1> QED BY <1>3, <1>4, <1>5 DEF ReadState

(* What is known of the offsets while they are loaded.                      *)
LEMMA WhileLoading ==
  ASSUME IInv
  PROVE  /\ indexes \in Seq(Offsets) /\ batch \in Seq(Offsets) /\ msgs \in Seq(Offsets)
         /\ entries \in Seq(Offsets)
         /\ batches \in Seq(Seq(Offsets))
         /\ ranges \in Seq([diff : 0 .. LongMax, end : 0 .. LongMax])
         /\ Len(batches) \in Nat /\ DOMAIN batches = 1 .. Len(batches)
         /\ Len(ranges) \in Nat /\ DOMAIN ranges = 1 .. Len(ranges)
         /\ pending \in Seq(Nat) /\ Len(pending) \in Nat
         /\ Len(ranges) + Len(pending) = Len(batches)
         /\ \A i \in DOMAIN pending : pending[i] = Len(ranges) + i
BY DEF IInv, TypeOK, BatchQueue

(* The parts of an ascending list ascend.                                   *)
LEMMA AscendsParts ==
  ASSUME NEW s \in Seq(Offsets), NEW t \in Seq(Offsets), Ascends(s \o t)
  PROVE  Ascends(s) /\ Ascends(t)
<1>1. Len(s) \in Nat /\ Len(t) \in Nat /\ DOMAIN s = 1 .. Len(s) /\ DOMAIN t = 1 .. Len(t)
  OBVIOUS
<1>2. DOMAIN (s \o t) = 1 .. Len(s) + Len(t)
  OBVIOUS
<1>3. \A i \in 1 .. Len(s) + Len(t) :
        (s \o t)[i] = IF i <= Len(s) THEN s[i] ELSE t[i - Len(s)]
  BY ConcatProperties, Zenon
<1> DEFINE v == s \o t
<1> HIDE DEF v
<1>4. /\ \A i, j \in 1 .. Len(s) + Len(t) : i <= j => Below(v[i], v[j])
      /\ \A i \in 1 .. Len(s) + Len(t) : v[i].start < v[i].end
  BY <1>2 DEF Ascends, v
<1>5. ASSUME NEW i \in DOMAIN s, NEW j \in DOMAIN s, i <= j
      PROVE  Below(s[i], s[j])
  <2>1. v[i] = s[i] /\ v[j] = s[j] /\ i \in 1 .. Len(s) + Len(t) /\ j \in 1 .. Len(s) + Len(t)
    BY <1>1, <1>3 DEF v
  <2> QED BY <1>4, <1>5, <2>1
<1>6. ASSUME NEW i \in DOMAIN t, NEW j \in DOMAIN t, i <= j
      PROVE  Below(t[i], t[j])
  <2> DEFINE k == i + Len(s)
             l == j + Len(s)
  <2>1. /\ k \in 1 .. Len(s) + Len(t) /\ l \in 1 .. Len(s) + Len(t) /\ k <= l
        /\ ~(k <= Len(s)) /\ ~(l <= Len(s)) /\ k - Len(s) = i /\ l - Len(s) = j
    BY <1>1, <1>6
  <2> HIDE DEF k, l
  <2>2. v[k] = t[i] /\ v[l] = t[j]
    BY <1>3, <2>1 DEF v
  <2> QED BY <1>4, <2>1, <2>2
<1>7. ASSUME NEW i \in DOMAIN s
      PROVE  s[i].start < s[i].end
  <2>1. v[i] = s[i] /\ i \in 1 .. Len(s) + Len(t)
    BY <1>1, <1>3 DEF v
  <2> QED BY <1>4, <2>1
<1>8. ASSUME NEW i \in DOMAIN t
      PROVE  t[i].start < t[i].end
  <2> DEFINE k == i + Len(s)
  <2>1. k \in 1 .. Len(s) + Len(t) /\ ~(k <= Len(s)) /\ k - Len(s) = i
    BY <1>1
  <2> HIDE DEF k
  <2>2. v[k] = t[i]
    BY <1>3, <2>1 DEF v
  <2> QED BY <1>4, <2>1, <2>2
<1> QED BY <1>5, <1>6, <1>7, <1>8 DEF Ascends

(* Moving the head of one list to the end of another keeps their join.      *)
LEMMA HeadMoves ==
  ASSUME NEW s \in Seq(Offsets), NEW t \in Seq(Offsets), t # << >>
  PROVE  Append(s, Head(t)) \o Tail(t) = s \o t
<1> DEFINE v == Append(s, Head(t)) \o Tail(t)
           w == s \o t
<1>1. /\ v \in Seq(Offsets) /\ w \in Seq(Offsets)
      /\ Len(v) = Len(s) + Len(t) /\ Len(w) = Len(s) + Len(t)
  OBVIOUS
<1>2. \A i \in 1 .. Len(s) + Len(t) : v[i] = w[i]
  OBVIOUS
<1> HIDE DEF v, w
<1>3. v = w
  BY <1>1, <1>2, SeqEqual
<1> QED BY <1>3 DEF v, w

(* A load that cannot read the file ends.                                   *)
LEMMA LoadNothingInv == IInv /\ LoadNothing => IInv'
<1> SUFFICES ASSUME IInv, LoadNothing PROVE IInv'
  OBVIOUS
<1>1. pc = "saved" /\ pc' = "null" /\ UNCHANGED <<save, read, fill, batches, ranges, msgs, pool>>
  BY DEF LoadNothing
<1>2. TypeOK'
  BY <1>1 DEF IInv, TypeOK, save, read, fill, pool
<1>3. ~Loading /\ cut \in BOOLEAN /\ cut' = cut
  BY <1>1 DEF Loading, IInv, TypeOK, save
<1>4. ReadState'
  BY <1>1, ReadKept
<1> QED BY <1>1, <1>2, <1>3, <1>4, SaveKept, LoadNotBegun DEF IInv

LEMMA LoadOpenInv == IInv /\ LoadOpen => IInv'
<1> SUFFICES ASSUME IInv, LoadOpen PROVE IInv'
  OBVIOUS
<1>1. /\ pc = "saved" /\ pc' = "read" /\ file # NoFile
      /\ UNCHANGED <<save, read, fill, batches, ranges, msgs, pool>>
  BY DEF LoadOpen
<1>2. TypeOK'
  BY <1>1 DEF IInv, TypeOK, save, read, fill, pool
<1>3. ~Loading /\ cut \in BOOLEAN /\ cut' = cut
  BY <1>1 DEF Loading, IInv, TypeOK, save
<1>4. ReadState'
  BY <1>1, ReadKept
<1> QED BY <1>1, <1>2, <1>3, <1>4, SaveKept, LoadNotBegun DEF IInv

(* What is known of the file while it is read.                              *)
LEMMA WhileReading ==
  ASSUME IInv, pc = "read"
  PROVE  /\ file # NoFile /\ file \in Seq(Tokens) /\ Len(file) \in Nat
         /\ list \in Seq(Messages) /\ Len(list) \in Nat
         /\ entries \in Seq(Offsets) /\ Len(entries) \in Nat /\ readOff \in Nat
         /\ cut \in BOOLEAN /\ ~Loading
         /\ ~cut => /\ Lines(file) /\ Len(file) % 4 = 0
                    /\ readOff = 4 * Len(entries) /\ Len(entries) <= Len(list)
                    /\ \A i \in DOMAIN entries : entries[i] = list[i]
<1>1. file # NoFile
  BY DEF IInv, ReadState
<1> QED BY <1>1 DEF IInv, TypeOK, FileState, ReadState, Loading

(* A line is read: without a short write, the next of the list.             *)
LEMMA ReadLineInv == IInv /\ ReadLine => IInv'
<1> SUFFICES ASSUME IInv, ReadLine PROVE IInv'
  OBVIOUS
<1>1. pc = "read" /\ UNCHANGED <<pc, save, fill, batches, ranges, msgs, pool>>
  BY DEF ReadLine
<1>2. PICK b \in NextOf({Blank}, readOff) : \E e \in NextOf({NewLine}, b) :
        /\ entries' = Append(entries, [start |-> Atol(readOff), end |-> Atol(b)])
        /\ readOff' = e
  BY DEF ReadLine
<1>3. PICK e \in NextOf({NewLine}, b) :
        /\ entries' = Append(entries, [start |-> Atol(readOff), end |-> Atol(b)])
        /\ readOff' = e
  BY <1>2
<1> DEFINE x == [start |-> Atol(readOff), end |-> Atol(b)]
<1>4. /\ file # NoFile /\ file \in Seq(Tokens) /\ Len(file) \in Nat
      /\ list \in Seq(Messages) /\ Len(list) \in Nat
      /\ entries \in Seq(Offsets) /\ Len(entries) \in Nat /\ readOff \in Nat
      /\ cut \in BOOLEAN /\ ~Loading
      /\ ~cut => /\ Lines(file) /\ Len(file) % 4 = 0
                 /\ readOff = 4 * Len(entries) /\ Len(entries) <= Len(list)
                 /\ \A i \in DOMAIN entries : entries[i] = list[i]
  BY <1>1, WhileReading
<1>5. b \in readOff + 1 .. Len(file) /\ e \in b + 1 .. Len(file)
  BY DEF NextOf
<1>6. x \in Offsets
  <2>1. \A o : Atol(o) \in 0 .. LongMax
    BY NumbersAssumption DEF Atol
  <2> QED BY <2>1 DEF Offsets
<1>7. ASSUME ~cut
      PROVE  Len(entries) + 1 \in DOMAIN list /\ x = list[Len(entries) + 1] /\ e = readOff + 4
  <2> DEFINE k == Len(entries)
  <2>1. k \in Nat /\ readOff = 4 * k /\ 4 * k < Len(file)
    <3>1. readOff = 4 * Len(entries)
      BY <1>4, <1>7
    <3>2. readOff < Len(file)
      BY <1>4, <1>5
    <3> QED BY <1>4, <3>1, <3>2
  <2> HIDE DEF k
  <2>2. /\ k + 1 \in DOMAIN list
        /\ NextOf({Blank}, 4 * k) = {4 * k + 2}
        /\ NextOf({NewLine}, 4 * k + 2) = {4 * k + 4}
        /\ [start |-> Atol(4 * k), end |-> Atol(4 * k + 2)] = list[k + 1]
    BY <1>4, <1>7, <2>1, LineRead
  <2>3. b = 4 * k + 2
    BY <2>1, <2>2
  <2>4. e = 4 * k + 4
    BY <2>2, <2>3
  <2> QED BY <2>1, <2>2, <2>3, <2>4 DEF k
<1> HIDE DEF x
<1>8. /\ entries' \in Seq(Offsets) /\ Len(entries') = Len(entries) + 1
      /\ \A i \in DOMAIN entries : entries'[i] = entries[i]
      /\ entries'[Len(entries) + 1] = x
      /\ \A i \in DOMAIN entries' : i \in DOMAIN entries \/ i = Len(entries) + 1
  BY <1>3, <1>4, <1>6 DEF x
<1>9. readOff' \in Nat
  BY <1>3, <1>4, <1>5
<1>10. TypeOK'
  BY <1>1, <1>8, <1>9 DEF IInv, TypeOK, save, fill, pool
<1>11. file' = file /\ list' = list /\ cut' = cut /\ pc' = pc
  BY <1>1 DEF save
<1>12. ReadState'
  <2>1. ASSUME ~cut
        PROVE  /\ readOff' = 4 * Len(entries') /\ Len(entries') <= Len(list)
               /\ \A i \in DOMAIN entries' : entries'[i] = list[i]
    <3>1. readOff' = 4 * Len(entries')
      BY <1>3, <1>4, <1>7, <1>8, <2>1
    <3>2. Len(entries') <= Len(list)
      BY <1>4, <1>7, <1>8, <2>1
    <3>3. \A i \in DOMAIN entries' : entries'[i] = list[i]
      BY <1>4, <1>7, <1>8, <2>1
    <3> QED BY <3>1, <3>2, <3>3
  <2>2. file' # NoFile
    BY <1>1, <1>4, <1>11
  <2>3. ~cut' => /\ readOff' = 4 * Len(entries') /\ Len(entries') <= Len(list')
                 /\ \A i \in DOMAIN entries' : entries'[i] = list'[i]
    BY <1>11, <2>1
  <2>4. ~(pc' \in {"save", "line", "write", "saved"}) /\ pc' # "fault"
    BY <1>1
  <2> QED BY <2>2, <2>3, <2>4 DEF ReadState
<1>13. SaveState' /\ FileState'
  BY <1>1, SaveKept
<1> QED BY <1>1, <1>4, <1>10, <1>11, <1>12, <1>13, LoadNotBegun DEF IInv

(* The buffer is left only after a short write.                             *)
LEMMA ReadFaultInv == IInv /\ ReadFault => IInv'
<1> SUFFICES ASSUME IInv, ReadFault PROVE IInv'
  OBVIOUS
<1>1. /\ pc = "read" /\ pc' = "fault" /\ readOff < Len(file)
      /\ \A b \in NextOf({Blank}, readOff) : \A e \in NextOf({NewLine}, b) :
           b > readOff + 2 \/ e > b + 2
      /\ UNCHANGED <<save, read, fill, batches, ranges, msgs, pool>>
  BY DEF ReadFault
<1>2. /\ file # NoFile /\ file \in Seq(Tokens) /\ list \in Seq(Messages)
      /\ Len(entries) \in Nat /\ readOff \in Nat /\ cut \in BOOLEAN /\ ~Loading
      /\ ~cut => Lines(file) /\ Len(file) % 4 = 0 /\ readOff = 4 * Len(entries)
  BY <1>1, WhileReading
<1>3. cut
  <2> SUFFICES ASSUME ~cut PROVE FALSE
    BY <1>2
  <2> DEFINE k == Len(entries)
  <2>1. k \in Nat /\ readOff = 4 * k /\ 4 * k < Len(file)
    BY <1>1, <1>2
  <2> HIDE DEF k
  <2>2. /\ NextOf({Blank}, 4 * k) = {4 * k + 2}
        /\ NextOf({NewLine}, 4 * k + 2) = {4 * k + 4}
    BY <1>2, <2>1, LineRead
  <2>3. 4 * k + 2 > 4 * k + 2 \/ 4 * k + 4 > (4 * k + 2) + 2
    BY <1>1, <2>1, <2>2
  <2> QED BY <2>1, <2>3
<1>4. TypeOK'
  BY <1>1 DEF IInv, TypeOK, save, read, fill, pool
<1>5. cut' = cut /\ file' = file
  BY <1>1 DEF save
<1>6. ReadState'
  BY <1>1, <1>2, <1>3, <1>5 DEF ReadState
<1>7. SaveState' /\ FileState'
  BY <1>1, SaveKept
<1> QED BY <1>1, <1>2, <1>4, <1>5, <1>6, <1>7, LoadNotBegun DEF IInv

(* The offsets to load are the entries read; without any, which without a   *)
(* short write is an empty file, there is a fault.                          *)
LEMMA ReadEndInv == IInv /\ ReadEnd => IInv'
<1> SUFFICES ASSUME IInv, ReadEnd PROVE IInv'
  OBVIOUS
<1>1. /\ pc = "read" /\ readOff = Len(file) /\ indexes' = entries
      /\ pc' = IF entries = << >> THEN "fault" ELSE "batch"
      /\ UNCHANGED <<save, read, batch, batchBytes, batches, ranges, msgs, pool>>
  BY DEF ReadEnd
<1>2. /\ file # NoFile /\ file \in Seq(Tokens) /\ Len(file) \in Nat
      /\ list \in Seq(Messages) /\ Len(list) \in Nat
      /\ entries \in Seq(Offsets) /\ Len(entries) \in Nat
      /\ cut \in BOOLEAN /\ ~Loading
      /\ ~cut => /\ readOff = 4 * Len(entries) /\ Len(entries) <= Len(list)
                 /\ \A i \in DOMAIN entries : entries[i] = list[i]
  BY <1>1, WhileReading
<1>3. UNCHANGED <<list, file, cut, result, readOff, entries>>
  BY <1>1 DEF save, read
<1>4. /\ indexes = << >> /\ batch = << >> /\ batches = << >> /\ msgs = << >> /\ ranges = << >>
      /\ pending = << >> /\ running = {} /\ finished = {}
  <2>1. {indexes, batch, batches, msgs, ranges, pending} = {<< >>}
    BY <1>2, Zenon DEF IInv, LoadState
  <2>2. running = {} /\ finished = {}
    BY <1>2, Zenon DEF IInv, LoadState
  <2>3. \A x \in {indexes, batch, batches, msgs, ranges, pending} : x = << >>
    BY <2>1
  <2> QED BY <2>2, <2>3
<1>5. TypeOK'
  BY <1>1, <1>2 DEF IInv, TypeOK, save, read, fill, pool
<1>6. SaveState' /\ FileState'
  <2>1. pc' \notin {"save", "line", "write"}
    BY <1>1
  <2> QED BY <1>1, <2>1, SaveKept
<1>7. ReadState'
  <2>1. entries = << >> /\ ~cut => file = << >>
    BY <1>1, <1>2
  <2>2. pc' \in {"fault", "batch"} /\ (pc' = "fault" => entries = << >>)
    BY <1>1
  <2> QED BY <1>2, <1>3, <2>1, <2>2 DEF ReadState
<1>8. CASE entries = << >>
  <2>1. pc' = "fault" /\ indexes' = indexes
    BY <1>1, <1>4, <1>8
  <2>2. UNCHANGED <<fill, batches, ranges, msgs, pool>>
    BY <1>1, <2>1 DEF fill
  <2> QED BY <1>2, <1>3, <1>5, <1>6, <1>7, <2>1, <2>2, LoadNotBegun DEF IInv
<1>9. CASE entries # << >>
  <2>1. pc' = "batch" /\ Loading'
    BY <1>1, <1>9 DEF Loading
  <2>2. LoadState'
    BY <1>1, <1>3, <1>4, <1>9, <2>1 DEF LoadState, pool
  <2>3. BatchQueue'
    BY <1>1 DEF IInv, BatchQueue, pool
  <2>4. BatchesInOrder'
    <3>1. batch' \o indexes' = entries
      BY <1>1, <1>2, <1>4
    <3>2. DOMAIN batches' = {} /\ DOMAIN ranges' = {}
      BY <1>1, <1>4
    <3>3. ~cut => Ascends(entries)
      <4>1. Ascends(list)
        BY <1>2 DEF IInv, FileState
      <4>2. ~cut => \A i \in DOMAIN entries : i \in DOMAIN list /\ entries[i] = list[i]
        BY <1>2
      <4> QED BY <4>1, <4>2 DEF Ascends
    <3>4. ~cut' => Ascends(batch \o indexes)'
      BY <1>3, <3>1, <3>3 DEF Ascends
    <3> QED BY <3>2, <3>4 DEF BatchesInOrder
  <2>5. EntriesKept'
    <3>1. ASSUME NEW m
          PROVE  /\ Cells(batches, m)' = {} /\ Places(msgs, m)' = {} /\ Places(batch, m)' = {}
                 /\ Places(indexes, m)' = Places(entries, m)
                 /\ Places(entries, m)' = Places(entries, m)
                 /\ Cardinality(Places(entries, m)) \in Nat
      <4>1. Cardinality(Places(entries, m)) \in Nat
        BY <1>2, PlacesFinite
      <4> QED BY <1>1, <1>3, <1>4, <4>1 DEF Cells, Places
    <3>2. Offsets' = Offsets
      BY DEF Offsets
    <3>3. Cardinality({}) = 0 /\ IsFiniteSet({})
      BY FS_EmptySet
    <3>4. ASSUME NEW m
          PROVE  /\ IsFiniteSet(Cells(batches, m)')
                 /\ Cardinality(Places(msgs, m)') + Cardinality(Cells(batches, m)')
                      + Cardinality(Places(batch, m)') + Cardinality(Places(indexes, m)')
                    = Cardinality(Places(entries, m)')
      BY <3>1, <3>3
    <3> QED BY <3>2, <3>4, Zenon DEF EntriesKept
  <2> QED BY <1>5, <1>6, <1>7, <2>2, <2>3, <2>4, <2>5 DEF IInv
<1> QED BY <1>8, <1>9

(* What a step of the load leaves as it is.                                 *)
LEMMA LoadingKept ==
  ASSUME IInv, Loading, Loading', UNCHANGED <<save, read>>
  PROVE  /\ SaveState' /\ FileState' /\ ReadState'
         /\ readOff' = Len(file') /\ cut' = cut
<1>1. pc' \notin {"save", "line", "write", "saved", "fault", "null"}
  BY DEF Loading
<1>2. file # NoFile /\ readOff = Len(file)
  BY DEF IInv, ReadState, LoadState, Loading
<1>3. SaveState' /\ FileState'
  BY <1>1, SaveKept
<1>4. ReadState'
  BY <1>1, <1>2, ReadKept
<1> QED BY <1>2, <1>3, <1>4 DEF save, read

(* A batch that goes to the pool is the last of those not begun.            *)
LEMMA BatchEnqueued ==
  ASSUME IInv, NEW s \in Seq(Offsets), s # << >>, ~cut => Ascends(s),
         Pool!Submit(Len(batches) + 1), batches' = Append(batches, s), ranges' = ranges
  PROVE  /\ BatchQueue'
         /\ batches' \in Seq(Seq(Offsets))
         /\ ~cut => /\ \A b \in DOMAIN batches' \ DOMAIN ranges' : Ascends(batches'[b])
                    /\ \A b \in DOMAIN ranges' : \A i \in DOMAIN batches'[b] :
                         ~Outside(batches'[b][i], ranges'[b])
<1> DEFINE n == Len(batches) + 1
<1>1. /\ pending' = Append(pending, n) /\ running' = running /\ finished' = finished
  BY DEF Pool!Submit
<1>2. /\ batches \in Seq(Seq(Offsets)) /\ Len(batches) \in Nat
      /\ DOMAIN batches = 1 .. Len(batches)
      /\ Len(ranges) \in Nat /\ DOMAIN ranges = 1 .. Len(ranges)
      /\ pending \in Seq(Nat) /\ Len(pending) \in Nat
      /\ Len(ranges) + Len(pending) = Len(batches)
      /\ \A i \in DOMAIN pending : pending[i] = Len(ranges) + i
  BY WhileLoading
<1>3. /\ batches' \in Seq(Seq(Offsets)) /\ Len(batches') = n
      /\ DOMAIN batches' = 1 .. n /\ batches'[n] = s
      /\ \A b \in DOMAIN batches : batches'[b] = batches[b]
  BY <1>2
<1>4. n \notin DOMAIN ranges /\ DOMAIN ranges \subseteq DOMAIN batches
  BY <1>2
<1>5. BatchQueue'
  <2>1. /\ pending' \in Seq(Nat) /\ Len(pending') = Len(pending) + 1
        /\ \A i \in DOMAIN pending' : pending'[i] = Len(ranges) + i
    <3>1. n \in Nat /\ n = Len(ranges) + (Len(pending) + 1)
      <4>1. /\ Len(ranges) \in Nat /\ Len(pending) \in Nat
            /\ Len(batches) = Len(ranges) + Len(pending)
        BY <1>2, Zenon
      <4> QED BY <4>1
    <3> HIDE DEF n
    <3>2. /\ pending' \in Seq(Nat) /\ DOMAIN pending' = 1 .. Len(pending) + 1
          /\ Len(pending') = Len(pending) + 1 /\ pending'[Len(pending) + 1] = n
          /\ \A i \in 1 .. Len(pending) : pending'[i] = pending[i] /\ i \in DOMAIN pending
      BY <1>1, <1>2, <3>1
    <3>3. ASSUME NEW i \in DOMAIN pending'
          PROVE  pending'[i] = Len(ranges) + i
      <4>1. i = Len(pending) + 1 \/ i \in 1 .. Len(pending)
        BY <1>2, <3>2
      <4>2. CASE i = Len(pending) + 1
        BY <3>1, <3>2, <4>2
      <4>3. CASE i \in 1 .. Len(pending)
        BY <1>2, <3>2, <4>3
      <4> QED BY <4>1, <4>2, <4>3
    <3> QED BY <3>2, <3>3
  <2>2. Len(ranges) + Len(pending') = Len(batches')
    BY <1>2, <1>3, <2>1
  <2>3. running' \union finished' = DOMAIN ranges
    BY <1>1 DEF IInv, BatchQueue
  <2>4. \A b \in finished' : batches'[b] = << >>
    BY <1>1, <1>3, <1>4 DEF IInv, BatchQueue
  <2>5. \A b \in DOMAIN batches' \ DOMAIN ranges' : batches'[b] # << >>
    <3>1. \A b \in DOMAIN batches \ DOMAIN ranges : batches[b] # << >>
      BY DEF IInv, BatchQueue
    <3>2. \A b \in DOMAIN batches' : b = n \/ b \in DOMAIN batches
      BY <1>2, <1>3
    <3> HIDE DEF n
    <3> QED BY <1>3, <3>1, <3>2
  <2> QED BY <2>1, <2>2, <2>3, <2>4, <2>5 DEF BatchQueue
<1>6. ASSUME ~cut
      PROVE  \A b \in DOMAIN batches' \ DOMAIN ranges' : Ascends(batches'[b])
  <2>1. \A b \in DOMAIN batches \ DOMAIN ranges : Ascends(batches[b])
    BY <1>6 DEF IInv, BatchesInOrder
  <2>2. \A b \in DOMAIN batches' : b = n \/ b \in DOMAIN batches
    BY <1>2, <1>3
  <2> HIDE DEF n
  <2> QED BY <1>3, <1>6, <2>1, <2>2
<1>7. ASSUME ~cut, NEW b \in DOMAIN ranges', NEW i \in DOMAIN batches'[b]
      PROVE  ~Outside(batches'[b][i], ranges'[b])
  <2>1. b \in DOMAIN ranges /\ batches'[b] = batches[b]
    BY <1>3, <1>4
  <2> QED BY <1>7, <2>1 DEF IInv, BatchesInOrder
<1> QED BY <1>3, <1>5, <1>6, <1>7

(* An offset goes into the batch, and the batch to the pool when it is large. *)
LEMMA TakeOffsetsInv == IInv /\ TakeOffsets => IInv'
<1> SUFFICES ASSUME IInv, TakeOffsets PROVE IInv'
  OBVIOUS
<1> DEFINE h == Head(indexes)
           b == Append(batch, h)
<1>1. /\ pc = "batch" /\ indexes' = Tail(indexes)
      /\ pc' = IF indexes' = << >> THEN "last" ELSE "batch"
      /\ UNCHANGED <<save, read, ranges, msgs>>
  BY DEF TakeOffsets
<1>2. \/ /\ batchBytes + Bytes(h) \in 0 .. ReadSize - 1
         /\ batch' = b /\ batchBytes' = batchBytes + Bytes(h)
         /\ UNCHANGED <<batches, pool>>
      \/ /\ Pool!Submit(Len(batches) + 1) /\ batches' = Append(batches, b)
         /\ batch' = << >> /\ batchBytes' = 0
  BY DEF TakeOffsets, Enqueue
<1>3. /\ indexes \in Seq(Offsets) /\ batch \in Seq(Offsets)
      /\ batches \in Seq(Seq(Offsets))
  BY WhileLoading
<1>4. Loading /\ Loading' /\ indexes # << >>
  BY <1>1 DEF Loading, IInv, LoadState
<1>5. /\ h \in Offsets /\ b \in Seq(Offsets) /\ b # << >>
      /\ Tail(indexes) \in Seq(Offsets)
  BY <1>3, <1>4
<1>7. b \o Tail(indexes) = batch \o indexes
  BY <1>3, <1>4, HeadMoves
<1>8. ~cut => Ascends(batch \o indexes)
  BY DEF IInv, BatchesInOrder
<1>9. ASSUME ~cut
      PROVE  Ascends(b) /\ Ascends(Tail(indexes))
  <2>1. Ascends(b \o Tail(indexes))
    BY <1>7, <1>8, <1>9
  <2> HIDE DEF b
  <2> QED BY <1>5, <2>1, AscendsParts
<1>10. \A m \in Offsets :
         /\ Cardinality(Places(b, m)) = IF h = m THEN Cardinality(Places(batch, m)) + 1
                                                 ELSE Cardinality(Places(batch, m))
         /\ Cardinality(Places(indexes, m)) =
              IF h = m THEN Cardinality(Places(Tail(indexes), m)) + 1
                       ELSE Cardinality(Places(Tail(indexes), m))
         /\ Cardinality(Places(batch, m)) \in Nat
         /\ Cardinality(Places(Tail(indexes), m)) \in Nat
         /\ Cardinality(Places(msgs, m)) \in Nat
  <2>1. msgs \in Seq(Offsets)
    BY WhileLoading
  <2>2. ASSUME NEW m \in Offsets
        PROVE  Cardinality(Places(b, m)) = IF h = m THEN Cardinality(Places(batch, m)) + 1
                                                    ELSE Cardinality(Places(batch, m))
    <3> HIDE DEF h
    <3> QED BY <1>3, <1>5, PlacesAppend
  <2>3. ASSUME NEW m \in Offsets
        PROVE  Cardinality(Places(indexes, m)) =
                 IF h = m THEN Cardinality(Places(Tail(indexes), m)) + 1
                          ELSE Cardinality(Places(Tail(indexes), m))
    BY <1>3, <1>4, PlacesTail
  <2> HIDE DEF h, b
  <2>4. \A m \in Offsets : /\ Cardinality(Places(batch, m)) \in Nat
                            /\ Cardinality(Places(Tail(indexes), m)) \in Nat
                            /\ Cardinality(Places(msgs, m)) \in Nat
    BY <1>3, <1>5, <2>1, PlacesFinite
  <2> QED BY <2>2, <2>3, <2>4
<1>11. \A m \in Offsets :
         /\ IsFiniteSet(Cells(batches, m)) /\ Cardinality(Cells(batches, m)) \in Nat
         /\ Cardinality(Places(msgs, m)) + Cardinality(Cells(batches, m))
              + Cardinality(Places(batch, m)) + Cardinality(Places(indexes, m))
            = Cardinality(Places(entries, m))
  <2>1. \A m \in Offsets :
         /\ IsFiniteSet(Cells(batches, m))
         /\ Cardinality(Places(msgs, m)) + Cardinality(Cells(batches, m))
              + Cardinality(Places(batch, m)) + Cardinality(Places(indexes, m))
            = Cardinality(Places(entries, m))
    BY <1>4 DEF IInv, EntriesKept
  <2> QED BY <2>1, FS_CardinalityType
<1>12. /\ Offsets' = Offsets /\ msgs' = msgs /\ entries' = entries
       /\ ranges' = ranges
  BY <1>1 DEF Offsets, read
<1>13. /\ SaveState' /\ FileState' /\ ReadState'
       /\ readOff' = Len(file') /\ cut' = cut
  BY <1>1, <1>4, LoadingKept
<1>14. LoadState'
  BY <1>1, <1>4, <1>13 DEF LoadState
<1> HIDE DEF h, b
<1>16. CASE /\ batchBytes + Bytes(h) \in 0 .. ReadSize - 1
            /\ batch' = b /\ batchBytes' = batchBytes + Bytes(h)
            /\ UNCHANGED <<batches, pool>>
  <2>1. TypeOK'
    BY <1>1, <1>5, <1>16 DEF IInv, TypeOK, save, read
  <2>2. BatchQueue'
    BY <1>12, <1>16 DEF IInv, BatchQueue, pool
  <2>3. BatchesInOrder'
    <3>1. batch' \o indexes' = batch \o indexes
      BY <1>1, <1>7, <1>16
    <3>2. ~cut' => Ascends(batch \o indexes)'
      BY <1>8, <1>13, <3>1 DEF Ascends
    <3> QED BY <1>12, <1>13, <1>16, <3>2 DEF IInv, BatchesInOrder, Ascends, Outside
  <2>4. EntriesKept'
    <3>1. ASSUME NEW m \in Offsets
          PROVE  /\ IsFiniteSet(Cells(batches', m))
                 /\ Cardinality(Places(msgs', m)) + Cardinality(Cells(batches', m))
                      + Cardinality(Places(batch', m)) + Cardinality(Places(indexes', m))
                    = Cardinality(Places(entries, m))
      BY <1>1, <1>10, <1>11, <1>12, <1>16
    <3> QED BY <1>12, <3>1, Zenon DEF EntriesKept, Places, Cells
  <2> QED BY <1>13, <1>14, <2>1, <2>2, <2>3, <2>4 DEF IInv
<1>17. CASE /\ Pool!Submit(Len(batches) + 1) /\ batches' = Append(batches, b)
            /\ batch' = << >> /\ batchBytes' = 0
  <2>1. /\ BatchQueue'
        /\ batches' \in Seq(Seq(Offsets))
        /\ ~cut => /\ \A c \in DOMAIN batches' \ DOMAIN ranges' : Ascends(batches'[c])
                   /\ \A c \in DOMAIN ranges' : \A i \in DOMAIN batches'[c] :
                        ~Outside(batches'[c][i], ranges'[c])
    BY <1>5, <1>9, <1>12, <1>17, BatchEnqueued
  <2>2. TypeOK'
    <3>1. batchBytes' \in 0 .. ReadSize - 1
      BY <1>17, NumbersAssumption
    <3> QED BY <1>1, <1>5, <1>17, <2>1, <3>1 DEF IInv, TypeOK, save, read
  <2>3. BatchesInOrder'
    <3>1. batch' \o indexes' = Tail(indexes)
      BY <1>1, <1>5, <1>17
    <3>2. ~cut => Ascends(batch \o indexes)'
      BY <1>9, <3>1 DEF Ascends
    <3> QED BY <1>13, <2>1, <3>2 DEF BatchesInOrder, Ascends, Outside
  <2>4. EntriesKept'
    <3>1. ASSUME NEW m \in Offsets
          PROVE  /\ IsFiniteSet(Cells(batches', m))
                 /\ Cardinality(Places(msgs', m)) + Cardinality(Cells(batches', m))
                      + Cardinality(Places(batch', m)) + Cardinality(Places(indexes', m))
                    = Cardinality(Places(entries, m))
      <4>1. /\ IsFiniteSet(Cells(batches', m))
            /\ Cardinality(Cells(batches', m))
                 = Cardinality(Cells(batches, m)) + Cardinality(Places(b, m))
        BY <1>3, <1>5, <1>11, <1>17, CellsAppend
      <4>2. Places(batch', m) = {}
        BY <1>17 DEF Places
      <4>3. Cardinality({}) = 0
        BY FS_EmptySet
      <4> QED BY <1>1, <1>10, <1>11, <1>12, <4>1, <4>2, <4>3
    <3> QED BY <1>12, <3>1, Zenon DEF EntriesKept, Places, Cells
  <2> QED BY <1>13, <1>14, <2>1, <2>2, <2>3, <2>4 DEF IInv
<1> QED BY <1>2, <1>16, <1>17 DEF h, b

(* What is left of the offsets goes to the pool.                            *)
LEMMA LastBatchInv == IInv /\ LastBatch => IInv'
<1> SUFFICES ASSUME IInv, LastBatch PROVE IInv'
  OBVIOUS
<1>1. /\ pc = "last" /\ pc' = "call" /\ UNCHANGED <<save, read, indexes, batchBytes, ranges, msgs>>
  BY DEF LastBatch
<1>2. \/ /\ batch # << >> /\ Pool!Submit(Len(batches) + 1)
         /\ batches' = Append(batches, batch) /\ batch' = << >>
      \/ batch = << >> /\ UNCHANGED <<pool, batch, batches>>
  BY DEF LastBatch
<1>3. Loading /\ Loading' /\ indexes = << >>
  BY <1>1 DEF Loading, IInv, LoadState
<1>4. /\ batch \in Seq(Offsets) /\ batches \in Seq(Seq(Offsets)) /\ msgs \in Seq(Offsets)
  BY WhileLoading
<1>5. /\ SaveState' /\ FileState' /\ ReadState'
      /\ readOff' = Len(file') /\ cut' = cut
  BY <1>1, <1>3, LoadingKept
<1>6. LoadState'
  <2>1. batch' = << >>
    BY <1>2
  <2> QED BY <1>1, <1>3, <1>5, <2>1 DEF LoadState
<1>7. /\ Offsets' = Offsets /\ msgs' = msgs /\ entries' = entries
      /\ ranges' = ranges
  BY <1>1 DEF Offsets, read
<1>8. CASE batch = << >> /\ UNCHANGED <<pool, batch, batches>>
  <2>1. TypeOK'
    BY <1>1, <1>8 DEF IInv, TypeOK, save, read
  <2>2. BatchQueue' /\ BatchesInOrder'
    BY <1>1, <1>5, <1>8 DEF IInv, BatchQueue, BatchesInOrder, Ascends, Outside, pool
  <2>3. EntriesKept'
    <3>1. \A m : /\ Places(msgs, m)' = Places(msgs, m) /\ Places(batch, m)' = Places(batch, m)
                 /\ Places(indexes, m)' = Places(indexes, m)
                 /\ Cells(batches, m)' = Cells(batches, m)
                 /\ Places(entries, m)' = Places(entries, m)
      BY <1>1, <1>7, <1>8 DEF Places, Cells
    <3> QED BY <1>3, <1>7, <3>1 DEF IInv, EntriesKept
  <2> QED BY <1>5, <1>6, <2>1, <2>2, <2>3 DEF IInv
<1>9. CASE /\ batch # << >> /\ Pool!Submit(Len(batches) + 1)
           /\ batches' = Append(batches, batch) /\ batch' = << >>
  <2>1. batch \o indexes = batch
    BY <1>3, <1>4
  <2>2. ~cut => Ascends(batch)
    BY <2>1 DEF IInv, BatchesInOrder
  <2>3. /\ BatchQueue'
        /\ batches' \in Seq(Seq(Offsets))
        /\ ~cut => /\ \A c \in DOMAIN batches' \ DOMAIN ranges' : Ascends(batches'[c])
                   /\ \A c \in DOMAIN ranges' : \A i \in DOMAIN batches'[c] :
                        ~Outside(batches'[c][i], ranges'[c])
    BY <1>4, <1>7, <1>9, <2>2, BatchEnqueued
  <2>4. TypeOK'
    BY <1>1, <1>9, <2>3 DEF IInv, TypeOK, save, read
  <2>5. BatchesInOrder'
    <3>1. DOMAIN (batch' \o indexes') = {}
      BY <1>1, <1>3, <1>9
    <3>2. Ascends(batch \o indexes)'
      BY <3>1 DEF Ascends
    <3> QED BY <1>5, <2>3, <3>2 DEF BatchesInOrder, Ascends, Outside
  <2>6. EntriesKept'
    <3>1. ASSUME NEW m \in Offsets
          PROVE  /\ IsFiniteSet(Cells(batches', m))
                 /\ Cardinality(Places(msgs', m)) + Cardinality(Cells(batches', m))
                      + Cardinality(Places(batch', m)) + Cardinality(Places(indexes', m))
                    = Cardinality(Places(entries, m))
      <4>1. /\ IsFiniteSet(Cells(batches, m))
            /\ Cardinality(Places(msgs, m)) + Cardinality(Cells(batches, m))
                 + Cardinality(Places(batch, m)) + Cardinality(Places(indexes, m))
               = Cardinality(Places(entries, m))
        BY <1>3 DEF IInv, EntriesKept
      <4>2. /\ IsFiniteSet(Cells(batches', m))
            /\ Cardinality(Cells(batches', m))
                 = Cardinality(Cells(batches, m)) + Cardinality(Places(batch, m))
        BY <1>4, <1>9, <4>1, CellsAppend
      <4>3. Cardinality(Places(batch', m)) = 0 /\ indexes' = indexes
        <5>1. Places(batch', m) = {}
          BY <1>9 DEF Places
        <5> QED BY <1>1, <5>1, FS_EmptySet
      <4>4. /\ Cardinality(Places(msgs, m)) \in Nat /\ Cardinality(Places(batch, m)) \in Nat
            /\ Cardinality(Places(indexes, m)) \in Nat /\ Cardinality(Cells(batches, m)) \in Nat
        <5>1. indexes \in Seq(Offsets)
          BY WhileLoading
        <5> QED BY <1>4, <4>1, <5>1, PlacesFinite, FS_CardinalityType
      <4> QED BY <1>7, <4>1, <4>2, <4>3, <4>4
    <3> QED BY <1>7, <3>1, Zenon DEF EntriesKept, Places, Cells
  <2> QED BY <1>5, <1>6, <2>3, <2>4, <2>5, <2>6 DEF IInv
<1> QED BY <1>2, <1>8, <1>9

(* The steps that leave the offsets where they are.                         *)
LEMMA OffsetsKept ==
  ASSUME IInv, Loading, Loading', UNCHANGED <<save, read, fill, batches, msgs>>
  PROVE  /\ ~cut => Ascends(batch \o indexes)'
         /\ EntriesKept' /\ SaveState' /\ FileState' /\ ReadState'
         /\ readOff' = Len(file') /\ cut' = cut
<1>1. /\ Offsets' = Offsets /\ msgs' = msgs /\ entries' = entries
      /\ batches' = batches /\ batch' = batch /\ indexes' = indexes
  BY DEF Offsets, read, fill
<1>2. EntriesKept'
  <2>1. \A m : /\ Places(msgs, m)' = Places(msgs, m) /\ Places(batch, m)' = Places(batch, m)
               /\ Places(indexes, m)' = Places(indexes, m)
               /\ Cells(batches, m)' = Cells(batches, m)
               /\ Places(entries, m)' = Places(entries, m)
    BY <1>1 DEF Places, Cells
  <2>2. EntriesKept
    BY DEF IInv
  <2> QED BY <1>1, <2>1, <2>2 DEF EntriesKept
<1>3. ~cut => Ascends(batch \o indexes)'
  BY <1>1 DEF IInv, BatchesInOrder, Ascends
<1> QED BY <1>2, <1>3, LoadingKept

(* The caller waits for the pool.                                           *)
LEMMA WaitInv == IInv /\ Wait => IInv'
<1> SUFFICES ASSUME IInv, Wait PROVE IInv'
  OBVIOUS
<1>1. /\ pc = "call" /\ pc' = "wait"
      /\ UNCHANGED <<save, read, fill, batches, ranges, msgs, pending, running, finished>>
  BY DEF Wait, Pool!WaitCall
<1>2. Loading /\ Loading'
  BY <1>1 DEF Loading
<1>3. TypeOK'
  BY <1>1 DEF IInv, TypeOK, save, read, fill
<1>4. /\ EntriesKept' /\ SaveState' /\ FileState' /\ ReadState'
      /\ readOff' = Len(file') /\ cut' = cut
  BY <1>1, <1>2, OffsetsKept
<1>5. LoadState'
  BY <1>1, <1>4 DEF IInv, LoadState, Loading, fill
<1>6. BatchQueue' /\ BatchesInOrder'
  BY <1>1, <1>4 DEF IInv, BatchQueue, BatchesInOrder, Ascends, Outside, fill
<1> QED BY <1>3, <1>4, <1>5, <1>6 DEF IInv

(* The wait returns, the pool idle.                                         *)
LEMMA WaitReturnInv == IInv /\ WaitReturn => IInv'
<1> SUFFICES ASSUME IInv, WaitReturn PROVE IInv'
  OBVIOUS
<1>1. /\ pc = "wait" /\ pc' = "loaded" /\ pending = << >> /\ running = {}
      /\ UNCHANGED <<save, read, fill, batches, ranges, msgs, pending, running, finished>>
  BY DEF WaitReturn, Pool!WaitReturn
<1>2. Loading /\ Loading'
  BY <1>1 DEF Loading
<1>3. TypeOK'
  BY <1>1 DEF IInv, TypeOK, save, read, fill
<1>4. /\ EntriesKept' /\ SaveState' /\ FileState' /\ ReadState'
      /\ readOff' = Len(file') /\ cut' = cut
  BY <1>1, <1>2, OffsetsKept
<1>5. LoadState'
  BY <1>1, <1>4 DEF IInv, LoadState, Loading, fill
<1>6. BatchQueue' /\ BatchesInOrder'
  BY <1>1, <1>4 DEF IInv, BatchQueue, BatchesInOrder, Ascends, Outside, fill
<1> QED BY <1>3, <1>4, <1>5, <1>6 DEF IInv

(* A worker takes the oldest batch and reads from the start of its first    *)
(* message to the end of its last, which hold the others between them.      *)
LEMMA BeginBatchInv == IInv /\ BeginBatch => IInv'
<1> SUFFICES ASSUME IInv, BeginBatch PROVE IInv'
  OBVIOUS
<1> DEFINE n == Len(ranges) + 1
           s == batches[n]
           R == [diff : 0 .. LongMax, end : 0 .. LongMax]
<1>1. /\ pending # << >> /\ pending' = Tail(pending)
      /\ running' = running \union {Head(pending)} /\ finished' = finished
      /\ ranges' = Append(ranges, ReadOf(batches[Head(pending)]))
      /\ UNCHANGED <<pc, save, read, fill, batches, msgs>>
  BY DEF BeginBatch, Pool!Begin
<1>2. /\ batches \in Seq(Seq(Offsets)) /\ Len(batches) \in Nat
      /\ DOMAIN batches = 1 .. Len(batches) /\ ranges \in Seq(R)
      /\ Len(ranges) \in Nat /\ DOMAIN ranges = 1 .. Len(ranges)
      /\ pending \in Seq(Nat) /\ Len(pending) \in Nat
      /\ Len(ranges) + Len(pending) = Len(batches)
      /\ \A i \in DOMAIN pending : pending[i] = Len(ranges) + i
  BY WhileLoading
<1>3. Loading /\ Loading' /\ pc \notin {"loaded", "outside"}
  <2>1. ~Loading => pending = << >>
    <3>1. ~Loading => pending \in {indexes, batch, batches, msgs, ranges, pending}
                      /\ {indexes, batch, batches, msgs, ranges, pending} = {<< >>}
      BY Zenon DEF IInv, LoadState
    <3> QED BY <3>1
  <2>2. pc = "loaded" => pending = << >>
    BY DEF IInv, LoadState
  <2>3. pc # "outside" /\ pc' = pc
    BY <1>1 DEF BeginBatch
  <2> QED BY <1>1, <2>1, <2>2, <2>3 DEF Loading
<1>4. Head(pending) = n /\ n \in DOMAIN batches \ DOMAIN ranges
  <2>1. Len(pending) >= 1 /\ 1 \in DOMAIN pending /\ Head(pending) = pending[1]
    BY <1>1, <1>2
  <2> QED BY <1>2, <2>1
<1>5. s \in Seq(Offsets) /\ s # << >> /\ (~cut => Ascends(s))
  <2> HIDE DEF n
  <2> QED BY <1>2, <1>4 DEF IInv, BatchQueue, BatchesInOrder
<1>6. ranges' = Append(ranges, ReadOf(s))
  BY <1>1, <1>4
<1> HIDE DEF s
<1>7. /\ Len(s) \in Nat \ {0} /\ DOMAIN s = 1 .. Len(s)
      /\ ReadOf(s) = [diff |-> s[1].start, end |-> s[Len(s)].end]
  <2>1. Last(s) = s[Len(s)] /\ Head(s) = s[1]
    BY <1>5 DEF Last
  <2> QED BY <1>5, <2>1 DEF ReadOf
<1>8. ReadOf(s) \in R
  <2>1. s[1] \in Offsets /\ s[Len(s)] \in Offsets
    BY <1>5, <1>7
  <2>2. s[1].start \in 0 .. LongMax /\ s[Len(s)].end \in 0 .. LongMax
    BY <2>1 DEF Offsets
  <2> QED BY <1>7, <2>2
<1> HIDE DEF R
<1>9. /\ ranges' \in Seq(R) /\ Len(ranges') = n /\ DOMAIN ranges' = 1 .. n
      /\ DOMAIN ranges' = DOMAIN ranges \union {n}
      /\ ranges'[n] = ReadOf(s)
      /\ \A b \in DOMAIN ranges : ranges'[b] = ranges[b]
  BY <1>2, <1>6, <1>8
<1>10. TypeOK'
  BY <1>1, <1>9 DEF IInv, TypeOK, save, read, fill, R
<1>11. /\ ~cut => Ascends(batch \o indexes)'
       /\ EntriesKept' /\ SaveState' /\ FileState' /\ ReadState'
       /\ readOff' = Len(file') /\ cut' = cut
  BY <1>1, <1>3, OffsetsKept
<1>12. LoadState'
  BY <1>1, <1>3, <1>11 DEF IInv, LoadState, Loading, fill
<1>13. BatchQueue'
  <2>1. /\ pending' \in Seq(Nat) /\ Len(pending') = Len(pending) - 1
        /\ \A i \in DOMAIN pending' : pending'[i] = pending[i + 1] /\ i + 1 \in DOMAIN pending
                                      /\ i \in Nat
    <3>1. pending \in Seq(Nat) /\ pending # << >> /\ pending' = Tail(pending)
      BY <1>1, <1>2
    <3> QED BY <3>1
  <2>2. \A i \in DOMAIN pending' : pending'[i] = Len(ranges') + i
    <3>1. \A i \in DOMAIN pending' : pending'[i] = Len(ranges) + (i + 1)
      BY <1>2, <2>1
    <3> QED BY <1>2, <1>9, <2>1, <3>1
  <2>3. Len(ranges') + Len(pending') = Len(batches')
    <3>1. Len(batches') = Len(batches) /\ Len(ranges') = Len(ranges) + 1
      BY <1>1, <1>9
    <3>2. /\ Len(pending') = Len(pending) - 1 /\ Len(pending) \in Nat
          /\ Len(ranges) + Len(pending) = Len(batches) /\ Len(ranges) \in Nat
      BY <1>2, <2>1, Zenon
    <3> QED BY <3>1, <3>2
  <2>4. running' \union finished' = DOMAIN ranges'
    BY <1>1, <1>4, <1>9 DEF IInv, BatchQueue
  <2>5. \A b \in finished' : batches'[b] = << >>
    BY <1>1 DEF IInv, BatchQueue
  <2>6. \A b \in DOMAIN batches' \ DOMAIN ranges' : batches'[b] # << >>
    BY <1>1, <1>9 DEF IInv, BatchQueue
  <2> QED BY <2>1, <2>2, <2>3, <2>4, <2>5, <2>6 DEF BatchQueue
<1>14. BatchesInOrder'
  <2>1. ASSUME ~cut, NEW b \in DOMAIN batches' \ DOMAIN ranges'
        PROVE  Ascends(batches'[b])
    <3>1. b \in DOMAIN batches \ DOMAIN ranges /\ batches' = batches
      BY <1>1, <1>9, <2>1
    <3> QED BY <2>1, <3>1 DEF IInv, BatchesInOrder
  <2>2. ASSUME ~cut, NEW b \in DOMAIN ranges', NEW i \in DOMAIN batches'[b]
        PROVE  ~Outside(batches'[b][i], ranges'[b])
    <3>1. batches' = batches
      BY <1>1
    <3>2. CASE b \in DOMAIN ranges
      BY <1>9, <2>2, <3>1, <3>2 DEF IInv, BatchesInOrder
    <3>3. CASE b = n
      <4>1. batches'[b] = s /\ i \in 1 .. Len(s) /\ ranges'[b] = ReadOf(s)
        BY <1>7, <1>9, <3>1, <3>3 DEF s
      <4>2. 1 \in DOMAIN s /\ Len(s) \in DOMAIN s /\ i \in DOMAIN s /\ 1 <= i /\ i <= Len(s)
        BY <1>7, <4>1
      <4>3. Below(s[1], s[i]) /\ Below(s[i], s[Len(s)]) /\ s[i].start < s[i].end
        BY <1>5, <2>2, <4>2 DEF Ascends
      <4>4. /\ s[1].start \in Nat /\ s[i].start \in Nat /\ s[i].end \in Nat
            /\ s[Len(s)].end \in Nat
        <5>1. s[1] \in Offsets /\ s[i] \in Offsets /\ s[Len(s)] \in Offsets
          BY <1>5, <4>2
        <5> QED BY <5>1, NumbersAssumption DEF Offsets
      <4>5. ReadOf(s).diff = s[1].start /\ ReadOf(s).end = s[Len(s)].end
        BY <1>7
      <4> QED BY <4>1, <4>3, <4>4, <4>5 DEF Below, Outside
    <3> QED BY <1>9, <2>2, <3>2, <3>3
  <2> QED BY <1>11, <2>1, <2>2 DEF BatchesInOrder, Ascends, Outside
<1> QED BY <1>10, <1>11, <1>12, <1>13, <1>14 DEF IInv

(* A message of a batch goes into the list.                                 *)
LEMMA LoadMessageInv == ASSUME NEW b PROVE IInv /\ LoadMessage(b) => IInv'
<1> SUFFICES ASSUME IInv, LoadMessage(b) PROVE IInv'
  OBVIOUS
<1> DEFINE s == batches[b]
           h == Head(s)
<1>1. /\ b \in running /\ s # << >> /\ msgs' = Append(msgs, h)
      /\ batches' = [batches EXCEPT ![b] = Tail(s)]
      /\ UNCHANGED <<pc, save, read, fill, ranges, pool>>
  BY DEF LoadMessage
<1>2. /\ batches \in Seq(Seq(Offsets)) /\ msgs \in Seq(Offsets)
      /\ DOMAIN batches = 1 .. Len(batches) /\ Len(batches) \in Nat
      /\ Len(ranges) \in Nat /\ DOMAIN ranges = 1 .. Len(ranges)
      /\ Len(pending) \in Nat /\ Len(ranges) + Len(pending) = Len(batches)
      /\ indexes \in Seq(Offsets) /\ batch \in Seq(Offsets)
  BY WhileLoading
<1>3. Loading /\ Loading' /\ pc \notin {"loaded", "outside"}
  BY <1>1 DEF IInv, LoadState, LoadMessage, Loading
<1>4. b \in DOMAIN ranges /\ b \in DOMAIN batches
  BY <1>1, <1>2 DEF IInv, BatchQueue
<1>5. /\ s \in Seq(Offsets) /\ h \in Offsets /\ Tail(s) \in Seq(Offsets)
      /\ Len(s) \in Nat \ {0} /\ DOMAIN s = 1 .. Len(s)
      /\ DOMAIN Tail(s) = 1 .. Len(s) - 1
      /\ \A i \in 1 .. Len(s) - 1 : Tail(s)[i] = s[i + 1] /\ i + 1 \in DOMAIN s
  <2>1. s \in Seq(Offsets)
    BY <1>2, <1>4
  <2> HIDE DEF s
  <2> QED BY <1>1, <2>1
<1> HIDE DEF h
<1>6. /\ batches' \in Seq(Seq(Offsets)) /\ DOMAIN batches' = DOMAIN batches
      /\ Len(batches') = Len(batches) /\ batches'[b] = Tail(s)
      /\ \A c \in DOMAIN batches : c # b => batches'[c] = batches[c]
  <2> HIDE DEF s
  <2> QED BY <1>1, <1>2, <1>4, <1>5
<1> HIDE DEF s
<1>7. TypeOK'
  <2>1. msgs' \in Seq(Offsets)
    BY <1>1, <1>2, <1>5
  <2> QED BY <1>1, <1>6, <2>1 DEF IInv, TypeOK, save, read, fill
<1>8. /\ SaveState' /\ FileState' /\ ReadState'
      /\ readOff' = Len(file') /\ cut' = cut
  BY <1>1, <1>3, LoadingKept
<1>9. LoadState'
  BY <1>1, <1>3, <1>8 DEF IInv, LoadState, Loading, fill, pool
<1>10. BatchQueue'
  <2>1. ASSUME NEW c \in finished'
        PROVE  batches'[c] = << >>
    <3>1. c \in finished /\ batches[c] = << >> /\ c \in DOMAIN ranges
      BY <1>1, <2>1 DEF IInv, BatchQueue, pool
    <3>2. c # b /\ c \in DOMAIN batches
      BY <1>1, <1>2, <3>1 DEF s
    <3> QED BY <1>6, <3>1, <3>2
  <2>2. /\ pending' = pending /\ ranges' = ranges /\ running' = running /\ finished' = finished
    BY <1>1 DEF pool
  <2>3. \A c \in DOMAIN batches' \ DOMAIN ranges' : batches'[c] # << >>
    BY <1>4, <1>6, <2>2 DEF IInv, BatchQueue
  <2> QED BY <1>6, <2>1, <2>2, <2>3 DEF IInv, BatchQueue
<1>11. BatchesInOrder'
  <2>1. batch' = batch /\ indexes' = indexes /\ ranges' = ranges
    BY <1>1 DEF fill
  <2>2. ASSUME ~cut, NEW c \in DOMAIN batches' \ DOMAIN ranges'
        PROVE  Ascends(batches'[c])
    <3>1. c \in DOMAIN batches \ DOMAIN ranges /\ c # b /\ batches'[c] = batches[c]
      BY <1>4, <1>6, <2>1
    <3> QED BY <2>2, <3>1 DEF IInv, BatchesInOrder
  <2>3. ASSUME ~cut, NEW c \in DOMAIN ranges', NEW i \in DOMAIN batches'[c]
        PROVE  ~Outside(batches'[c][i], ranges'[c])
    <3>1. c \in DOMAIN ranges /\ c \in DOMAIN batches
      BY <1>2, <2>1
    <3>2. CASE c = b
      <4>1. i \in 1 .. Len(s) - 1 /\ batches'[c][i] = s[i + 1] /\ i + 1 \in DOMAIN batches[c]
            /\ s = batches[c]
        BY <1>5, <1>6, <3>2 DEF s
      <4> QED BY <2>1, <2>3, <3>1, <4>1 DEF IInv, BatchesInOrder
    <3>3. CASE c # b
      BY <1>6, <2>1, <2>3, <3>1, <3>3 DEF IInv, BatchesInOrder
    <3> QED BY <3>2, <3>3
  <2> QED BY <1>8, <2>1, <2>2, <2>3 DEF IInv, BatchesInOrder, Ascends, Outside
<1>12. EntriesKept'
  <2>1. ASSUME NEW m \in Offsets
        PROVE  /\ IsFiniteSet(Cells(batches', m))
               /\ Cardinality(Places(msgs', m)) + Cardinality(Cells(batches', m))
                    + Cardinality(Places(batch, m)) + Cardinality(Places(indexes, m))
                  = Cardinality(Places(entries, m))
    <3>1. /\ IsFiniteSet(Cells(batches, m))
          /\ Cardinality(Places(msgs, m)) + Cardinality(Cells(batches, m))
               + Cardinality(Places(batch, m)) + Cardinality(Places(indexes, m))
             = Cardinality(Places(entries, m))
      BY <1>3 DEF IInv, EntriesKept
    <3>2. /\ IsFiniteSet(Cells(batches', m))
          /\ h = m => Cardinality(Cells(batches, m)) = Cardinality(Cells(batches', m)) + 1
          /\ h # m => Cardinality(Cells(batches, m)) = Cardinality(Cells(batches', m))
      <4>1. /\ batches[b] # << >> /\ DOMAIN batches' = DOMAIN batches
            /\ batches'[b] = Tail(batches[b])
            /\ \A c \in DOMAIN batches : c # b => batches'[c] = batches[c]
        BY <1>1, <1>6 DEF s
      <4>2. batches \in Seq(Seq(Offsets)) /\ b \in DOMAIN batches /\ IsFiniteSet(Cells(batches, m))
        BY <1>2, <1>4, <3>1
      <4>3. /\ IsFiniteSet(Cells(batches', m))
            /\ Head(batches[b]) = m =>
                 Cardinality(Cells(batches, m)) = Cardinality(Cells(batches', m)) + 1
            /\ Head(batches[b]) # m =>
                 Cardinality(Cells(batches, m)) = Cardinality(Cells(batches', m))
        BY <4>1, <4>2, CellsTail
      <4>4. h = Head(batches[b])
        BY DEF h, s
      <4> QED BY <4>1, <4>3, <4>4, Zenon
    <3>3. Cardinality(Places(msgs', m)) = IF h = m THEN Cardinality(Places(msgs, m)) + 1
                                                   ELSE Cardinality(Places(msgs, m))
      BY <1>1, <1>2, <1>5, PlacesAppend
    <3>4. /\ Cardinality(Places(msgs, m)) \in Nat /\ Cardinality(Places(batch, m)) \in Nat
          /\ Cardinality(Places(indexes, m)) \in Nat /\ Cardinality(Cells(batches', m)) \in Nat
      BY <1>2, <3>2, PlacesFinite, FS_CardinalityType
    <3> QED BY <3>1, <3>2, <3>3, <3>4
  <2>2. /\ Offsets' = Offsets /\ batch' = batch /\ indexes' = indexes
        /\ entries' = entries
    BY <1>1 DEF Offsets, read, fill
  <2> QED BY <2>1, <2>2, Zenon DEF EntriesKept, Places, Cells
<1> QED BY <1>7, <1>8, <1>9, <1>10, <1>11, <1>12 DEF IInv

(* A batch of which nothing is left is finished.                            *)
LEMMA EndBatchInv == ASSUME NEW b PROVE IInv /\ EndBatch(b) => IInv'
<1> SUFFICES ASSUME IInv, EndBatch(b) PROVE IInv'
  OBVIOUS
<1>1. /\ b \in running /\ batches[b] = << >>
      /\ running' = running \ {b} /\ finished' = finished \union {b}
      /\ UNCHANGED <<pc, save, read, fill, batches, ranges, msgs, pending>>
  BY DEF EndBatch, Pool!Complete
<1>2. Loading /\ Loading' /\ pc \notin {"loaded", "outside"}
  BY <1>1 DEF IInv, LoadState, EndBatch, Loading
<1>3. TypeOK'
  BY <1>1 DEF IInv, TypeOK, save, read, fill
<1>4. /\ EntriesKept' /\ SaveState' /\ FileState' /\ ReadState'
      /\ readOff' = Len(file') /\ cut' = cut
  BY <1>1, <1>2, OffsetsKept
<1>5. LoadState'
  BY <1>1, <1>2, <1>4 DEF IInv, LoadState, Loading, fill
<1>6. BatchQueue'
  <2>1. running' \union finished' = running \union finished
    BY <1>1
  <2>2. \A c \in finished' : batches[c] = << >>
    BY <1>1 DEF IInv, BatchQueue
  <2> QED BY <1>1, <2>1, <2>2 DEF IInv, BatchQueue
<1>7. BatchesInOrder'
  BY <1>1, <1>4 DEF IInv, BatchesInOrder, Ascends, Outside, fill
<1> QED BY <1>3, <1>4, <1>5, <1>6, <1>7 DEF IInv

(* Only after a short write does a range end before it starts, or is a      *)
(* message outside of it.                                                   *)
LEMMA OutsideKept ==
  ASSUME IInv, Loading, cut, pc' = "outside",
         UNCHANGED <<save, read, fill, batches, ranges, msgs, pool>>
  PROVE  IInv'
<1>1. Loading'
  BY DEF Loading
<1>2. TypeOK'
  BY DEF IInv, TypeOK, save, read, fill, pool
<1>3. /\ EntriesKept' /\ SaveState' /\ FileState' /\ ReadState'
      /\ readOff' = Len(file') /\ cut' = cut
  BY <1>1, OffsetsKept
<1>4. LoadState' /\ BatchesInOrder'
  BY <1>1, <1>3 DEF LoadState, BatchesInOrder
<1>5. BatchQueue'
  BY DEF IInv, BatchQueue, pool
<1> QED BY <1>2, <1>3, <1>4, <1>5 DEF IInv

LEMMA BeginOutsideInv == IInv /\ BeginOutside => IInv'
<1> SUFFICES ASSUME IInv, BeginOutside PROVE IInv'
  OBVIOUS
<1> DEFINE s == batches[Head(pending)]
<1>1. /\ pending # << >> /\ ReadOf(s).end < ReadOf(s).diff /\ pc' = "outside"
      /\ UNCHANGED <<save, read, fill, batches, ranges, msgs, pool>>
  BY DEF BeginOutside
<1>2. /\ batches \in Seq(Seq(Offsets)) /\ Len(batches) \in Nat
      /\ DOMAIN batches = 1 .. Len(batches)
      /\ Len(ranges) \in Nat /\ DOMAIN ranges = 1 .. Len(ranges)
      /\ pending \in Seq(Nat) /\ Len(pending) \in Nat
      /\ Len(ranges) + Len(pending) = Len(batches)
      /\ \A i \in DOMAIN pending : pending[i] = Len(ranges) + i
  BY WhileLoading
<1>3. Loading
  <2>1. ~Loading => pending \in {indexes, batch, batches, msgs, ranges, pending}
                    /\ {indexes, batch, batches, msgs, ranges, pending} = {<< >>}
    BY Zenon DEF IInv, LoadState
  <2> QED BY <1>1, <2>1
<1>4. Head(pending) \in DOMAIN batches \ DOMAIN ranges
  <2>1. Len(pending) >= 1 /\ 1 \in DOMAIN pending /\ Head(pending) = pending[1]
    BY <1>1, <1>2
  <2> QED BY <1>2, <2>1
<1>5. cut
  <2> SUFFICES ASSUME ~cut PROVE FALSE
    OBVIOUS
  <2>1. s \in Seq(Offsets) /\ s # << >> /\ Ascends(s)
    BY <1>2, <1>4 DEF IInv, BatchQueue, BatchesInOrder
  <2> HIDE DEF s
  <2>2. 1 \in DOMAIN s /\ Len(s) \in DOMAIN s /\ 1 <= Len(s)
    BY <2>1
  <2>3. ReadOf(s).diff = s[1].start /\ ReadOf(s).end = s[Len(s)].end
    BY <2>1 DEF ReadOf, Last
  <2>4. Below(s[1], s[Len(s)]) /\ s[1].start < s[1].end
    BY <2>1, <2>2 DEF Ascends
  <2>5. s[1].start \in Nat /\ s[1].end \in Nat /\ s[Len(s)].end \in Nat
    <3>1. s[1] \in Offsets /\ s[Len(s)] \in Offsets
      BY <2>1, <2>2
    <3> QED BY <3>1, NumbersAssumption DEF Offsets
  <2> QED BY <1>1, <2>3, <2>4, <2>5 DEF Below
<1> QED BY <1>1, <1>3, <1>5, OutsideKept

LEMMA LoadOutsideInv == ASSUME NEW b PROVE IInv /\ LoadOutside(b) => IInv'
<1> SUFFICES ASSUME IInv, LoadOutside(b) PROVE IInv'
  OBVIOUS
<1>1. /\ b \in running /\ batches[b] # << >> /\ Outside(Head(batches[b]), ranges[b])
      /\ pc' = "outside" /\ UNCHANGED <<save, read, fill, batches, ranges, msgs, pool>>
  BY DEF LoadOutside
<1>2. Loading
  BY <1>1 DEF IInv, LoadState
<1>3. b \in DOMAIN ranges /\ batches[b] \in Seq(Offsets)
  <2>1. b \in DOMAIN ranges
    BY <1>1 DEF IInv, BatchQueue
  <2>2. b \in DOMAIN batches /\ batches \in Seq(Seq(Offsets))
    BY <2>1, WhileLoading
  <2> QED BY <2>1, <2>2
<1>4. 1 \in DOMAIN batches[b] /\ Head(batches[b]) = batches[b][1]
  BY <1>1, <1>3
<1>5. cut
  BY <1>1, <1>3, <1>4 DEF IInv, BatchesInOrder
<1> QED BY <1>1, <1>2, <1>5, OutsideKept

-----------------------------------------------------------------------------
(* Every step keeps the invariant.                                          *)
LEMMA StepInv == IInv /\ [Next]_vars => IInv'
<1> SUFFICES ASSUME IInv, [Next]_vars PROVE IInv'
  OBVIOUS
<1>1. CASE SaveNothing \/ SaveOpen \/ SaveLine \/ Write \/ WriteFails \/ Crash
  BY <1>1, SaveNothingInv, SaveOpenInv, SaveLineInv, WriteInv, WriteFailsInv, CrashInv
<1>2. CASE LoadNothing \/ LoadOpen \/ ReadLine \/ ReadFault \/ ReadEnd
  BY <1>2, LoadNothingInv, LoadOpenInv, ReadLineInv, ReadFaultInv, ReadEndInv
<1>3. CASE CallerStep
  BY <1>3, TakeOffsetsInv, LastBatchInv, WaitInv, WaitReturnInv DEF CallerStep
<1>4. CASE BeginBatch \/ BeginOutside
  BY <1>4, BeginBatchInv, BeginOutsideInv
<1>5. CASE \E b \in Batches : LoadMessage(b) \/ EndBatch(b) \/ LoadOutside(b)
  BY <1>5, LoadMessageInv, EndBatchInv, LoadOutsideInv
<1>6. CASE UNCHANGED vars
  <2>1. /\ UNCHANGED <<pc, list, node, out, file, fileOff, cut, result, readOff, entries>>
        /\ UNCHANGED <<indexes, batch, batchBytes, batches, ranges, msgs>>
        /\ UNCHANGED <<pending, running, finished>>
    BY <1>6 DEF vars, save, read, fill, pool
  <2>2. TypeOK'
    BY <2>1 DEF IInv, TypeOK
  <2>3. SaveState' /\ FileState' /\ ReadState'
    BY <2>1 DEF IInv, SaveState, FileState, ReadState, Lines, Ascends
  <2>4. LoadState' /\ BatchQueue' /\ BatchesInOrder'
    BY <2>1 DEF IInv, LoadState, Loading, BatchQueue, BatchesInOrder, Ascends, Outside
  <2>5. EntriesKept'
    <3>1. /\ Offsets' = Offsets /\ Loading' = Loading
          /\ \A m : /\ Places(msgs, m)' = Places(msgs, m) /\ Places(batch, m)' = Places(batch, m)
                    /\ Places(indexes, m)' = Places(indexes, m)
                    /\ Cells(batches, m)' = Cells(batches, m)
                    /\ Places(entries, m)' = Places(entries, m)
      BY <2>1 DEF Offsets, Loading, Places, Cells
    <3> QED BY <3>1 DEF IInv, EntriesKept
  <2> QED BY <2>2, <2>3, <2>4, <2>5 DEF IInv
<1>7. CASE Ended /\ UNCHANGED vars
  BY <1>6, <1>7
<1> QED BY <1>1, <1>2, <1>3, <1>4, <1>5, <1>6, <1>7 DEF Next

(* The inductive invariant holds in every state of every behaviour.         *)
LEMMA IndexInvariant == Spec => []IInv
BY InitInv, StepInv, PTL DEF Spec

-----------------------------------------------------------------------------
(* Whatever fails and whenever the process dies, the index that a save      *)
(* leaves, or was still writing, consists of the lines of the first         *)
(* messages of the sorted list, when no pwrite was short; indexesToList     *)
(* then reads beyond an empty one only.                                     *)
THEOREM IndexWhole == Spec => []WholeLines
<1>1. IInv => WholeLines
  <2> SUFFICES ASSUME IInv, file # NoFile, ~cut
               PROVE  /\ Lines(file) /\ Len(file) % 4 = 0
                      /\ pc = "fault" => file = << >>
    BY DEF WholeLines
  <2>1. Lines(file) /\ Len(file) % 4 = 0
    BY DEF IInv, FileState
  <2>2. pc = "fault" => file = << >>
    BY DEF IInv, ReadState
  <2> QED BY <2>1, <2>2
<1> QED BY <1>1, IndexInvariant, PTL

(* When no pwrite of the save was short, what a worker still has to parse   *)
(* of its batch lies in the one range of the mailbox that                   *)
(* mboxIdxGetMessages read for it, and no worker leaves its buffer.         *)
THEOREM ReadsInside == Spec => []InsideRead
<1>1. IInv => InsideRead
  <2> SUFFICES ASSUME IInv
               PROVE  /\ TypeOK
                      /\ ~cut =>
                           /\ pc # "outside"
                           /\ \A b \in running : \A i \in DOMAIN batches[b] :
                                ~Outside(batches[b][i], ranges[b])
    BY DEF InsideRead
  <2>1. TypeOK /\ (pc = "outside" => cut) /\ running \subseteq DOMAIN ranges
    BY DEF IInv, LoadState, BatchQueue
  <2>2. ~cut => \A b \in DOMAIN ranges : \A i \in DOMAIN batches[b] :
                  ~Outside(batches[b][i], ranges[b])
    BY DEF IInv, BatchesInOrder
  <2> QED BY <2>1, <2>2
<1> QED BY <1>1, IndexInvariant, PTL

(* When mboxIdxLoad returns, every entry read from the index has been       *)
(* loaded, as often as it was read; and that is the list saved, if          *)
(* mboxIdxSave said it succeeded and no pwrite was short.                   *)
THEOREM LoadsAsSaved == Spec => []LoadRight
<1>1. IInv => LoadRight
  <2> SUFFICES ASSUME IInv, pc = "loaded"
               PROVE  /\ SameMessages(msgs, entries)
                      /\ result = "ok" /\ ~cut => SameMessages(msgs, list)
    BY DEF LoadRight, LoadsAll, RoundTrip
  <2>1. /\ indexes = << >> /\ batch = << >> /\ pending = << >> /\ running = {}
        /\ file # NoFile /\ Loading /\ readOff = Len(file)
    BY DEF IInv, LoadState, ReadState, Loading
  <2>2. /\ msgs \in Seq(Offsets) /\ entries \in Seq(Offsets)
        /\ batches \in Seq(Seq(Offsets)) /\ DOMAIN batches = DOMAIN ranges
    <3>1. /\ Len(ranges) + Len(pending) = Len(batches) /\ Len(ranges) \in Nat
          /\ msgs \in Seq(Offsets) /\ entries \in Seq(Offsets)
          /\ batches \in Seq(Seq(Offsets))
          /\ DOMAIN batches = 1 .. Len(batches) /\ DOMAIN ranges = 1 .. Len(ranges)
      BY WhileLoading, Zenon
    <3>2. Len(pending) = 0
      BY <2>1
    <3>3. Len(ranges) = Len(batches)
      BY <3>1, <3>2
    <3> QED BY <3>1, <3>3
  <2>3. \A b \in DOMAIN batches : batches[b] = << >>
    BY <2>1, <2>2 DEF IInv, BatchQueue
  <2>4. ASSUME NEW m \in Offsets
        PROVE  Cardinality(Places(msgs, m)) = Cardinality(Places(entries, m))
    <3>1. Cells(batches, m) = {} /\ Places(batch, m) = {} /\ Places(indexes, m) = {}
      BY <2>1, <2>3 DEF Cells, Places
    <3>2. Cardinality(Places(msgs, m)) \in Nat
      BY <2>2, PlacesFinite
    <3>3. Cardinality(Places(msgs, m)) + Cardinality(Cells(batches, m))
            + Cardinality(Places(batch, m)) + Cardinality(Places(indexes, m))
          = Cardinality(Places(entries, m))
      BY <2>1 DEF IInv, EntriesKept
    <3>4. Cardinality({}) = 0
      BY FS_EmptySet
    <3> QED BY <3>1, <3>2, <3>3, <3>4
  <2>5. SameMessages(msgs, entries)
    <3>1. ToSet(msgs) \subseteq Offsets /\ ToSet(entries) \subseteq Offsets
      BY <2>2 DEF ToSet
    <3> QED BY <2>4, <3>1 DEF SameMessages
  <2>6. ASSUME result = "ok", ~cut
        PROVE  entries = list
    <3>1. list \in Seq(Messages) /\ Len(list) \in Nat /\ Len(entries) \in Nat
      BY <2>2 DEF IInv, TypeOK
    <3>2. Len(file) = 4 * Len(list)
      BY <2>1, <2>6 DEF IInv, FileState
    <3>3. readOff = 4 * Len(entries) /\ \A i \in DOMAIN entries : entries[i] = list[i]
      BY <2>6 DEF IInv, ReadState
    <3>4. Len(entries) = Len(list)
      BY <2>1, <3>1, <3>2, <3>3
    <3>5. /\ entries \in Seq(Offsets \union Messages) /\ list \in Seq(Offsets \union Messages)
          /\ \A i \in 1 .. Len(entries) : entries[i] = list[i]
      BY <2>2, <3>1, <3>3
    <3> QED BY <3>4, <3>5, SeqEqual
  <2> QED BY <2>5, <2>6
<1> QED BY <1>1, IndexInvariant, PTL
=============================================================================
