---------------------------- MODULE QueueLemmas ----------------------------
(***************************************************************************)
(* Facts about counting, numbering and queues that the proofs of the pools *)
(* and of their clients rest on.                                           *)
(***************************************************************************)
EXTENDS Sequences, FiniteSetTheorems, FunctionTheorems, WellFoundedInduction, TLAPS

(* A set of numbers that is not empty has a least member, which is how the  *)
(* proofs go from one number to the next; a bounded one has a greatest.     *)
LEMMA LeastMember ==
  ASSUME NEW S \in SUBSET Nat, S # {}
  PROVE  \E n \in S : \A m \in S : n <= m
<1>1. PICK n \in S : \A m \in S : <<m, n>> \notin OpToRel(<, Nat)
  BY WFMin, NatLessThanWellFounded
<1>2. ASSUME NEW m \in S PROVE n <= m
  <2>1. SUFFICES ASSUME m < n PROVE FALSE
    BY SMT
  <2>2. <<m, n>> \in Nat \X Nat /\ <<m, n>>[1] < <<m, n>>[2]
    BY <2>1
  <2>3. <<m, n>> \in OpToRel(<, Nat)
    BY <2>2, Zenon DEF OpToRel
  <2> QED BY <1>1, <2>3, Zenon
<1> QED BY <1>2

LEMMA GreatestMember ==
  ASSUME NEW S \in SUBSET Nat, S # {}, NEW b \in Nat, \A m \in S : m <= b
  PROVE  \E n \in S : \A m \in S : m <= n
<1> DEFINE Bounds == {u \in Nat : \A m \in S : m <= u}
<1>1. PICK n \in Bounds : \A u \in Bounds : n <= u
  <2>1. b \in Bounds
    OBVIOUS
  <2> QED BY <2>1, LeastMember
<1>2. n \in S
  <2>1. SUFFICES ASSUME n \notin S PROVE FALSE
    OBVIOUS
  <2>2. PICK m \in S : TRUE
    OBVIOUS
  <2>3. n > 0 /\ n - 1 \in Bounds
    BY <1>1, <2>1, <2>2
  <2> QED BY <1>1, <2>3
<1> QED BY <1>1, <1>2

(* A finite set grows and shrinks by one with its members.                  *)
LEMMA CountOneMore ==
  ASSUME NEW S, IsFiniteSet(S), NEW x, x \notin S
  PROVE  IsFiniteSet(S \union {x}) /\ Cardinality(S \union {x}) = Cardinality(S) + 1
BY FS_AddElement

LEMMA CountOneLess ==
  ASSUME NEW S, IsFiniteSet(S), NEW x \in S
  PROVE  /\ Cardinality(S) \in Nat \ {0}
         /\ Cardinality(S \ {x}) = Cardinality(S) - 1
<1>1. Cardinality(S \ {x}) = Cardinality(S) - 1
  BY FS_RemoveElement
<1>2. Cardinality(S) \in Nat
  BY FS_CardinalityType
<1>3. Cardinality(S) # 0
  BY FS_EmptySet
<1> QED BY <1>1, <1>2, <1>3

(* What a queue of the pool does to the set of jobs in it: enqueueing adds  *)
(* the job, dequeueing takes the head off, and neither repeats a job.       *)
LEMMA AppendElements ==
  ASSUME NEW S, NEW s \in Seq(S), NEW e \in S
  PROVE  LET t == Append(s, e)
         IN  /\ t \in Seq(S)
             /\ {t[i] : i \in DOMAIN t} = {s[i] : i \in DOMAIN s} \union {e}
             /\ (/\ e \notin {s[i] : i \in DOMAIN s}
                 /\ \A a, b \in DOMAIN s : s[a] = s[b] => a = b)
                => \A a, b \in DOMAIN t : t[a] = t[b] => a = b
<1> DEFINE t == Append(s, e)
<1>1. /\ t \in Seq(S)
      /\ DOMAIN s = 1 .. Len(s) /\ DOMAIN t = 1 .. Len(s) + 1
      /\ Len(s) \in Nat
      /\ \A i \in 1 .. Len(s) : t[i] = s[i]
      /\ t[Len(s) + 1] = e
  OBVIOUS
<1>2. {t[i] : i \in DOMAIN t} = {s[i] : i \in DOMAIN s} \union {e}
  BY <1>1
<1>3. ASSUME e \notin {s[i] : i \in DOMAIN s},
             \A a, b \in DOMAIN s : s[a] = s[b] => a = b
      PROVE  \A a, b \in DOMAIN t : t[a] = t[b] => a = b
  BY <1>1, <1>3
<1> QED BY <1>1, <1>2, <1>3

LEMMA TailElements ==
  ASSUME NEW S, NEW s \in Seq(S), s # << >>
  PROVE  LET t == Tail(s)
         IN  /\ t \in Seq(S)
             /\ Head(s) \in S
             /\ {s[i] : i \in DOMAIN s} = {t[i] : i \in DOMAIN t} \union {Head(s)}
             /\ (\A a, b \in DOMAIN s : s[a] = s[b] => a = b)
                => /\ \A a, b \in DOMAIN t : t[a] = t[b] => a = b
                   /\ Head(s) \notin {t[i] : i \in DOMAIN t}
<1> DEFINE t == Tail(s)
<1>1. /\ t \in Seq(S)
      /\ DOMAIN s = 1 .. Len(s) /\ DOMAIN t = 1 .. Len(s) - 1
      /\ Len(s) \in Nat \ {0}
      /\ \A i \in 1 .. Len(s) - 1 : t[i] = s[i + 1]
      /\ Head(s) = s[1]
      /\ Head(s) \in S
  OBVIOUS
<1>2. {s[i] : i \in DOMAIN s} = {t[i] : i \in DOMAIN t} \union {Head(s)}
  <2>1. ASSUME NEW i \in DOMAIN s
        PROVE  s[i] \in {t[k] : k \in DOMAIN t} \union {Head(s)}
    <3>1. CASE i = 1
      BY <1>1, <3>1
    <3>2. CASE i # 1
      <4>1. i - 1 \in DOMAIN t /\ t[i - 1] = s[i]
        BY <1>1, <3>2
      <4> QED BY <4>1
    <3> QED BY <3>1, <3>2
  <2>2. ASSUME NEW i \in DOMAIN t
        PROVE  t[i] \in {s[k] : k \in DOMAIN s}
    <3>1. i + 1 \in DOMAIN s /\ t[i] = s[i + 1]
      BY <1>1
    <3> QED BY <3>1
  <2>3. Head(s) \in {s[k] : k \in DOMAIN s}
    BY <1>1
  <2> QED BY <2>1, <2>2, <2>3
<1>3. ASSUME \A a, b \in DOMAIN s : s[a] = s[b] => a = b
      PROVE  /\ \A a, b \in DOMAIN t : t[a] = t[b] => a = b
             /\ Head(s) \notin {t[i] : i \in DOMAIN t}
  <2>1. ASSUME NEW a \in DOMAIN t, NEW b \in DOMAIN t, t[a] = t[b]
        PROVE  a = b
    <3>1. s[a + 1] = s[b + 1] /\ a + 1 \in DOMAIN s /\ b + 1 \in DOMAIN s
      BY <1>1, <2>1
    <3>2. a + 1 = b + 1
      BY <1>3, <3>1
    <3> QED BY <1>1, <3>2
  <2>2. ASSUME NEW i \in DOMAIN t, Head(s) = t[i]
        PROVE  FALSE
    <3>1. s[i + 1] = s[1] /\ i + 1 \in DOMAIN s /\ 1 \in DOMAIN s
      BY <1>1, <2>2
    <3>2. i + 1 = 1
      BY <1>3, <3>1
    <3> QED BY <1>1, <3>2
  <2> QED BY <2>1, <2>2
<1> QED BY <1>1, <1>2, <1>3

(* A queue that repeats no job has as many places as it has jobs.           *)
LEMMA CountElements ==
  ASSUME NEW S, NEW s \in Seq(S),
         \A a, b \in DOMAIN s : s[a] = s[b] => a = b
  PROVE  LET T == {s[i] : i \in DOMAIN s}
         IN  IsFiniteSet(T) /\ Cardinality(T) = Len(s)
<1> DEFINE T == {s[i] : i \in DOMAIN s}
<1>1. DOMAIN s = 1 .. Len(s) /\ Len(s) \in Nat
  OBVIOUS
<1>2. IsFiniteSet(1 .. Len(s)) /\ Cardinality(1 .. Len(s)) = Len(s)
  BY <1>1, FS_Interval
<1>3. s \in Bijection(1 .. Len(s), T)
  <2>1. s \in [1 .. Len(s) -> T]
    BY <1>1
  <2> QED BY <1>1, <2>1, Fun_IsBij
<1>4. ExistsBijection(1 .. Len(s), T)
  BY <1>3 DEF ExistsBijection
<1> QED BY <1>2, <1>4, FS_Bijection

-----------------------------------------------------------------------------
(* The members of a finite set of numbers are numbered from 1 on in their   *)
(* order: a member has a number, a greater one a greater number, and every  *)
(* number up to the size of the set is some member's.                       *)
Rank(S, i) == Cardinality({j \in S : j <= i})

LEMMA RankInRange ==
  ASSUME NEW S \in SUBSET Nat, IsFiniteSet(S), NEW i \in S
  PROVE  Rank(S, i) \in 1 .. Cardinality(S)
<1> DEFINE T == {j \in S : j <= i}
<1>1. IsFiniteSet(T) /\ Cardinality(T) <= Cardinality(S)
  BY FS_Subset
<1>2. Cardinality(T) \in Nat /\ Cardinality(S) \in Nat
  BY <1>1, FS_CardinalityType
<1>3. i \in T
  OBVIOUS
<1>4. Cardinality(T) # 0
  BY <1>1, <1>3, FS_EmptySet
<1> QED BY <1>1, <1>2, <1>4 DEF Rank

LEMMA RankRises ==
  ASSUME NEW S \in SUBSET Nat, IsFiniteSet(S), NEW i \in S, NEW j \in S, i < j
  PROVE  Rank(S, i) < Rank(S, j)
<1> DEFINE T == {m \in S : m <= i}
           U == {m \in S : m <= j}
<1>1. IsFiniteSet(U)
  BY FS_Subset
<1>2. T \in SUBSET U /\ j \in U /\ j \notin T
  <2>1. \A m \in S : m <= i => m <= j
    OBVIOUS
  <2>2. j <= j /\ ~(j <= i)
    OBVIOUS
  <2> QED BY <2>1, <2>2
<1>3. Cardinality(T) <= Cardinality(U) /\ Cardinality(T) # Cardinality(U) /\ IsFiniteSet(T)
  <2> HIDE DEF T, U
  <2> QED BY <1>1, <1>2, FS_Subset
<1>4. Cardinality(T) \in Nat /\ Cardinality(U) \in Nat
  BY <1>1, <1>3, FS_CardinalityType
<1> QED BY <1>3, <1>4 DEF Rank

LEMMA RankReached ==
  ASSUME NEW S \in SUBSET Nat, IsFiniteSet(S), NEW k \in 1 .. Cardinality(S)
  PROVE  \E i \in S : Rank(S, i) = k
<1> DEFINE f == [i \in S |-> Rank(S, i)]
           K == 1 .. Cardinality(S)
<1>1. Cardinality(S) \in Nat
  BY FS_CardinalityType
<1>2. IsFiniteSet(K) /\ Cardinality(K) = Cardinality(S)
  BY <1>1, FS_Interval
<1>3. f \in [S -> K]
  BY RankInRange
<1>4. ASSUME NEW i \in S, NEW j \in S, f[i] = f[j]
      PROVE  i = j
  <2>1. f[i] \in K /\ f[j] \in K
    BY <1>3
  <2>2. ~(f[i] < f[j]) /\ ~(f[j] < f[i])
    BY <1>1, <1>4, <2>1
  <2>3. ~(i < j) /\ ~(j < i)
    BY <2>2, RankRises
  <2> QED BY <2>3
<1>5. f \in Injection(S, K)
  <2> HIDE DEF f, K
  <2> QED BY <1>3, <1>4, Fun_IsInj
<1>6. f \in Surjection(S, K)
  <2> HIDE DEF f, K
  <2> QED BY <1>2, <1>5, FS_Injection
<1>7. \E i \in S : f[i] = k
  <2>1. k \in K
    OBVIOUS
  <2> HIDE DEF f, K
  <2>2. \A t \in K : \E i \in S : f[i] = t
    BY <1>6, Fun_SurjectionProperties, Zenon
  <2> QED BY <2>1, <2>2
<1> QED BY <1>7
-----------------------------------------------------------------------------
(* Some f holds the first j steps of F from a.                              *)
Runs(S, F, a, j) == \E f \in [0 .. j -> S] : f[0] = a /\ \A i \in 1 .. j : f[i] = F[f[i - 1]]

LEMMA Unrolled ==
  ASSUME NEW S, NEW F \in [S -> S], NEW a \in S, NEW C \in Nat
  PROVE  Runs(S, F, a, C)
<1> DEFINE Upto(j) == Runs(S, F, a, j)
<1>1. Upto(0)
  <2>1. PICK f : f = [i \in 0 .. 0 |-> a]
    OBVIOUS
  <2>2. f \in [0 .. 0 -> S] /\ f[0] = a /\ \A i \in 1 .. 0 : f[i] = F[f[i - 1]]
    BY <2>1
  <2> QED BY <2>2 DEF Runs
<1>2. ASSUME NEW j \in Nat, Upto(j) PROVE Upto(j + 1)
  <2>1. PICK f \in [0 .. j -> S] : f[0] = a /\ \A i \in 1 .. j : f[i] = F[f[i - 1]]
    BY <1>2 DEF Runs
  <2>2. PICK e : e = [i \in 0 .. j + 1 |-> IF i = j + 1 THEN F[f[j]] ELSE f[i]]
    OBVIOUS
  <2>3. \A i \in 0 .. j + 1 : i # j + 1 => i \in 0 .. j
    OBVIOUS
  <2>4. F[f[j]] \in S /\ 0 \in 0 .. j + 1
    BY <2>1
  <2>5. e \in [0 .. j + 1 -> S] /\ e[0] = a /\ \A i \in 0 .. j : e[i] = f[i]
    BY <2>1, <2>2, <2>3, <2>4
  <2>6. ASSUME NEW i \in 1 .. j + 1 PROVE e[i] = F[e[i - 1]]
    <3>1. i - 1 \in 0 .. j /\ i \in 0 .. j + 1
      OBVIOUS
    <3>2. e[i - 1] = f[i - 1]
      BY <2>5, <3>1
    <3>3. CASE i = j + 1
      BY <2>2, <3>1, <3>2, <3>3
    <3>4. CASE i # j + 1
      <4>1. i \in 1 .. j /\ i \in 0 .. j
        BY <3>4
      <4> QED BY <2>1, <2>5, <3>2, <4>1
    <3> QED BY <3>3, <3>4
  <2> QED BY <2>5, <2>6 DEF Runs
<1>3. \A j \in Nat : Upto(j)
  <2> HIDE DEF Upto
  <2>1. SUFFICES ASSUME NEW j \in {i \in Nat : ~Upto(i)} PROVE FALSE
    OBVIOUS
  <2>2. PICK m \in {i \in Nat : ~Upto(i)} : \A i \in {i \in Nat : ~Upto(i)} : m <= i
    BY <2>1, LeastMember
  <2>3. m # 0
    BY <1>1, <2>2
  <2>4. m - 1 \in Nat /\ m = (m - 1) + 1
    BY <2>3
  <2>5. Upto(m - 1)
    BY <2>2, <2>4
  <2> QED BY <1>2, <2>2, <2>4, <2>5
<1> QED BY <1>3
=============================================================================
