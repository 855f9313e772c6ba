--------------------------- MODULE MboxScanProofs ---------------------------
(***************************************************************************)
(* The offsets of a scan that do not lag stay in step with its buffer, for *)
(* every file, every size of a read and any number of contexts; and the    *)
(* messages of a mailbox are found.                                        *)
(***************************************************************************)
EXTENDS MboxScan, QueueLemmas, SequenceTheorems, TLAPS

(* A set of indices that has a member has a least one.                      *)
LEMMA MinIsLeast ==
  ASSUME NEW T, T \subseteq Nat, T # {}
  PROVE  Min(T) \in T /\ \A y \in T : Min(T) <= y
<1>1. \E x \in T : \A y \in T : x <= y
  BY LeastMember
<1> QED BY <1>1 DEF Min

LEMMA MinOfTwo ==
  ASSUME NEW a \in Nat, NEW b \in Nat
  PROVE  Min({a, b}) \in {a, b} /\ Min({a, b}) <= a /\ Min({a, b}) <= b
BY DEF Min

LEMMA Share ==
  ASSUME NEW c \in Nat \ {0}, NEW s \in Nat, NEW i \in 0 .. c - 1
  PROVE  i * (s \div c) \in 0 .. s
<1> DEFINE q == s \div c
<1>1. q \in Nat /\ c * q <= s
  BY Z3
<1>2. i * q \in Nat /\ i * q <= c * q
  BY <1>1, Z3
<1> QED BY <1>1, <1>2

-----------------------------------------------------------------------------
(* Parts of a sequence, each given by the offset where it begins and the    *)
(* one where it ends.                                                       *)
LEMMA PartType ==
  ASSUME NEW S, NEW f \in Seq(S), NEW a \in 0 .. Len(f), NEW b \in a .. Len(f)
  PROVE  /\ SubSeq(f, a + 1, b) \in Seq(S)
         /\ Len(SubSeq(f, a + 1, b)) = b - a
         /\ \A i \in 1 .. b - a : SubSeq(f, a + 1, b)[i] = f[a + i]
<1>1. \A i \in a + 1 .. b : f[i] \in S
  OBVIOUS
<1>2. a + 1 \in Int /\ b \in Int
  OBVIOUS
<1> QED BY <1>1, <1>2, SubSeqProperties

LEMMA PartGrows ==
  ASSUME NEW S, NEW f \in Seq(S),
         NEW a \in 0 .. Len(f), NEW b \in a .. Len(f), NEW c \in b .. Len(f)
  PROVE  SubSeq(f, a + 1, b) \o SubSeq(f, b + 1, c) = SubSeq(f, a + 1, c)
<1>1. a + 1 \in 1 .. Len(f) + 1 /\ b \in (a + 1) - 1 .. Len(f)
  OBVIOUS
<1> QED BY <1>1, ConcatAdjacentSubSeq

LEMMA PartCut ==
  ASSUME NEW S, NEW f \in Seq(S),
         NEW a \in 0 .. Len(f), NEW b \in a .. Len(f), NEW n \in 0 .. b - a
  PROVE  /\ SubSeq(SubSeq(f, a + 1, b), 1, n) = SubSeq(f, a + 1, a + n)
         /\ SubSeq(SubSeq(f, a + 1, b), n + 1, b - a) = SubSeq(f, a + n + 1, b)
<1> DEFINE t == SubSeq(f, a + 1, b)
<1>1. t \in Seq(S) /\ Len(t) = b - a
  BY PartType
<1>2. SubSeq(t, 1, n) = SubSeq(f, a + 1, a + n)
  <2>1. CASE n = 0
    BY <2>1, SubSeqEmpty
  <2>2. CASE n # 0
    <3>1. /\ a + 1 \in 1 .. Len(f) /\ b \in 1 .. Len(f)
          /\ 1 \in 1 .. b - (a + 1) + 1 /\ n \in 1 .. b - (a + 1) + 1
      BY <2>2
    <3>2. (a + 1) + 1 - 1 = a + 1 /\ (a + 1) + n - 1 = a + n
      OBVIOUS
    <3> QED BY <3>1, <3>2, <1>1, SubSeqOfSubSeq
  <2> QED BY <2>1, <2>2
<1>3. SubSeq(t, n + 1, b - a) = SubSeq(f, a + n + 1, b)
  <2>1. CASE n = b - a
    BY <2>1, SubSeqEmpty
  <2>2. CASE n # b - a
    <3>1. /\ a + 1 \in 1 .. Len(f) /\ b \in 1 .. Len(f)
          /\ n + 1 \in 1 .. b - (a + 1) + 1 /\ b - a \in 1 .. b - (a + 1) + 1
      BY <2>2
    <3>2. (a + 1) + (n + 1) - 1 = a + n + 1 /\ (a + 1) + (b - a) - 1 = b
      OBVIOUS
    <3> QED BY <3>1, <3>2, <1>1, SubSeqOfSubSeq
  <2> QED BY <2>1, <2>2
<1> QED BY <1>2, <1>3

(* A sequence and what is appended to it, place by place.                   *)
LEMMA AppendAt ==
  ASSUME NEW S, NEW s \in Seq(S), NEW e
  PROVE  /\ DOMAIN Append(s, e) = DOMAIN s \union {Len(s) + 1}
         /\ Append(s, e)[Len(s) + 1] = e
         /\ Len(s) + 1 \notin DOMAIN s
         /\ \A k \in DOMAIN s : Append(s, e)[k] = s[k]
<1>1. DOMAIN s = 1 .. Len(s) /\ Len(s) \in Nat
  OBVIOUS
<1>2. DOMAIN Append(s, e) = 1 .. Len(s) + 1
  BY <1>1
<1>3. 1 .. Len(s) + 1 = (1 .. Len(s)) \union {Len(s) + 1} /\ Len(s) + 1 \notin 1 .. Len(s)
  BY <1>1
<1>4. Append(s, e)[Len(s) + 1] = e
  BY <1>1
<1>5. \A k \in DOMAIN s : Append(s, e)[k] = s[k]
  BY <1>1
<1> QED BY <1>1, <1>2, <1>3, <1>4, <1>5

(* A read is the part of the file that begins where it was asked for; it is *)
(* empty from the end of the file on.                                       *)
LEMMA ReadPart ==
  ASSUME file \in Seq(Symbols), NEW o \in Nat
  PROVE  /\ Read(o) \in Seq(Symbols)
         /\ o + Len(Read(o)) \in Nat
         /\ o < Size => o + Len(Read(o)) <= Size
         /\ o >= Size => Read(o) = << >>
         /\ o <= Size => Read(o) = SubSeq(file, o + 1, o + Len(Read(o)))
<1> DEFINE e == Min({o + ReadSize, Size})
<1>1. Size \in Nat /\ ReadSize \in Nat \ {0}
  BY SizesAssumption DEF Size
<1>2. e \in Nat /\ e <= Size /\ e <= o + ReadSize /\ e \in {o + ReadSize, Size}
  BY <1>1, MinOfTwo
<1>3. CASE o < Size
  <2>1. o \in 0 .. Len(file) /\ e \in o .. Len(file)
    BY <1>1, <1>2, <1>3 DEF Size
  <2>2. Read(o) \in Seq(Symbols) /\ Len(Read(o)) = e - o
    BY <2>1, PartType DEF Read
  <2>3. o + Len(Read(o)) = e
    BY <1>2, <2>2
  <2>4. Read(o) = SubSeq(file, o + 1, o + Len(Read(o)))
    BY <2>3 DEF Read
  <2>5. ~(o >= Size) /\ o + Len(Read(o)) \in Nat /\ o + Len(Read(o)) <= Size
    BY <1>1, <1>2, <1>3, <2>3
  <2> QED BY <2>2, <2>4, <2>5
<1>4. CASE o >= Size
  <2>1. Read(o) = << >>
    BY <1>1, <1>2, <1>4, SubSeqEmpty DEF Read
  <2>2. SubSeq(file, o + 1, o + 0) = << >>
    BY SubSeqEmpty
  <2>3. Len(Read(o)) = 0 /\ o + 0 = o
    BY <2>1
  <2> QED BY <1>1, <1>4, <2>1, <2>2, <2>3
<1> QED BY <1>1, <1>3, <1>4

(* Where the two searches of a message stop is in the buffer, and a From    *)
(* line that was found is whole.                                            *)
LEMMA Stops ==
  ASSUME NEW b \in Seq(Symbols), NEW o \in 0 .. Len(b)
  PROVE  /\ FromStop(b, o) \in 0 .. Len(b)
         /\ IsFromLine(b, FromStop(b, o)) => FromStop(b, o) + 1 \in 0 .. Len(b)
         /\ HeadersStop(b, o) \in 0 .. Len(b)
         /\ HasHeaders(b, o) => AfterHeaders(b, o) \in 0 .. Len(b)
<1>1. FromStop(b, o) \in 0 .. Len(b)
  <2> DEFINE T == {Len(b)} \union
        {i \in o .. Len(b) - 1 : b[i + 1] = "n" /\ (IsFromLine(b, i) \/ i + Margin >= Len(b))}
  <2>1. T \subseteq 0 .. Len(b) /\ T \subseteq Nat /\ T # {}
    OBVIOUS
  <2>2. Min(T) \in T
    BY <2>1, MinIsLeast
  <2> QED BY <2>1, <2>2 DEF FromStop
<1>2. IsFromLine(b, FromStop(b, o)) => FromStop(b, o) + 1 \in 0 .. Len(b)
  BY <1>1 DEF IsFromLine
<1>3. HeadersStop(b, o) \in 0 .. Len(b)
  BY DEF HeadersStop
<1>4. HasHeaders(b, o) => AfterHeaders(b, o) \in 0 .. Len(b)
  <2> SUFFICES ASSUME BlankLines(b, o) # {} PROVE AfterHeaders(b, o) \in 0 .. Len(b)
    BY DEF HasHeaders
  <2> DEFINE i == Min(BlankLines(b, o))
  <2>1. BlankLines(b, o) \subseteq Nat
    BY DEF BlankLines
  <2>2. i \in BlankLines(b, o)
    BY <2>1, MinIsLeast
  <2>3. /\ i \in Nat /\ i + 2 <= Len(b)
        /\ b[i + 2] = "n" \/ i + 3 <= Len(b)
    BY <2>2 DEF BlankLines
  <2>4. AfterHeaders(b, o) = IF b[i + 2] = "n" THEN i + 2 ELSE i + 3
    BY DEF AfterHeaders
  <2> HIDE DEF i
  <2> QED BY <2>3, <2>4
<1> QED BY <1>1, <1>2, <1>3, <1>4

-----------------------------------------------------------------------------
LEMMA FileIsSeq == TypeOK => file \in Seq(Symbols) /\ Size \in Nat
BY FilesAssumption DEF TypeOK, Size

LEMMA IdsRange == Ids = 0 .. Last /\ Last \in Nat /\ Contexts = Last + 1 /\ 0 \in Ids
BY SizesAssumption DEF Ids, Last

(* The lag of a context depends on the file and the ends of the seeks only; *)
(* at its lag from the offset an open context is where its seek ended.      *)
LEMMA LagStays ==
  ASSUME file' = file, starts' = starts
  PROVE  \A i : Lag(i)' = Lag(i) /\ (InStep(i)' <=> InStep(i))
BY DEF Lag, InStep, Reset, Placed, Size

LEMMA PlacedWithin ==
  ASSUME TypeOK, NEW i \in Ids
  PROVE  Placed(i) \in 0 .. Size
BY Share, FileIsSeq, SizesAssumption DEF Placed, Ids

LEMMA LagType ==
  ASSUME TypeOK, NEW i \in Ids
  PROVE  /\ Lag(i) \in Nat
         /\ starts[i] = (IF Reset(i) THEN starts[i] ELSE Placed(i)) + Lag(i)
<1>1. starts[i] \in Nat /\ Placed(i) \in Nat /\ Size \in Nat
  BY PlacedWithin, FileIsSeq DEF TypeOK
<1>2. CASE Reset(i)
  BY <1>1, <1>2 DEF Lag
<1>3. CASE ~Reset(i)
  <2>1. i = 0
    BY <1>3 DEF Reset
  <2>2. Placed(i) = 0
    <3>1. 0 * (Size \div Contexts) = 0
      <4>1. Size \div Contexts \in Int
        BY <1>1, SizesAssumption, Z3
      <4> QED BY <4>1
    <3> QED BY <2>1, <3>1 DEF Placed
  <2> QED BY <1>1, <1>3, <2>2 DEF Lag
<1> QED BY <1>2, <1>3

LEMMA InitInv == Init => IInv
<1> SUFFICES ASSUME Init PROVE IInv
  OBVIOUS
<1>1. file \in Seq(Symbols) /\ Size \in Nat
  BY FilesAssumption DEF Init, Size
<1>2. TypeOK
  BY <1>1, IdsRange DEF Init, TypeOK, Ids
<1>3. Window /\ Bookends
  BY IdsRange DEF Init, Window, Bookends
<1> QED BY <1>2, <1>3 DEF IInv

(* The seeks move no buffer.                                                *)
LEMMA SeekOnInv == IInv /\ SeekOn => IInv'
<1> SUFFICES ASSUME IInv, SeekOn PROVE IInv'
  OBVIOUS
<1>1. block' \in 0 .. Size
  BY SizesAssumption, FileIsSeq DEF IInv, TypeOK, SeekOn, Before
<1>2. TypeOK'
  BY <1>1 DEF IInv, TypeOK, SeekOn, Size
<1>3. msgs' = << >> /\ pc' = "seek" /\ cur' = cur /\ cur \in Ids
  BY DEF IInv, Window, SeekOn
<1>4. Window' /\ Bookends'
  BY <1>3 DEF Window, Bookends, Ids
<1> QED BY <1>2, <1>4 DEF IInv

LEMMA SeekFoundInv == IInv /\ SeekFound => IInv'
<1> SUFFICES ASSUME IInv, SeekFound PROVE IInv'
  OBVIOUS
<1> DEFINE o == Before(block)
           i == Min(Matches(o))
<1>1. /\ file \in Seq(Symbols) /\ Size \in Nat /\ cur \in Ids /\ pc = "seek"
      /\ msgs' = << >>
  BY FileIsSeq DEF IInv, SeekFound, Window
<1>2. o \in Nat
  BY SizesAssumption, <1>1 DEF IInv, TypeOK, Before
<1>3. Read(o) \in Seq(Symbols) /\ o + Len(Read(o)) \in Nat
  BY <1>1, <1>2, ReadPart
<1>4. i \in Matches(o)
  <2>1. Matches(o) \subseteq Nat
    BY <1>3 DEF Matches
  <2>2. Matches(o) # {}
    BY DEF SeekFound
  <2> QED BY <2>1, <2>2, MinIsLeast
<1>5. i \in 0 .. Len(Read(o)) - 1
  BY <1>4 DEF Matches
<1>6. o + i \in 0 .. Size
  <2>1. Len(Read(o)) > 0 /\ Len(Read(o)) \in Nat
    BY <1>3, <1>5
  <2>2. o < Size
    BY <1>1, <1>2, <2>1, ReadPart
  <2>3. o + Len(Read(o)) <= Size
    BY <1>1, <1>2, <2>2, ReadPart
  <2> HIDE DEF o, i
  <2> QED BY <1>1, <1>2, <1>5, <2>1, <2>3
<1>7. starts' = [starts EXCEPT ![cur] = o + i]
  BY DEF SeekFound
<1>8. starts' \in [Ids -> 0 .. Size]
  BY <1>6, <1>7 DEF IInv, TypeOK
<1>9. CASE cur = Last
  <2>1. pc' = "open" /\ cur' = 0 /\ block' = 0
    BY <1>9 DEF SeekFound
  <2>2. TypeOK'
    BY <1>1, <1>8, <2>1, IdsRange DEF IInv, TypeOK, SeekFound, Size
  <2>3. Window' /\ Bookends'
    BY <1>1, <2>1 DEF Window, Bookends
  <2> QED BY <2>2, <2>3 DEF IInv
<1>10. CASE cur # Last
  <2>1. pc' = "seek" /\ cur' = cur + 1 /\ block' = Placed(cur + 1)
    BY <1>1, <1>10 DEF SeekFound
  <2>2. cur + 1 \in 0 .. Contexts - 1
    BY <1>1, <1>10, IdsRange
  <2>3. block' \in 0 .. Size
    BY <1>1, <2>1, <2>2, Share, SizesAssumption DEF Placed
  <2>4. TypeOK'
    BY <1>1, <1>8, <2>1, <2>2, <2>3, IdsRange DEF IInv, TypeOK, SeekFound, Size
  <2>5. Window' /\ Bookends'
    BY <1>1, <2>1, <2>2 DEF Window, Bookends, Ids
  <2> QED BY <2>4, <2>5 DEF IInv
<1> QED BY <1>9, <1>10

(* Turning to a context, with an empty buffer where its seek ended, or past *)
(* one.                                                                     *)
LEMMA NextContextInv ==
  IInv /\ cur \in Ids /\ cur' = cur + 1 /\ pc' = "open"
       /\ UNCHANGED <<file, starts, block, off, fileOff, buf, bufOff, msgs>>
  => IInv'
<1> SUFFICES ASSUME IInv, cur \in Ids, cur' = cur + 1, pc' = "open",
                    UNCHANGED <<file, starts, block, off, fileOff, buf, bufOff, msgs>>
             PROVE  IInv'
  OBVIOUS
<1>1. TypeOK'
  BY IdsRange DEF IInv, TypeOK, Size
<1>2. Window' /\ Bookends'
  BY LagStays DEF IInv, Window, Bookends, RecordedRight
<1> QED BY <1>1, <1>2 DEF IInv

LEMMA OpenInv == IInv /\ Open => IInv'
<1> SUFFICES ASSUME IInv, Open PROVE IInv'
  OBVIOUS
<1> DEFINE first == IF Reset(cur) THEN starts[cur] ELSE Placed(cur)
<1>1. /\ cur \in Ids /\ starts[cur] \in 0 .. Size /\ TypeOK /\ Size \in Nat
      /\ pc = "open"
  BY FileIsSeq DEF IInv, TypeOK, Open, Kept
<1>2. /\ pc' = "next" /\ cur' = cur /\ buf' = << >> /\ bufOff' = 0
      /\ off' = first /\ fileOff' = starts[cur]
      /\ UNCHANGED <<file, starts, block, msgs>>
  BY DEF Open
<1>3. first \in 0 .. Size /\ starts[cur] = first + Lag(cur)
  BY <1>1, PlacedWithin, LagType
<1> HIDE DEF first
<1>4. TypeOK'
  BY <1>1, <1>2, <1>3 DEF TypeOK, Size
<1>5. Place' = starts[cur]
  <2>1. Lag(cur)' = Lag(cur)
    BY <1>2 DEF Lag, Reset, Placed, Size
  <2> QED BY <1>2, <1>3, <2>1 DEF Place
<1>6. SubSeq(buf', bufOff' + 1, Len(buf')) = SubSeq(file', Place' + 1, fileOff')
  <2>1. SubSeq(buf', bufOff' + 1, Len(buf')) = << >>
    BY <1>2, SubSeqEmpty
  <2>2. starts[cur] < starts[cur] + 1 /\ starts[cur] \in Int
    BY <1>1
  <2>3. SubSeq(file', Place' + 1, fileOff') = << >>
    BY <1>2, <1>5, <2>2, SubSeqEmpty
  <2> QED BY <2>1, <2>3
<1>7. Place' <= fileOff'
  BY <1>1, <1>2, <1>5
<1>8. Window'
  BY <1>1, <1>2, <1>6, <1>7 DEF Window, Ids
<1>9. Bookends'
  BY <1>2, LagStays DEF IInv, Bookends, RecordedRight
<1> QED BY <1>4, <1>8, <1>9 DEF IInv

(* A step within the buffer of a context leaves where it begins.            *)
LEMMA PlaceStays ==
  ASSUME UNCHANGED <<file, starts, cur, off>>
  PROVE  Place' = Place
BY DEF Place, Lag, Reset, Placed, Size

LEMMA NextMessageInv == IInv /\ NextMessage => IInv'
<1> SUFFICES ASSUME IInv, NextMessage PROVE IInv'
  OBVIOUS
<1>1. /\ pc = "next" /\ pc' = "headers" /\ bufOff' = 0
      /\ buf' = SubSeq(buf, bufOff + 1, Len(buf))
      /\ UNCHANGED <<file, starts, block, cur, off, fileOff, msgs>>
  BY DEF NextMessage
<1>2. buf \in Seq(Symbols) /\ bufOff \in 0 .. Len(buf)
  BY DEF IInv, TypeOK
<1>3. buf' \in Seq(Symbols)
  <2>1. Len(buf) \in bufOff .. Len(buf)
    BY <1>2
  <2> QED BY <1>1, <1>2, <2>1, PartType
<1>4. TypeOK'
  BY <1>1, <1>3 DEF IInv, TypeOK, Size
<1>5. buf' = SubSeq(file, Place + 1, fileOff)
  BY <1>1 DEF IInv, Window
<1>6. Window'
  BY <1>1, <1>5, PlaceStays DEF IInv, Window, Ids
<1>7. Bookends'
  BY <1>1, LagStays DEF IInv, Bookends, RecordedRight
<1> QED BY <1>4, <1>6, <1>7 DEF IInv

(* What the window is for in the two searches: the buffer has the length of *)
(* the part of the file between its place and where the reads have come to. *)
LEMMA InSearch ==
  ASSUME IInv, pc \in {"headers", "from"}
  PROVE  /\ file \in Seq(Symbols) /\ Size = Len(file) /\ Size \in Nat
         /\ off \in 0 .. Size /\ off <= Place /\ (InStep(cur) => Place = off)
         /\ Place \in 0 .. Size /\ fileOff \in Place .. Size
         /\ buf = SubSeq(file, Place + 1, fileOff)
         /\ buf \in Seq(Symbols) /\ Len(buf) = fileOff - Place
         /\ bufOff \in 0 .. Len(buf)
         /\ cur \in Ids
<1>1. file \in Seq(Symbols) /\ Size = Len(file) /\ Size \in Nat
  BY FileIsSeq DEF IInv, Size
<1>2. /\ off \in 0 .. Size /\ fileOff \in 0 .. Size /\ Place <= fileOff
      /\ buf \in Seq(Symbols) /\ bufOff \in 0 .. Len(buf) /\ cur \in Ids
      /\ buf = SubSeq(file, Place + 1, fileOff)
  BY DEF IInv, TypeOK, Window
<1>3. off <= Place /\ Place \in Nat /\ (InStep(cur) => Place = off)
  <2>1. \A g \in Nat : Place = off + g => off <= Place /\ Place \in Nat /\ (g = 0 => Place = off)
    BY <1>1, <1>2
  <2>2. Lag(cur) \in Nat /\ Place = off + Lag(cur)
    BY <1>2, LagType DEF IInv, Place
  <2> QED BY <2>1, <2>2 DEF InStep
<1>4. Place \in 0 .. Size /\ fileOff \in Place .. Size
  BY <1>1, <1>2, <1>3
<1>5. Len(buf) = fileOff - Place
  BY <1>1, <1>2, <1>4, PartType
<1> QED BY <1>1, <1>2, <1>3, <1>4, <1>5

LEMMA HeadersFoundInv == IInv /\ HeadersFound => IInv'
<1> SUFFICES ASSUME IInv, HeadersFound PROVE IInv'
  OBVIOUS
<1>1. /\ pc = "headers" /\ pc' = "from" /\ bufOff' = AfterHeaders(buf, bufOff)
      /\ UNCHANGED <<file, starts, block, cur, off, fileOff, buf, msgs>>
  BY DEF HeadersFound
<1>2. bufOff' \in 0 .. Len(buf)
  BY <1>1, InSearch, Stops DEF HeadersFound
<1>3. TypeOK'
  BY <1>1, <1>2 DEF IInv, TypeOK, Size
<1>4. Window'
  BY <1>1, PlaceStays DEF IInv, Window, Ids
<1>5. Bookends'
  BY <1>1, LagStays DEF IInv, Bookends, RecordedRight
<1> QED BY <1>3, <1>4, <1>5 DEF IInv

(* A read moves the end of the window, and only that.                       *)
LEMMA ReadMoreInv ==
  ASSUME IInv, pc \in {"headers", "from"}, NEW o \in 0 .. Len(buf), ReadMore(o)
  PROVE  IInv'
<1> DEFINE e == fileOff + Len(Read(fileOff))
<1>1. /\ buf' = buf \o Read(fileOff) /\ fileOff' = e /\ bufOff' = o
      /\ UNCHANGED <<file, pc, starts, block, cur, off, msgs>>
      /\ Read(fileOff) # << >>
  BY DEF ReadMore
<1>2. /\ file \in Seq(Symbols) /\ Size = Len(file) /\ Size \in Nat
      /\ Place \in 0 .. Size /\ fileOff \in Place .. Size
      /\ buf = SubSeq(file, Place + 1, fileOff)
      /\ buf \in Seq(Symbols)
  BY InSearch
<1>3. fileOff \in Nat
  BY <1>2
<1>4. Read(fileOff) \in Seq(Symbols) /\ e \in fileOff .. Size
  <2>1. Read(fileOff) \in Seq(Symbols) /\ ~(fileOff >= Size) /\ (fileOff < Size => e <= Size)
    BY <1>1, <1>2, <1>3, ReadPart
  <2>2. Len(Read(fileOff)) \in Nat
    BY <2>1
  <2>3. e \in Nat /\ fileOff <= e
    BY <1>3, <2>2
  <2>4. e <= Size
    BY <1>2, <1>3, <2>1
  <2> HIDE DEF e
  <2> QED BY <1>2, <1>3, <2>1, <2>3, <2>4
<1>5. Read(fileOff) = SubSeq(file, fileOff + 1, e)
  BY <1>2, <1>3, ReadPart
<1>6. buf' \in Seq(Symbols) /\ Len(buf') = Len(buf) + Len(Read(fileOff))
  BY <1>1, <1>2, <1>4, ConcatProperties
<1>7. TypeOK'
  BY <1>1, <1>2, <1>4, <1>6 DEF IInv, TypeOK, Size
<1>8. buf' = SubSeq(file, Place + 1, e)
  <2>1. SubSeq(file, Place + 1, fileOff) \o SubSeq(file, fileOff + 1, e)
          = SubSeq(file, Place + 1, e)
    BY <1>2, <1>4, PartGrows
  <2> QED BY <1>1, <1>2, <1>5, <2>1
<1>9. Window'
  <2>1. Place' = Place
    BY <1>1, PlaceStays
  <2>2. Place' <= fileOff'
    BY <1>1, <1>2, <1>4, <2>1
  <2> QED BY <1>1, <1>8, <2>1, <2>2 DEF IInv, Window, Ids
<1>10. Bookends'
  BY <1>1, LagStays DEF IInv, Bookends, RecordedRight
<1> QED BY <1>7, <1>9, <1>10 DEF IInv

(* A message is the front of the window, and what is left of the buffer is  *)
(* the window from its end on.                                              *)
LEMMA EmitInv ==
  ASSUME IInv, pc = "from", NEW o \in 0 .. Len(buf), NEW eof, Emit(o, eof)
  PROVE  IInv'
<1> DEFINE m == [ctx |-> cur, start |-> off, end |-> off + o, text |-> SubSeq(buf, 1, o)]
<1>1. /\ off' = off + o /\ bufOff' = o /\ msgs' = Append(msgs, m)
      /\ \/ pc' = "open" /\ cur' = cur + 1
         \/ pc' = "next" /\ cur' = cur
      /\ UNCHANGED <<file, starts, block, fileOff, buf>>
  BY DEF Emit
<1>2. /\ file \in Seq(Symbols) /\ Size = Len(file) /\ Size \in Nat
      /\ off \in 0 .. Size /\ off <= Place /\ (InStep(cur) => Place = off)
      /\ Place \in 0 .. Size /\ fileOff \in Place .. Size
      /\ buf = SubSeq(file, Place + 1, fileOff)
      /\ buf \in Seq(Symbols) /\ Len(buf) = fileOff - Place /\ cur \in Ids
  BY InSearch
<1>3. /\ o \in 0 .. fileOff - Place /\ Place + o \in Place .. fileOff
      /\ Place + o \in 0 .. Size /\ off + o \in 0 .. Size
  BY <1>2
<1>4. /\ SubSeq(buf, 1, o) = SubSeq(file, Place + 1, Place + o)
      /\ SubSeq(buf, o + 1, Len(buf)) = SubSeq(file, Place + o + 1, fileOff)
  BY <1>2, <1>3, PartCut
<1>5. SubSeq(buf, 1, o) \in Seq(Symbols)
  BY <1>2, <1>3, <1>4, PartType
<1>6. cur' \in 0 .. Contexts
  BY <1>1, <1>2, IdsRange
<1>7. TypeOK'
  <2> DEFINE M == [ctx : Ids, start : 0 .. Size, end : 0 .. Size, text : Seq(Symbols)]
  <2>1. m \in M
    BY <1>2, <1>3, <1>5
  <2>2. msgs \in Seq(M)
    BY DEF IInv, TypeOK
  <2>3. Append(msgs, m) \in Seq(M)
    BY <2>1, <2>2, AppendProperties
  <2>4. msgs' \in Seq(M)
    BY <1>1, <2>3
  <2>5. M' = M /\ Size' = Size
    BY <1>1 DEF Size
  <2> HIDE DEF m, M
  <2>6. msgs' \in Seq(M')
    BY <2>4, <2>5
  <2>7. off' \in 0 .. Size /\ bufOff' \in 0 .. Len(buf)
    BY <1>1, <1>3
  <2> QED BY <1>1, <1>6, <2>5, <2>6, <2>7 DEF IInv, TypeOK, M
<1>8. Window'
  <2>1. pc' = "next" => Place' = Place + o
    <3>1. pc' = "next" => Lag(cur)' = Lag(cur)
      BY <1>1 DEF Lag, Reset, Placed, Size
    <3>2. Lag(cur) \in Nat
      BY <1>2, LagType DEF IInv
    <3> QED BY <1>1, <1>2, <3>1, <3>2 DEF Place
  <2>2. pc' = "next" => SubSeq(buf', bufOff' + 1, Len(buf')) = SubSeq(file', Place' + 1, fileOff')
    BY <1>1, <1>4, <2>1
  <2>3. pc' = "next" => Place' <= fileOff'
    BY <1>1, <1>2, <1>3, <2>1
  <2>4. pc' # "open" => cur' \in Ids'
    BY <1>1, <1>2 DEF Ids
  <2> QED BY <1>1, <2>2, <2>3, <2>4 DEF Window
<1>9. Bookends'
  <2>1. m.ctx = cur /\ (InStep(cur) => m.text = SubSeq(file, m.start + 1, m.end))
    BY <1>2, <1>4
  <2>2. msgs \in Seq([ctx : Ids, start : 0 .. Size, end : 0 .. Size, text : Seq(Symbols)])
    BY DEF IInv, TypeOK
  <2> HIDE DEF m
  <2>3. /\ DOMAIN msgs' = DOMAIN msgs \union {Len(msgs) + 1}
        /\ msgs'[Len(msgs) + 1] = m
        /\ \A k \in DOMAIN msgs : msgs'[k] = msgs[k]
    <3>1. /\ DOMAIN Append(msgs, m) = DOMAIN msgs \union {Len(msgs) + 1}
          /\ Append(msgs, m)[Len(msgs) + 1] = m
          /\ \A k \in DOMAIN msgs : Append(msgs, m)[k] = msgs[k]
      BY <2>2, AppendAt
    <3> QED BY <1>1, <3>1
  <2>4. \A i : InStep(i)' <=> InStep(i)
    BY <1>1, LagStays
  <2> QED BY <1>1, <2>1, <2>3, <2>4 DEF IInv, Bookends, RecordedRight
<1> QED BY <1>7, <1>8, <1>9 DEF IInv

LEMMA StepInv == IInv /\ [Next]_vars => IInv'
<1> SUFFICES ASSUME IInv, [Next]_vars PROVE IInv'
  OBVIOUS
<1>1. CASE Skip
  <2>1. cur \in Ids /\ pc' = "open"
    BY <1>1 DEF Skip
  <2> QED BY <1>1, <2>1, NextContextInv DEF Skip
<1>2. CASE HeadersRead
  BY <1>2, InSearch, Stops, ReadMoreInv DEF HeadersRead
<1>3. CASE HeadersEof \/ FromPastEnd
  BY <1>3, InSearch, NextContextInv DEF HeadersEof, FromPastEnd, GiveUp
<1>4. CASE FromFound
  BY <1>4, InSearch, Stops, EmitInv DEF FromFound
<1>5. CASE FromRead
  BY <1>5, InSearch, Stops, ReadMoreInv DEF FromRead
<1>6. CASE FromEof
  BY <1>6, InSearch, Stops, EmitInv DEF FromEof
<1>7. CASE UNCHANGED vars
  <2>1. Place' = Place /\ \A i : InStep(i)' <=> InStep(i)
    BY <1>7, PlaceStays, LagStays DEF vars
  <2> QED BY <1>7, <2>1 DEF vars, IInv, TypeOK, Window, Ids, Bookends, RecordedRight, Size
<1> QED
  BY <1>1, <1>2, <1>3, <1>4, <1>5, <1>6, <1>7, SeekOnInv, SeekFoundInv, OpenInv,
     NextMessageInv, HeadersFoundInv
  DEF Next

LEMMA ScanInvariant == Spec => []IInv
  BY InitInv, StepInv, PTL DEF Spec
-----------------------------------------------------------------------------
(* mboxParserCtxSeekStart and mboxParserCtxGetNextMessage keep their        *)
(* offsets within the file and the buffer, for every file.                  *)
THEOREM ScanTypes == Spec => []TypeOK
  BY ScanInvariant, PTL DEF IInv

(* For every size of a read and number of contexts, and for every context   *)
(* whose offset is reset or began at the start of the file: each message    *)
(* that mboxParserCtxGetNextMessage returns is recorded with the offsets of *)
(* its bytes, and the buffer is the part of the file between the offsets.   *)
THEOREM ScanOffsets == Spec => []OffsetsInStep
<1>1. ASSUME IInv PROVE OffsetsInStep
  <2>1. ASSUME pc \in {"headers", "from"}, InStep(cur)
        PROVE  buf = SubSeq(file, off + 1, fileOff)
    <3>1. Place = off
      BY <1>1, <2>1, InSearch
    <3> QED BY <1>1, <2>1, <3>1 DEF IInv, Window
  <2> QED BY <1>1, <2>1 DEF IInv, OffsetsInStep, BufferIsWindow
<1> QED BY ScanInvariant, <1>1, PTL

-----------------------------------------------------------------------------
(* What the searches find in a buffer: the first place from an index on     *)
(* that is one to stop at, and the first blank line.                        *)
LEMMA FromStopIsFirst ==
  ASSUME NEW b \in Seq(Symbols), NEW o \in 0 .. Len(b), NEW s, s = FromStop(b, o)
  PROVE  /\ s \in o .. Len(b)
         /\ s # Len(b) => b[s + 1] = "n" /\ (IsFromLine(b, s) \/ s + Margin >= Len(b))
         /\ \A j \in o .. Len(b) - 1 :
              b[j + 1] = "n" /\ (IsFromLine(b, j) \/ j + Margin >= Len(b)) => s <= j
<1> DEFINE T == {Len(b)} \union
      {i \in o .. Len(b) - 1 : b[i + 1] = "n" /\ (IsFromLine(b, i) \/ i + Margin >= Len(b))}
<1>1. T \subseteq Nat /\ T # {}
  OBVIOUS
<1>2. s = Min(T)
  BY DEF FromStop
<1>3. s \in T /\ \A j \in T : s <= j
  <2> HIDE DEF T
  <2> QED BY <1>1, <1>2, MinIsLeast
<1>4. s \in o .. Len(b)
  BY <1>3
<1>5. s # Len(b) => b[s + 1] = "n" /\ (IsFromLine(b, s) \/ s + Margin >= Len(b))
  BY <1>3
<1>6. \A j \in o .. Len(b) - 1 :
        b[j + 1] = "n" /\ (IsFromLine(b, j) \/ j + Margin >= Len(b)) => s <= j
  BY <1>3
<1> QED BY <1>4, <1>5, <1>6

LEMMA AfterFirstBlank ==
  ASSUME NEW b \in Seq(Symbols), NEW o \in Nat, HasHeaders(b, o)
  PROVE  \E i \in BlankLines(b, o) :
           /\ \A j \in BlankLines(b, o) : i <= j
           /\ b[i + 2] = "n" => AfterHeaders(b, o) = i + 2
           /\ b[i + 2] # "n" => AfterHeaders(b, o) = i + 3
<1> DEFINE i == Min(BlankLines(b, o))
<1>1. BlankLines(b, o) \subseteq Nat /\ BlankLines(b, o) # {}
  BY DEF BlankLines, HasHeaders
<1>2. i \in BlankLines(b, o) /\ \A j \in BlankLines(b, o) : i <= j
  BY <1>1, MinIsLeast
<1>3. AfterHeaders(b, o) = IF b[i + 2] = "n" THEN i + 2 ELSE i + 3
  BY DEF AfterHeaders
<1> HIDE DEF i
<1> QED BY <1>2, <1>3

-----------------------------------------------------------------------------
(* The inductive invariant, for a file that is a mailbox.                   *)
FoundInv == IInv /\ Mailbox(file) /\ ScanInv

LEMMA FromLineAt ==
  ASSUME file \in Seq(Symbols), NEW q \in Int
  PROVE  q \in FromLines
           <=> 0 <= q /\ q < Size /\ file[q + 1] = "F" /\ (q = 0 \/ file[q] = "n")
<1>1. Size \in Nat /\ Size = Len(file)
  BY DEF Size
<1>2. q \in 0 .. Len(file) - 1 <=> 0 <= q /\ q < Size
  BY <1>1
<1> QED BY <1>2, Zenon DEF FromLines, FromLinesOf

LEMMA FromLinesType == file \in Seq(Symbols) => FromLines \subseteq Nat
BY DEF FromLines, FromLinesOf

(* A step that moves neither the file nor the starts leaves the split as it *)
(* is.                                                                      *)
LEMMA SplitStays ==
  ASSUME file' = file, starts' = starts
  PROVE  /\ Size' = Size /\ FromLines' = FromLines /\ (Sound' <=> Sound)
         /\ \A i : End(i)' = End(i) /\ BlockEnds(i)' = BlockEnds(i)
         /\ \A i : Sought(i)' <=> Sought(i)
         /\ \A o : FromAt(o)' = FromAt(o)
<1>1. Size' = Size /\ FromLines' = FromLines
  BY DEF Size, FromLines
<1>2. \A i : End(i)' = End(i) /\ BlockEnds(i)' = BlockEnds(i)
  BY <1>1 DEF End, BlockEnds
<1>3. \A o : FromAt(o)' = FromAt(o)
  BY DEF FromAt
<1>4. \A i : Sought(i)' <=> Sought(i)
  BY <1>1 DEF Sought
<1>5. Kept' = Kept
  BY <1>2 DEF Kept
<1>6. (Ordered' <=> Ordered) /\ (NoCutAtEnd' <=> NoCutAtEnd) /\ (NoCutBlankLine' <=> NoCutBlankLine)
  BY <1>1, <1>2, <1>5, Zenon DEF Ordered, NoCutAtEnd, NoCutBlankLine
<1> QED BY <1>1, <1>2, <1>3, <1>4, <1>6 DEF Sound

(* Once the seeks are done every context starts inside the file, at a From  *)
(* line or at the newline before one.                                       *)
LEMMA AllSought ==
  ASSUME FoundInv, pc # "seek", NEW i \in Ids
  PROVE  /\ Sought(i)
         /\ starts[i] \in Nat /\ starts[i] < Size
         /\ FromAt(starts[i]) \in FromLines
<1>1. file \in Seq(Symbols) /\ Size \in Nat
  BY FileIsSeq DEF FoundInv, IInv
<1>2. Sought(i)
  BY DEF FoundInv, ScanInv, SeekState
<1>3. starts[i] \in Nat /\ starts[i] < Size
  BY <1>1, <1>2 DEF FoundInv, IInv, TypeOK, Sought
<1>4. CASE starts[i] = 0
  <2>1. 0 \in FromLines
    BY DEF FoundInv, Mailbox, FromLines
  <2>2. file[0 + 1] = "F"
    BY <1>1, <2>1, FromLineAt
  <2> QED BY <1>2, <1>3, <1>4, <2>1, <2>2 DEF FromAt
<1>5. CASE starts[i] # 0
  BY <1>2, <1>3, <1>5 DEF Sought, FromAt
<1> QED BY <1>2, <1>3, <1>4, <1>5

(* The first context of a mailbox starts at 0, so that no offset lags.      *)
LEMMA NoLag ==
  ASSUME FoundInv, pc # "seek", NEW i \in Ids
  PROVE  Lag(i) = 0
<1>1. Sought(i) /\ starts[i] \in Nat
  BY AllSought
<1>2. CASE Reset(i)
  BY <1>2 DEF Lag
<1>3. CASE ~Reset(i)
  <2>1. starts[i] = 0
    BY <1>1, <1>3 DEF Sought, Reset
  <2>2. TypeOK /\ starts[i] = Placed(i) + Lag(i) /\ Lag(i) \in Nat /\ Placed(i) \in Nat
    BY <1>3, LagType, PlacedWithin DEF FoundInv, IInv
  <2> QED BY <2>1, <2>2
<1> QED BY <1>2, <1>3

LEMMA PlaceIsOffset == FoundInv /\ Scanning => Place = off /\ Lag(cur) = 0
<1> SUFFICES ASSUME FoundInv, Scanning PROVE Place = off /\ Lag(cur) = 0
  OBVIOUS
<1>1. cur \in Ids /\ pc # "seek" /\ off \in 0 .. Size /\ Size \in Nat
  BY FileIsSeq DEF FoundInv, IInv, TypeOK, Window, Scanning
<1>2. Lag(cur) = 0
  BY <1>1, NoLag
<1> QED BY <1>1, <1>2 DEF Place

(* The part of a context, and where a scan is in it.                        *)
LEMMA InPart ==
  ASSUME FoundInv, Scanning
  PROVE  /\ file \in Seq(Symbols) /\ Size = Len(file) /\ Size \in Nat
         /\ cur \in Ids /\ pc # "seek"
         /\ off \in Nat /\ fileOff \in Nat /\ off <= fileOff /\ fileOff <= Size
         /\ starts[cur] \in Nat /\ starts[cur] <= off
         /\ End(cur) \in Nat /\ End(cur) <= Size /\ off < End(cur)
         /\ cur # Last => cur + 1 \in Ids /\ End(cur) = starts[cur + 1]
         /\ cur = Last => End(cur) = Size
<1>1. file \in Seq(Symbols) /\ Size = Len(file) /\ Size \in Nat /\ pc # "seek" /\ cur \in Ids
  BY FileIsSeq DEF FoundInv, IInv, Window, Scanning, Size
<1>2. /\ off \in Nat /\ fileOff \in Nat /\ off <= fileOff /\ fileOff <= Size
      /\ starts[cur] \in Nat /\ starts[cur] <= off /\ off < End(cur)
  <2>1. Place = off /\ Place <= fileOff
    BY PlaceIsOffset DEF FoundInv, IInv, Window, Scanning
  <2> QED BY <1>1, <2>1 DEF FoundInv, IInv, TypeOK, ScanInv, ScanState
<1>3. cur = Last => End(cur) = Size
  BY DEF End
<1>4. cur # Last => cur + 1 \in Ids /\ End(cur) = starts[cur + 1]
  BY <1>1, IdsRange DEF End
<1>5. End(cur) \in Nat /\ End(cur) <= Size
  BY <1>1, <1>3, <1>4, AllSought
<1> QED BY <1>1, <1>2, <1>3, <1>4, <1>5

(* Where the message that is scanned begins, and no other does up to there. *)
LEMMA Current ==
  ASSUME FoundInv, Scanning
  PROVE  /\ FromAt(off) \in FromLines /\ FromAt(off) \in Nat
         /\ file[off + 1] = "n" => FromAt(off) = off + 1
         /\ file[off + 1] # "n" => FromAt(off) = off
         /\ \A q \in FromLines : off <= q => FromAt(off) <= q
<1>1. file \in Seq(Symbols) /\ off \in Nat
  BY InPart
<1>2. FromAt(off) \in FromLines /\ FromAt(off) \in Nat
  BY <1>1, FromLinesType DEF FoundInv, ScanInv, ScanState
<1>3. /\ file[off + 1] = "n" => FromAt(off) = off + 1
      /\ file[off + 1] # "n" => FromAt(off) = off
  BY DEF FromAt
<1>4. ASSUME NEW q \in FromLines, off <= q PROVE FromAt(off) <= q
  <2>1. q \in Nat /\ file[q + 1] = "F"
    BY <1>1, FromLinesType, FromLineAt
  <2> QED BY <1>1, <1>3, <1>4, <2>1
<1> QED BY <1>2, <1>3, <1>4

(* The buffer of a search, byte by byte.                                    *)
LEMMA InBuffer ==
  ASSUME FoundInv, pc \in {"headers", "from"}
  PROVE  /\ Scanning /\ buf \in Seq(Symbols) /\ Len(buf) \in Nat /\ Len(buf) = fileOff - off
         /\ buf = SubSeq(file, off + 1, fileOff) /\ bufOff \in 0 .. Len(buf)
         /\ \A j \in Nat : j < Len(buf) => buf[j + 1] = file[off + j + 1]
<1>1. Scanning
  BY DEF Scanning
<1>2. /\ file \in Seq(Symbols) /\ Size = Len(file) /\ off \in 0 .. Size /\ fileOff \in off .. Size
      /\ buf = SubSeq(file, off + 1, fileOff)
      /\ buf \in Seq(Symbols) /\ Len(buf) = fileOff - off /\ bufOff \in 0 .. Len(buf)
  BY <1>1, InSearch, PlaceIsOffset DEF FoundInv
<1>3. \A k \in 1 .. fileOff - off : buf[k] = file[off + k]
  BY <1>2, PartType
<1>4. ASSUME NEW j \in Nat, j < Len(buf) PROVE buf[j + 1] = file[off + j + 1]
  <2>1. j + 1 \in 1 .. fileOff - off /\ off + (j + 1) = off + j + 1
    BY <1>2, <1>4
  <2> QED BY <1>3, <2>1
<1>5. Len(buf) \in Nat
  BY <1>2
<1> QED BY <1>1, <1>2, <1>4, <1>5

(* The search for the next From line does not stop beyond it.               *)
LEMMA StopsBefore ==
  ASSUME FoundInv, pc = "from", Sound, NEW q \in FromLines, FromAt(off) < q
  PROVE  q \in Nat /\ off + FromStop(buf, bufOff) < q
<1> DEFINE s == FromStop(buf, bufOff)
           j == q - 1 - off
<1>1. /\ file \in Seq(Symbols) /\ Size = Len(file) /\ Size \in Nat /\ off \in Nat
      /\ Margin \in Nat \ {0}
  BY InBuffer, InPart, SizesAssumption
<1>2. /\ buf \in Seq(Symbols) /\ bufOff \in 0 .. Len(buf) /\ Len(buf) \in Nat
      /\ \A i \in Nat : i < Len(buf) => buf[i + 1] = file[off + i + 1]
  BY InBuffer
<1>3. q \in Nat /\ off + bufOff < q
  BY <1>1, FromLinesType DEF FoundInv, ScanInv, NonePassed
<1>4. q # 0 /\ file[q] = "n" /\ file[q + 1] = "F"
  BY <1>1, <1>2, <1>3, FromLineAt
<1>5. /\ s \in bufOff .. Len(buf)
      /\ \A i \in bufOff .. Len(buf) - 1 :
           buf[i + 1] = "n" /\ (IsFromLine(buf, i) \/ i + Margin >= Len(buf)) => s <= i
  BY <1>2, FromStopIsFirst
<1>6. j \in Nat /\ bufOff <= j /\ q = off + j + 1
  BY <1>1, <1>2, <1>3
<1> HIDE DEF s, j
<1>7. ASSUME j < s PROVE FALSE
  <2>1. j \in bufOff .. Len(buf) - 1 /\ j < Len(buf)
    BY <1>2, <1>5, <1>6, <1>7
  <2>2. buf[j + 1] = "n"
    BY <1>2, <1>4, <1>6, <2>1
  <2>3. ~IsFromLine(buf, j) /\ ~(j + Margin >= Len(buf))
    BY <1>2, <1>5, <1>6, <1>7, <2>1, <2>2
  <2>4. j + 1 < Len(buf)
    BY <1>1, <1>2, <1>6, <2>3
  <2>5. buf[(j + 1) + 1] = file[off + (j + 1) + 1]
    BY <1>2, <1>6, <2>4
  <2>6. (j + 1) + 1 = j + 2 /\ off + (j + 1) + 1 = q + 1
    BY <1>1, <1>6
  <2>7. buf[j + 2] = "F"
    BY <1>4, <2>5, <2>6
  <2>8. j + 2 <= Len(buf)
    BY <1>2, <1>6, <2>4
  <2> QED BY <2>2, <2>3, <2>7, <2>8, Zenon DEF IsFromLine
<1> QED BY <1>1, <1>2, <1>3, <1>5, <1>6, <1>7 DEF s

(* A From line that the search finds is one of the file.                    *)
LEMMA StopsAt ==
  ASSUME FoundInv, pc = "from", NEW s \in Nat, IsFromLine(buf, s)
  PROVE  s < Len(buf) /\ off + s + 1 \in FromLines
<1>1. /\ file \in Seq(Symbols) /\ Size = Len(file) /\ Size \in Nat /\ off \in Nat
      /\ fileOff \in Nat /\ fileOff <= Size
  BY InBuffer, InPart
<1>2. /\ Len(buf) \in Nat /\ Len(buf) = fileOff - off
      /\ \A i \in Nat : i < Len(buf) => buf[i + 1] = file[off + i + 1]
  BY InBuffer
<1>3. s + 2 <= Len(buf) /\ buf[s + 1] = "n" /\ buf[s + 2] = "F"
  BY DEF IsFromLine
<1>4. s < Len(buf) /\ s + 1 < Len(buf) /\ off + s + 1 \in Int /\ off + s + 1 # 0
      /\ off + s + 1 < Size /\ 0 <= off + s + 1
  BY <1>1, <1>2, <1>3
<1>5. buf[s + 1] = file[off + s + 1] /\ buf[(s + 1) + 1] = file[off + (s + 1) + 1]
  BY <1>2, <1>4
<1>6. (s + 1) + 1 = s + 2 /\ off + (s + 1) + 1 = (off + s + 1) + 1
  BY <1>1
<1>7. file[off + s + 1] = "n" /\ file[(off + s + 1) + 1] = "F"
  BY <1>3, <1>5, <1>6
<1>8. \A x \in Int : x = off + s + 1 => x \in FromLines
  BY <1>1, <1>4, <1>7, FromLineAt
<1> QED BY <1>4, <1>8

-----------------------------------------------------------------------------
LEMMA InitFound == Init /\ Mailbox(file) => FoundInv
<1> SUFFICES ASSUME Init, Mailbox(file) PROVE FoundInv
  OBVIOUS
<1>1. IInv /\ Mailbox(file)
  BY InitInv
<1>2. SeekState
  BY IdsRange DEF Init, SeekState, Ids
<1>3. ScanState /\ Begins
  BY DEF Init, ScanState, Scanning, Begins
<1> QED BY <1>1, <1>2, <1>3 DEF FoundInv, ScanInv, Init

LEMMA SeekOnFound == FoundInv /\ SeekOn => ScanInv'
<1> SUFFICES ASSUME FoundInv, SeekOn PROVE ScanInv'
  OBVIOUS
<1>1. /\ pc = "seek" /\ block' = Before(block)
      /\ UNCHANGED <<file, pc, starts, cur, off, fileOff, buf, bufOff, msgs>>
  BY DEF SeekOn
<1>2. Placed(cur)' = Placed(cur) /\ \A i : Sought(i)' <=> Sought(i)
  BY <1>1, SplitStays DEF Placed, Size
<1>3. block = 0 => Before(block) = 0
  BY SizesAssumption DEF Before
<1>4. SeekState'
  BY <1>1, <1>2, <1>3 DEF FoundInv, ScanInv, SeekState
<1>5. ScanState' /\ Begins'
  BY <1>1 DEF FoundInv, ScanInv, SeekState, ScanState, Scanning, Begins
<1> QED BY <1>1, <1>4, <1>5 DEF ScanInv

(* A read, byte by byte.                                                    *)
LEMMA ReadBytes ==
  ASSUME file \in Seq(Symbols), NEW o \in Nat
  PROVE  /\ Read(o) \in Seq(Symbols) /\ Len(Read(o)) \in Nat
         /\ \A i \in Nat : i < Len(Read(o)) =>
              o + i < Size /\ Read(o)[i + 1] = file[o + i + 1]
<1>1. /\ Read(o) \in Seq(Symbols)
      /\ o < Size => o + Len(Read(o)) <= Size
      /\ o >= Size => Read(o) = << >>
      /\ o <= Size => Read(o) = SubSeq(file, o + 1, o + Len(Read(o)))
  BY ReadPart
<1>2. Len(Read(o)) \in Nat
  BY <1>1
<1>3. Size \in Nat /\ Size = Len(file)
  BY DEF Size
<1>4. ASSUME NEW i \in Nat, i < Len(Read(o))
      PROVE  o + i < Size /\ Read(o)[i + 1] = file[o + i + 1]
  <2>1. o < Size
    <3>1. Read(o) # << >>
      BY <1>2, <1>4
    <3> QED BY <1>1, <1>3, <3>1
  <2>2. o \in 0 .. Len(file) /\ o + Len(Read(o)) \in o .. Len(file)
        /\ (o + Len(Read(o))) - o = Len(Read(o))
    BY <1>1, <1>2, <1>3, <2>1
  <2>3. \A k \in 1 .. Len(Read(o)) : SubSeq(file, o + 1, o + Len(Read(o)))[k] = file[o + k]
    <3>1. \A e \in o .. Len(file) :
            \A k \in 1 .. e - o : SubSeq(file, o + 1, e)[k] = file[o + k]
      BY <2>2, PartType
    <3> QED BY <2>2, <3>1
  <2>4. i + 1 \in 1 .. Len(Read(o)) /\ o + (i + 1) = o + i + 1 /\ o + i < Size
    BY <1>1, <1>2, <1>3, <1>4, <2>1
  <2>5. Read(o) = SubSeq(file, o + 1, o + Len(Read(o)))
    BY <1>1, <1>3, <2>1
  <2>6. Read(o)[i + 1] = SubSeq(file, o + 1, o + Len(Read(o)))[i + 1]
    BY <2>5
  <2>7. SubSeq(file, o + 1, o + Len(Read(o)))[i + 1] = file[o + (i + 1)]
    BY <2>3, <2>4, Zenon
  <2> QED BY <2>4, <2>6, <2>7, Zenon
<1> QED BY <1>1, <1>2, <1>4

(* Where a seek ends.                                                       *)
LEMMA SeekEnds ==
  ASSUME FoundInv, SeekFound, NEW o, o = Before(block), NEW i, i = Min(Matches(o))
  PROVE  \A c : c = cur => Sought(c)'
<1>1. file \in Seq(Symbols) /\ Size \in Nat /\ Size = Len(file) /\ cur \in Ids /\ pc = "seek"
  BY FileIsSeq DEF FoundInv, IInv, SeekFound, Window, Size
<1>2. o \in Nat /\ block \in Nat
  BY SizesAssumption, <1>1 DEF FoundInv, IInv, TypeOK, Before
<1>3. /\ Read(o) \in Seq(Symbols) /\ Len(Read(o)) \in Nat
      /\ \A k \in Nat : k < Len(Read(o)) =>
           o + k < Size /\ Read(o)[k + 1] = file[o + k + 1]
  BY <1>1, <1>2, ReadBytes
<1>4. i \in Matches(o) /\ \A y \in Matches(o) : i <= y
  <2>1. Matches(o) \subseteq Nat
    BY <1>3 DEF Matches
  <2>2. Matches(o) # {}
    BY DEF SeekFound
  <2> QED BY <2>1, <2>2, MinIsLeast
<1>5. /\ i \in Nat /\ i < Len(Read(o))
      /\ Placed(cur) = 0 => Read(o)[i + 1] = "F"
      /\ Placed(cur) # 0 => IsFromLine(Read(o), i)
  <2>1. /\ i \in 0 .. Len(Read(o)) - 1
        /\ IF Placed(cur) = 0 THEN Read(o)[i + 1] = "F" ELSE IsFromLine(Read(o), i)
    BY <1>4, Zenon DEF Matches
  <2>2. i \in Nat /\ i < Len(Read(o))
    BY <1>3, <2>1
  <2> QED BY <2>1, <2>2, Zenon
<1>6. o + i < Size
  BY <1>3, <1>5
<1>7. /\ starts' = [starts EXCEPT ![cur] = o + i] /\ Size' = Size /\ file' = file
      /\ FromLines' = FromLines /\ starts \in [Ids -> 0 .. Size]
  BY DEF SeekFound, FromLines, Size, FoundInv, IInv, TypeOK
<1>8. starts'[cur] = o + i
  BY <1>1, <1>7
<1>9. cur = 0 => Placed(cur) = 0
  <2>1. 0 * (Size \div Contexts) \in 0 .. Size /\ Size \div Contexts \in Nat
    BY <1>1, Share, SizesAssumption, Z3
  <2>2. 0 * (Size \div Contexts) = 0
    BY <2>1
  <2> QED BY <2>2 DEF Placed
<1>10. CASE Placed(cur) = 0
  <2>1. o = 0
    BY <1>1, <1>10, SizesAssumption DEF FoundInv, ScanInv, SeekState, Before
  <2>2. 0 \in FromLines
    BY DEF FoundInv, Mailbox, FromLines
  <2>3. file[0 + 1] = "F"
    BY <1>1, <2>2, FromLineAt
  <2>4. 0 < Len(Read(o)) /\ Read(o)[0 + 1] = file[o + 0 + 1]
    BY <1>3, <1>5
  <2>5. 0 \in Matches(o)
    <3>1. Read(o)[0 + 1] = "F"
      BY <2>1, <2>3, <2>4
    <3>2. 0 \in 0 .. Len(Read(o)) - 1
      BY <1>3, <2>4
    <3> QED BY <1>10, <3>1, <3>2, Zenon DEF Matches
  <2>6. i = 0
    BY <1>4, <1>5, <2>5
  <2>7. starts'[cur] = 0 /\ 0 < Size
    BY <1>6, <1>8, <2>1, <2>6
  <2> QED BY <1>7, <2>7 DEF Sought
<1>11. CASE Placed(cur) # 0
  <2>1. i + 2 <= Len(Read(o)) /\ Read(o)[i + 1] = "n" /\ Read(o)[i + 2] = "F"
    BY <1>5, <1>11 DEF IsFromLine
  <2>2. i + 1 \in Nat /\ i + 1 < Len(Read(o)) /\ (i + 1) + 1 = i + 2
    BY <1>3, <1>5, <2>1
  <2>3. /\ Read(o)[i + 1] = file[o + i + 1]
        /\ Read(o)[(i + 1) + 1] = file[o + (i + 1) + 1] /\ o + (i + 1) < Size
    BY <1>3, <1>5, <2>2
  <2>4. o + (i + 1) + 1 = (o + i + 1) + 1 /\ o + i + 1 = (o + i) + 1 /\ o + (i + 1) = o + i + 1
    BY <1>2, <1>5
  <2>5. file[(o + i + 1) + 1] = "F" /\ file[o + i + 1] = "n"
    BY <2>1, <2>2, <2>3, <2>4
  <2>6. o + i + 1 \in Int /\ 0 <= o + i + 1 /\ o + i + 1 < Size
    <3>1. i \in Nat /\ o \in Nat
      BY <1>2, <1>5
    <3>2. o + i + 1 < Size
      BY <2>3, <2>4, Zenon
    <3>3. o + i + 1 \in Int /\ 0 <= o + i + 1
      BY <3>1
    <3> QED BY <3>2, <3>3
  <2>7. \A x \in Int : x = o + i + 1 => x \in FromLines
    BY <1>1, <2>5, <2>6, FromLineAt
  <2>8. (o + i) + 1 \in FromLines /\ file[(o + i) + 1] = "n"
    BY <2>4, <2>5, <2>6, <2>7
  <2> QED BY <1>6, <1>7, <1>8, <1>9, <1>11, <2>8 DEF Sought
<1> QED BY <1>10, <1>11

LEMMA SeekFoundFound == FoundInv /\ SeekFound => ScanInv'
<1> SUFFICES ASSUME FoundInv, SeekFound PROVE ScanInv'
  OBVIOUS
<1>1. cur \in Ids /\ pc = "seek" /\ starts \in [Ids -> 0 .. Size] /\ msgs = << >>
  BY DEF FoundInv, IInv, TypeOK, Window, SeekFound, ScanInv, SeekState
<1>2. /\ \E v : starts' = [starts EXCEPT ![cur] = v]
      /\ file' = file /\ Size' = Size /\ FromLines' = FromLines /\ msgs' = << >>
  BY <1>1 DEF SeekFound, FromLines, Size
<1>3. \A i \in Ids : (i < cur \/ i = cur) => Sought(i)'
  <2>1. \A c : c = cur => Sought(c)'
    BY SeekEnds
  <2>2. ASSUME NEW i \in Ids, i < cur PROVE Sought(i)'
    <3>1. Sought(i)
      BY <1>1, <2>2 DEF FoundInv, ScanInv, SeekState
    <3>2. starts'[i] = starts[i]
      BY <1>1, <1>2, <2>2, IdsRange
    <3> QED BY <1>2, <3>1, <3>2 DEF Sought
  <2> QED BY <2>1, <2>2
<1>4. CASE cur = Last
  <2>1. pc' = "open" /\ cur' = 0
    BY <1>4 DEF SeekFound
  <2>2. \A i \in Ids : Sought(i)'
    BY <1>3, <1>4, IdsRange
  <2>3. SeekState'
    BY <2>1, <2>2 DEF SeekState, Ids
  <2>4. ScanState' /\ Begins' /\ NonePassed'
    BY <1>2, <2>1 DEF ScanState, Scanning, Begins, NonePassed
  <2>5. Reached' = starts'[0] /\ starts'[0] = 0
    <3>1. Sought(0)'
      BY <2>2, IdsRange
    <3>2. starts'[0] = 0
      BY <3>1 DEF Sought
    <3>3. cur' # Contexts
      BY <2>1, SizesAssumption
    <3> QED BY <2>1, <3>2, <3>3 DEF Reached, Scanning
  <2>6. FoundSoFar'
    <3>1. DOMAIN msgs' = {}
      BY <1>2
    <3>2. {p \in FromLines' : p < Reached'} = {}
      BY <1>2, <2>5, FromLinesType, FileIsSeq DEF FoundInv, IInv
    <3> QED BY <3>1, <3>2 DEF FoundSoFar
  <2> QED BY <2>3, <2>4, <2>6 DEF ScanInv
<1>5. CASE cur # Last
  <2>1. pc' = "seek" /\ cur' = cur + 1 /\ block' = Placed(cur + 1)
    BY <1>1, <1>5 DEF SeekFound
  <2>2. \A i \in Ids : i < cur' => Sought(i)'
    BY <1>1, <1>3, <2>1, IdsRange
  <2>3. \A i \in Ids' : i < cur' => Sought(i)'
    BY <2>2 DEF Ids
  <2>4. Placed(cur)' = block'
    BY <1>2, <2>1 DEF Placed
  <2>5. SeekState'
    BY <1>2, <2>1, <2>3, <2>4, Zenon DEF SeekState
  <2>6. ScanState' /\ Begins'
    BY <1>2, <2>1 DEF ScanState, Scanning, Begins
  <2> QED BY <2>1, <2>5, <2>6 DEF ScanInv
<1> QED BY <1>4, <1>5

(* A context that is over leaves what its last message came to, or nothing, *)
(* to the next one.                                                         *)
LEMMA ContextOver ==
  ASSUME FoundInv, cur \in Ids, pc # "seek", pc' = "open", cur' = cur + 1,
         file' = file, starts' = starts, Begins',
         Sound =>
           /\ {FromOf(msgs'[k]) : k \in DOMAIN msgs'} = {p \in FromLines : p < End(cur)}
           /\ \A k, l \in DOMAIN msgs' : FromOf(msgs'[k]) = FromOf(msgs'[l]) => k = l
  PROVE  ScanInv'
<1>1. \A i : Sought(i)' <=> Sought(i)
  BY SplitStays
<1>2. SeekState'
  BY <1>1 DEF FoundInv, ScanInv, SeekState
<1>3. ScanState' /\ NonePassed'
  BY DEF ScanState, Scanning, NonePassed
<1>4. Reached' = End(cur)
  BY IdsRange DEF Reached, Scanning, End, Size
<1>5. ASSUME Sound' PROVE FoundSoFar'
  <2>1. FromLines' = FromLines /\ Sound
    BY <1>5, SplitStays
  <2>2. \A m : FromOf(m)' = FromOf(m)
    BY DEF FromOf
  <2> QED BY <1>4, <2>1, <2>2 DEF FoundSoFar, FromOf
<1> QED BY <1>2, <1>3, <1>5 DEF ScanInv

LEMMA SkipFound == FoundInv /\ Skip => ScanInv'
<1> SUFFICES ASSUME FoundInv, Skip PROVE ScanInv'
  OBVIOUS
<1>1. /\ cur \in Ids \ Kept /\ pc = "open" /\ pc' = "open" /\ cur' = cur + 1
      /\ file' = file /\ starts' = starts /\ msgs' = msgs
  BY DEF Skip
<1>2. starts[cur] \in Nat /\ starts[cur] < Size /\ Size \in Nat
  BY <1>1, AllSought, FileIsSeq DEF FoundInv, IInv
<1>3. cur # Last
  BY <1>1, <1>2 DEF Kept, End
<1>4. cur + 1 \in Ids /\ End(cur) = starts[cur + 1] /\ ~(starts[cur] < End(cur))
  BY <1>1, <1>3, IdsRange DEF Kept, End
<1>5. Begins'
  <2>1. \A i : End(i)' = End(i)
    BY <1>1, SplitStays
  <2>2. FromLines' = FromLines
    BY <1>1, SplitStays
  <2> QED BY <1>1, <2>1, <2>2 DEF FoundInv, ScanInv, Begins, FromOf
<1>6. Sound => starts[cur] = End(cur)
  <2> SUFFICES ASSUME Sound PROVE starts[cur] = End(cur)
    OBVIOUS
  <2>1. cur + 1 \in Ids \ {0} /\ (cur + 1) - 1 = cur
    BY <1>1, <1>4, IdsRange
  <2>2. starts[cur] <= starts[cur + 1]
    BY <2>1 DEF Sound, Ordered
  <2>3. starts[cur + 1] \in Nat
    BY <1>1, <1>4, AllSought
  <2> QED BY <1>2, <1>4, <2>2, <2>3
<1>7. Sound =>
        /\ {FromOf(msgs'[k]) : k \in DOMAIN msgs'} = {p \in FromLines : p < End(cur)}
        /\ \A k, l \in DOMAIN msgs' : FromOf(msgs'[k]) = FromOf(msgs'[l]) => k = l
  <2> SUFFICES ASSUME Sound
               PROVE  /\ {FromOf(msgs[k]) : k \in DOMAIN msgs} = {p \in FromLines : p < End(cur)}
                      /\ \A k, l \in DOMAIN msgs : FromOf(msgs[k]) = FromOf(msgs[l]) => k = l
    BY <1>1
  <2>1. Reached = End(cur)
    BY <1>1, <1>6, IdsRange DEF Reached, Scanning
  <2> QED BY <1>1, <2>1 DEF FoundInv, ScanInv, FoundSoFar
<1> QED BY <1>1, <1>5, <1>7, ContextOver

LEMMA OpenFound == FoundInv /\ Open => ScanInv'
<1> SUFFICES ASSUME FoundInv, Open PROVE ScanInv'
  OBVIOUS
<1>1. /\ cur \in Kept /\ cur \in Ids /\ pc = "open" /\ pc' = "next" /\ cur' = cur
      /\ off' = starts[cur] /\ fileOff' = starts[cur]
      /\ file' = file /\ starts' = starts /\ msgs' = msgs
  <2>1. cur \in Ids /\ pc = "open"
    BY DEF Open, Kept
  <2>2. /\ Lag(cur) = 0
        /\ starts[cur] = (IF Reset(cur) THEN starts[cur] ELSE Placed(cur)) + Lag(cur)
        /\ (IF Reset(cur) THEN starts[cur] ELSE Placed(cur)) \in Int
    <3>1. TypeOK /\ starts[cur] \in Int
      BY <2>1, AllSought DEF FoundInv, IInv
    <3> QED BY <2>1, <3>1, NoLag, LagType, PlacedWithin
  <2>3. (IF Reset(cur) THEN starts[cur] ELSE Placed(cur)) = starts[cur]
    BY <2>2
  <2> QED BY <2>1, <2>3 DEF Open
<1>2. starts[cur] \in Nat /\ FromAt(starts[cur]) \in FromLines /\ starts[cur] < End(cur)
  BY <1>1, AllSought DEF Kept
<1>3. /\ FromLines' = FromLines /\ (Sound' <=> Sound)
      /\ \A i : End(i)' = End(i) /\ BlockEnds(i)' = BlockEnds(i)
      /\ \A i : Sought(i)' <=> Sought(i)
      /\ \A o : FromAt(o)' = FromAt(o)
  BY <1>1, SplitStays
<1>4. SeekState'
  BY <1>1, <1>3 DEF FoundInv, ScanInv, SeekState
<1>5. FromAt(off)' = FromAt(starts[cur])
  BY <1>1 DEF FromAt
<1>6. ScanState'
  <2>1. starts'[cur'] <= off' /\ off' < End(cur)' /\ FromAt(off)' \in FromLines'
    <3>1. End(cur)' = End(cur)
      BY <1>1 DEF End, Size
    <3> QED BY <1>1, <1>2, <1>3, <1>5, <3>1
  <2>2. fileOff' \in BlockEnds(cur)' \union {starts'[cur'], Size'}
    BY <1>1
  <2> QED BY <1>1, <2>1, <2>2, Zenon DEF ScanState
<1>7. Begins'
  BY <1>1, <1>3 DEF FoundInv, ScanInv, Begins, FromOf
<1>8. ASSUME Sound' PROVE NonePassed' /\ FoundSoFar'
  <2>1. NonePassed'
    BY <1>1 DEF NonePassed
  <2>2. Reached = starts[cur] /\ Reached' = starts[cur]
    BY <1>1, IdsRange DEF Reached, Scanning
  <2>3. FoundSoFar
    BY <1>1, <1>3, <1>8 DEF FoundInv, ScanInv
  <2>4. FoundSoFar'
    BY <1>1, <1>3, <2>2, <2>3 DEF FoundSoFar, FromOf
  <2> QED BY <2>1, <2>4
<1> QED BY <1>4, <1>6, <1>7, <1>8 DEF ScanInv

(* A step within a message: what is left to show is where the reads have    *)
(* come to and that the search has passed nothing.                          *)
LEMMA SameMessage ==
  ASSUME FoundInv, Scanning, pc' \in {"next", "headers", "from"},
         file' = file, starts' = starts, cur' = cur, off' = off, msgs' = msgs,
         fileOff' \in BlockEnds(cur) \union {starts[cur], Size},
         pc' = "from" => bufOff' > 0,
         Sound => NonePassed'
  PROVE  ScanInv'
<1>1. /\ FromLines' = FromLines /\ (Sound' <=> Sound) /\ Size' = Size
      /\ \A i : End(i)' = End(i) /\ BlockEnds(i)' = BlockEnds(i)
      /\ \A i : Sought(i)' <=> Sought(i)
      /\ \A o : FromAt(o)' = FromAt(o)
  BY SplitStays
<1>2. /\ End(cur)' = End(cur) /\ BlockEnds(cur)' = BlockEnds(cur)
      /\ FromAt(off)' = FromAt(off)
  BY DEF End, BlockEnds, FromAt, Size
<1>3. pc # "seek" /\ Scanning'
  BY DEF Scanning
<1>4. SeekState'
  BY <1>1, <1>3 DEF FoundInv, ScanInv, SeekState, Scanning
<1>5. ScanState'
  <2>1. starts'[cur'] <= off' /\ off' < End(cur)' /\ FromAt(off)' \in FromLines'
    BY <1>1, <1>2 DEF FoundInv, ScanInv, ScanState
  <2>2. fileOff' \in BlockEnds(cur)' \union {starts'[cur'], Size'}
    BY <1>1, <1>2
  <2> QED BY <2>1, <2>2, Zenon DEF ScanState
<1>6. Begins'
  BY <1>1 DEF FoundInv, ScanInv, Begins, FromOf
<1>7. ASSUME Sound' PROVE FoundSoFar'
  <2>1. Reached = off /\ Reached' = off
    BY <1>3 DEF Reached
  <2>2. FoundSoFar
    BY <1>1, <1>3, <1>7 DEF FoundInv, ScanInv
  <2> QED BY <1>1, <2>1, <2>2 DEF FoundSoFar, FromOf
<1> QED BY <1>1, <1>4, <1>5, <1>6, <1>7 DEF ScanInv

LEMMA NextMessageFound == FoundInv /\ NextMessage => ScanInv'
<1> SUFFICES ASSUME FoundInv, NextMessage PROVE ScanInv'
  OBVIOUS
<1>1. /\ pc = "next" /\ pc' = "headers" /\ bufOff' = 0 /\ fileOff' = fileOff
      /\ file' = file /\ starts' = starts /\ cur' = cur /\ off' = off /\ msgs' = msgs
  BY DEF NextMessage
<1>2. Scanning
  BY <1>1 DEF Scanning
<1>3. file \in Seq(Symbols) /\ off \in Nat
  BY <1>2, InPart
<1>4. NonePassed'
  <2>1. \A i \in BlankLines(file, off) : off + 0 <= i
    BY <1>3 DEF BlankLines
  <2>2. BlankLines(file, off)' = BlankLines(file, off)
    BY <1>1 DEF BlankLines
  <2> QED BY <1>1, <2>1, <2>2 DEF NonePassed
<1>5. fileOff' \in BlockEnds(cur) \union {starts[cur], Size}
  BY <1>1, <1>2 DEF FoundInv, ScanInv, ScanState
<1> QED BY <1>1, <1>2, <1>4, <1>5, SameMessage

(* A blank line of the buffer is one of the file, and the other way round   *)
(* as far as the buffer holds all of it.                                    *)
LEMMA BlankInBuffer ==
  ASSUME FoundInv, pc \in {"headers", "from"},
         NEW i \in Int, bufOff <= i, i + 2 <= Len(buf)
  PROVE  /\ i \in BlankLines(buf, bufOff) => off + i \in BlankLines(file, off)
         /\ /\ off + i \in BlankLines(file, off)
            /\ file[off + i + 2] = "n" \/ i + 3 <= Len(buf)
            => i \in BlankLines(buf, bufOff)
<1>1. /\ Size = Len(file) /\ Size \in Nat /\ off \in Nat
      /\ fileOff \in Nat /\ off <= fileOff /\ fileOff <= Size
  BY InBuffer, InPart
<1>2. /\ Len(buf) \in Nat /\ Len(buf) = fileOff - off /\ bufOff \in 0 .. Len(buf)
      /\ \A j \in Nat : j < Len(buf) => buf[j + 1] = file[off + j + 1]
  BY InBuffer
<1>3. i \in Nat /\ i \in bufOff .. Len(buf) - 2 /\ off + i \in off .. Len(file) - 2
      /\ i < Len(buf) /\ i + 1 < Len(buf)
  BY <1>1, <1>2
<1>4. buf[i + 1] = file[off + i + 1] /\ buf[(i + 1) + 1] = file[off + (i + 1) + 1]
  <2>1. i + 1 \in Nat
    BY <1>3
  <2> QED BY <1>2, <1>3, <2>1, Zenon
<1>5. i + 3 <= Len(buf) => buf[(i + 2) + 1] = file[off + (i + 2) + 1] /\ off + i + 3 <= Len(file)
  <2> SUFFICES ASSUME i + 3 <= Len(buf)
               PROVE  buf[(i + 2) + 1] = file[off + (i + 2) + 1] /\ off + i + 3 <= Len(file)
    OBVIOUS
  <2>1. i + 2 \in Nat /\ i + 2 < Len(buf)
    BY <1>2, <1>3
  <2>2. buf[(i + 2) + 1] = file[off + (i + 2) + 1]
    BY <1>2, <2>1, Zenon
  <2>3. off + i + 3 <= Len(file)
    BY <1>1, <1>2, <1>3
  <2> QED BY <2>2, <2>3
<1>6. /\ (i + 1) + 1 = i + 2 /\ off + (i + 1) + 1 = off + i + 2
      /\ (i + 2) + 1 = i + 3 /\ off + (i + 2) + 1 = off + i + 3
  BY <1>1
<1>7. /\ buf[i + 1] = file[off + i + 1] /\ buf[i + 2] = file[off + i + 2]
      /\ i + 3 <= Len(buf) => buf[i + 3] = file[off + i + 3] /\ off + i + 3 <= Len(file)
  BY <1>4, <1>5, <1>6
<1>8. i \in BlankLines(buf, bufOff)
        <=> /\ buf[i + 1] = "n"
            /\ buf[i + 2] = "n" \/ (i + 3 <= Len(buf) /\ buf[i + 2] = "r" /\ buf[i + 3] = "n")
  BY <1>3, Zenon DEF BlankLines
<1>9. off + i \in BlankLines(file, off)
        <=> /\ file[off + i + 1] = "n"
            /\ \/ file[off + i + 2] = "n"
               \/ off + i + 3 <= Len(file) /\ file[off + i + 2] = "r" /\ file[off + i + 3] = "n"
  BY <1>3, Zenon DEF BlankLines
<1> QED BY <1>7, <1>8, <1>9, Zenon

(* The blank line that ends the headers in the buffer is the first of the   *)
(* message in the file.                                                     *)
LEMMA SameBlank ==
  ASSUME FoundInv, Sound, pc = "headers", HasHeaders(buf, bufOff)
  PROVE  \A q \in FromLines : FromAt(off) < q => off + AfterHeaders(buf, bufOff) < q
<1> DEFINE p == FromAt(off)
<1>1. /\ file \in Seq(Symbols) /\ Size = Len(file) /\ Size \in Nat /\ off \in Nat
      /\ fileOff \in Nat /\ off <= fileOff /\ fileOff <= Size
  BY InBuffer, InPart
<1>2. /\ buf \in Seq(Symbols) /\ Len(buf) \in Nat /\ Len(buf) = fileOff - off
      /\ buf = SubSeq(file, off + 1, fileOff) /\ bufOff \in 0 .. Len(buf)
      /\ \A j \in Nat : j < Len(buf) => buf[j + 1] = file[off + j + 1]
  BY InBuffer
<1>3. /\ p \in FromLines /\ p \in Nat /\ file[p + 1] = "F"
      /\ file[off + 1] = "n" => p = off + 1
      /\ file[off + 1] # "n" => p = off
  BY <1>1, InBuffer, Current, FromLineAt
<1>4. PICK i \in BlankLines(buf, bufOff) :
        /\ \A j \in BlankLines(buf, bufOff) : i <= j
        /\ buf[i + 2] = "n" => AfterHeaders(buf, bufOff) = i + 2
        /\ buf[i + 2] # "n" => AfterHeaders(buf, bufOff) = i + 3
  <2>1. bufOff \in Nat
    BY <1>2
  <2> QED BY <1>2, <2>1, AfterFirstBlank
<1>5. HasHeaders(file, p) /\ \A q \in FromLines : p < q => AfterHeaders(file, p) < q
  BY <1>3 DEF FoundInv, Mailbox, FromLines
<1>6. PICK l \in BlankLines(file, p) :
        /\ \A j \in BlankLines(file, p) : l <= j
        /\ file[l + 2] = "n" => AfterHeaders(file, p) = l + 2
        /\ file[l + 2] # "n" => AfterHeaders(file, p) = l + 3
  BY <1>1, <1>3, <1>5, AfterFirstBlank
<1> HIDE DEF p
<1>7. i \in bufOff .. Len(buf) - 2 /\ i \in Nat
  BY <1>2 DEF BlankLines
<1>8. off + i \in BlankLines(file, off)
  <2>1. bufOff <= i /\ i + 2 <= Len(buf) /\ i \in Int
    BY <1>2, <1>7
  <2> QED BY <1>4, <2>1, BlankInBuffer
<1>9. off + i \in BlankLines(file, p)
  <2>1. file[(off + i) + 1] = "n" /\ off + i \in off .. Len(file) - 2
    BY <1>8 DEF BlankLines
  <2>2. off + i >= p
    <3>1. CASE i = 0
      <4>1. file[off + 1] = "n" /\ off + i = off
        BY <1>1, <2>1, <3>1
      <4>2. p = off + 1 /\ file[p + 1] = "F"
        BY <1>3, <4>1
      <4>3. file[(off + i) + 2] = "F"
        BY <1>1, <4>1, <4>2
      <4> QED BY <1>8, <4>3 DEF BlankLines
    <3>2. CASE i # 0
      BY <1>1, <1>3, <1>7, <3>2
    <3> QED BY <3>1, <3>2
  <2> QED BY <1>1, <1>3, <1>8, <2>1, <2>2 DEF BlankLines
<1>10. l = off + i
  <2>1. l <= off + i /\ l \in Nat /\ p <= l /\ l + 2 <= Size /\ off <= p
    <3>1. l \in p .. Len(file) - 2
      BY <1>6, Zenon DEF BlankLines
    <3>2. l <= off + i
      BY <1>6, <1>9
    <3> QED BY <1>1, <1>3, <3>1, <3>2
  <2>2. l \in BlankLines(file, off)
    BY <1>1, <1>3, <2>1 DEF BlankLines
  <2>3. off + bufOff <= l
    BY <2>2 DEF FoundInv, ScanInv, NonePassed
  <2>4. ASSUME l # off + i PROVE FALSE
    <3>1. l - off \in bufOff .. Len(buf) - 2 /\ (l - off) + 3 <= Len(buf) /\ off + (l - off) = l
          /\ l - off < i
      BY <1>1, <1>2, <1>7, <2>1, <2>3, <2>4
    <3>2. off + (l - off) \in BlankLines(file, off)
      BY <2>2, <3>1
    <3>3. l - off \in BlankLines(buf, bufOff)
      <4>1. l - off \in Int /\ bufOff <= l - off /\ (l - off) + 2 <= Len(buf)
        BY <1>2, <3>1
      <4> QED BY <3>1, <3>2, <4>1, BlankInBuffer
    <3>4. i <= l - off
      BY <1>4, <3>3
    <3> QED BY <1>7, <3>1, <3>4
  <2> QED BY <2>4
<1>11. buf[i + 2] = file[l + 2]
  <2>1. i + 1 \in Nat /\ i + 1 < Len(buf) /\ (i + 1) + 1 = i + 2 /\ off + (i + 1) + 1 = l + 2
    BY <1>1, <1>2, <1>7, <1>10
  <2>2. buf[(i + 1) + 1] = file[off + (i + 1) + 1]
    BY <1>2, <2>1
  <2> QED BY <2>1, <2>2
<1>12. off + AfterHeaders(buf, bufOff) = AfterHeaders(file, p)
  BY <1>1, <1>4, <1>6, <1>7, <1>10, <1>11
<1> QED BY <1>5, <1>12 DEF p

(* A read ends where its block does, or with the file.                      *)
LEMMA ReadEnds ==
  ASSUME file \in Seq(Symbols), NEW o \in Nat, Read(o) # << >>
  PROVE  o < Size /\ o + Len(Read(o)) \in {o + ReadSize, Size}
<1>1. Size \in Nat /\ ReadSize \in Nat \ {0} /\ Size = Len(file)
  BY SizesAssumption DEF Size
<1>2. o < Size
  BY <1>1, ReadPart
<1>3. PICK e \in Nat : e = Min({o + ReadSize, Size}) /\ e \in {o + ReadSize, Size}
  BY <1>1, MinOfTwo
<1>4. e \in o .. Len(file) /\ o \in 0 .. Len(file)
  <2>1. o + ReadSize \in Nat /\ o < o + ReadSize
    BY <1>1
  <2>2. e <= Size
    BY <1>1, <1>3, <2>1, MinOfTwo
  <2> QED BY <1>1, <1>2, <1>3, <2>1, <2>2
<1>5. Read(o) = SubSeq(file, o + 1, e)
  BY <1>3 DEF Read
<1>6. Len(Read(o)) = e - o
  BY <1>4, <1>5, PartType
<1> QED BY <1>1, <1>2, <1>3, <1>6

LEMMA NextBlockEnd ==
  ASSUME NEW a \in Nat, NEW r \in Nat \ {0}, NEW z \in Nat, NEW k \in 1 .. z, a + k * r < z
  PROVE  /\ k + 1 \in 1 .. z
         /\ (a + k * r) + r = a + (k + 1) * r
<1>1. k <= k * r /\ (k + 1) * r = k * r + r /\ k * r \in Nat
  BY Z3
<1> QED BY <1>1

LEMMA NextBlock ==
  ASSUME FoundInv, Scanning, Read(fileOff) # << >>
  PROVE  fileOff < Size /\ fileOff + Len(Read(fileOff)) \in BlockEnds(cur) \union {starts[cur], Size}
<1> DEFINE a == starts[cur]
<1>1. /\ file \in Seq(Symbols) /\ Size \in Nat /\ fileOff \in Nat /\ a \in Nat
      /\ ReadSize \in Nat \ {0}
  BY InPart, SizesAssumption
<1>2. fileOff < Size /\ fileOff + Len(Read(fileOff)) \in {fileOff + ReadSize, Size}
  BY <1>1, ReadEnds
<1>3. fileOff \in BlockEnds(cur) \union {a, Size}
  BY DEF FoundInv, ScanInv, ScanState
<1>4. fileOff + ReadSize \in BlockEnds(cur)
  <2>1. CASE fileOff = a
    <3>1. 1 \in 1 .. Size /\ a + 1 * ReadSize = fileOff + ReadSize
      BY <1>1, <1>2, <2>1
    <3> QED BY <3>1 DEF BlockEnds
  <2>2. CASE fileOff \in BlockEnds(cur)
    <3>1. PICK k \in 1 .. Size : fileOff = a + k * ReadSize
      BY <2>2 DEF BlockEnds
    <3> HIDE DEF a
    <3>2. k + 1 \in 1 .. Size /\ fileOff + ReadSize = a + (k + 1) * ReadSize
      <4>1. a + k * ReadSize < Size
        BY <1>2, <3>1
      <4>2. k + 1 \in 1 .. Size /\ (a + k * ReadSize) + ReadSize = a + (k + 1) * ReadSize
        BY <1>1, <4>1, NextBlockEnd
      <4> QED BY <3>1, <4>2, Zenon
    <3> QED BY <3>2 DEF BlockEnds, a
  <2>3. fileOff # Size
    BY <1>1, <1>2
  <2> QED BY <1>3, <2>1, <2>2, <2>3
<1> QED BY <1>2, <1>4

-----------------------------------------------------------------------------
LEMMA HeadersFoundFound == FoundInv /\ HeadersFound => ScanInv'
<1> SUFFICES ASSUME FoundInv, HeadersFound PROVE ScanInv'
  OBVIOUS
<1>1. /\ pc = "headers" /\ pc' = "from" /\ HasHeaders(buf, bufOff)
      /\ bufOff' = AfterHeaders(buf, bufOff) /\ fileOff' = fileOff
      /\ file' = file /\ starts' = starts /\ cur' = cur /\ off' = off /\ msgs' = msgs
  BY DEF HeadersFound
<1>2. Scanning /\ fileOff' \in BlockEnds(cur) \union {starts[cur], Size}
  BY <1>1 DEF Scanning, FoundInv, ScanInv, ScanState
<1>3. bufOff' > 0
  <2>1. buf \in Seq(Symbols) /\ bufOff \in Nat
    BY <1>1, InBuffer
  <2>2. PICK i \in BlankLines(buf, bufOff) :
          /\ buf[i + 2] = "n" => AfterHeaders(buf, bufOff) = i + 2
          /\ buf[i + 2] # "n" => AfterHeaders(buf, bufOff) = i + 3
    BY <1>1, <2>1, AfterFirstBlank
  <2>3. i \in Nat
    BY <2>1 DEF BlankLines
  <2> QED BY <1>1, <2>2, <2>3
<1>4. ASSUME Sound PROVE NonePassed'
  <2>1. \A q \in FromLines : FromAt(off) < q => off + AfterHeaders(buf, bufOff) < q
    BY <1>1, <1>4, SameBlank
  <2>2. FromLines' = FromLines /\ FromAt(off)' = FromAt(off)
    BY <1>1 DEF FromLines, FromAt
  <2> QED BY <1>1, <2>1, <2>2 DEF NonePassed
<1> QED BY <1>1, <1>2, <1>3, <1>4, SameMessage

(* A search of the headers that reads on stops before the blank line that   *)
(* it has seen only the beginning of.                                       *)
LEMMA HeadersReadFound == FoundInv /\ HeadersRead => ScanInv'
<1> SUFFICES ASSUME FoundInv, HeadersRead PROVE ScanInv'
  OBVIOUS
<1> DEFINE s == HeadersStop(buf, bufOff)
<1>1. /\ pc = "headers" /\ pc' = "headers" /\ ~HasHeaders(buf, bufOff)
      /\ Read(fileOff) # << >> /\ bufOff' = s /\ fileOff' = fileOff + Len(Read(fileOff))
      /\ file' = file /\ starts' = starts /\ cur' = cur /\ off' = off /\ msgs' = msgs
  BY DEF HeadersRead, ReadMore
<1>2. Scanning /\ fileOff' \in BlockEnds(cur) \union {starts[cur], Size}
  BY <1>1, NextBlock DEF Scanning
<1>3. ASSUME Sound, NEW i \in BlankLines(file, off) PROVE off + s <= i
  <2>1. /\ file \in Seq(Symbols) /\ Size = Len(file) /\ Size \in Nat /\ off \in Nat
        /\ fileOff \in Nat /\ off <= fileOff /\ fileOff <= Size /\ cur \in Ids
        /\ starts[cur] \in Nat /\ starts[cur] <= off /\ off < End(cur) /\ End(cur) \in Nat
    BY <1>2, InPart
  <2>2. /\ buf \in Seq(Symbols) /\ Len(buf) \in Nat /\ Len(buf) = fileOff - off
        /\ bufOff \in 0 .. Len(buf)
        /\ \A j \in Nat : j < Len(buf) => buf[j + 1] = file[off + j + 1]
    BY <1>1, InBuffer
  <2>3. /\ i \in off .. Len(file) - 2 /\ i \in Nat /\ file[i + 1] = "n"
        /\ file[i + 2] = "n" \/ (i + 3 <= Len(file) /\ file[i + 2] = "r" /\ file[i + 3] = "n")
    BY <2>1 DEF BlankLines
  <2>4. off + bufOff <= i
    BY <1>1, <1>3 DEF FoundInv, ScanInv, NonePassed
  <2>5. s \in {Len(buf), Len(buf) - 1} /\ (bufOff < Len(buf) /\ buf[Len(buf)] = "n" => s = Len(buf) - 1)
    BY <2>2 DEF HeadersStop
  <2> HIDE DEF s
  <2>6. CASE off + Len(buf) <= i
    BY <2>1, <2>2, <2>3, <2>5, <2>6
  <2>7. CASE i = off + Len(buf) - 1
    <3>1. bufOff < Len(buf) /\ i - off \in Nat /\ i - off < Len(buf)
          /\ (i - off) + 1 = Len(buf) /\ off + (i - off) + 1 = i + 1
      BY <2>1, <2>2, <2>3, <2>4, <2>7
    <3>2. buf[(i - off) + 1] = file[off + (i - off) + 1]
      BY <2>2, <3>1
    <3>3. buf[Len(buf)] = "n"
      BY <2>3, <3>1, <3>2
    <3> QED BY <2>1, <2>2, <2>5, <2>7, <3>1, <3>3
  <2>8. CASE i < off + Len(buf) - 1
    <3>1. /\ i - off \in Int /\ bufOff <= i - off /\ (i - off) + 2 <= Len(buf)
          /\ off + (i - off) = i /\ off + (i - off) + 2 = i + 2
      BY <2>1, <2>2, <2>3, <2>4, <2>8
    <3>2. i - off \notin BlankLines(buf, bufOff)
      BY <1>1 DEF HasHeaders
    <3>3. ~(file[i + 2] = "n") /\ ~((i - off) + 3 <= Len(buf))
      <4>1. off + (i - off) \in BlankLines(file, off)
        BY <1>3, <3>1
      <4> QED BY <1>1, <3>1, <3>2, <4>1, BlankInBuffer
    <3>4. i + 2 = fileOff /\ i + 3 <= Size /\ file[i + 2] = "r" /\ file[i + 3] = "n"
      BY <2>1, <2>2, <2>3, <2>8, <3>3
    <3>5. fileOff \in BlockEnds(cur) /\ cur \in Kept /\ 1 < fileOff /\ fileOff < Size
      <4>1. fileOff # Size /\ fileOff # starts[cur] /\ 1 < fileOff /\ fileOff < Size
            /\ starts[cur] < End(cur)
        BY <2>1, <2>3, <3>4
      <4> QED BY <1>2, <2>1, <4>1 DEF FoundInv, ScanInv, ScanState, Kept
    <3>6. ~(file[fileOff - 1] = "n" /\ file[fileOff] = "r" /\ file[fileOff + 1] = "n")
      BY <1>3, <3>5 DEF Sound, NoCutBlankLine
    <3>7. fileOff - 1 = i + 1 /\ fileOff + 1 = i + 3
      BY <2>3, <3>4
    <3> QED BY <2>3, <3>4, <3>6, <3>7
  <2> QED BY <2>1, <2>2, <2>3, <2>6, <2>7, <2>8
<1>4. ASSUME Sound PROVE NonePassed'
  <2>1. BlankLines(file, off)' = BlankLines(file, off)
    BY <1>1 DEF BlankLines
  <2> QED BY <1>1, <1>3, <1>4, <2>1 DEF NonePassed
<1> QED BY <1>1, <1>2, <1>4, SameMessage

(* A read is empty only at the end of the file.                             *)
LEMMA EmptyRead ==
  ASSUME file \in Seq(Symbols), NEW o \in Nat, o <= Size, Read(o) = << >>
  PROVE  o = Size
<1>1. Size \in Nat /\ ReadSize \in Nat \ {0} /\ Size = Len(file)
  BY SizesAssumption DEF Size
<1>2. PICK e \in Nat : e = Min({o + ReadSize, Size}) /\ e \in {o + ReadSize, Size}
  BY <1>1, MinOfTwo
<1>3. o \in 0 .. Len(file) /\ e \in o .. Len(file)
  <2>1. e <= Size
    BY <1>1, <1>2, MinOfTwo
  <2> QED BY <1>1, <1>2, <2>1
<1>4. Read(o) = SubSeq(file, o + 1, e)
  BY <1>2 DEF Read
<1>5. e - o = 0
  <2>1. Len(SubSeq(file, o + 1, e)) = e - o
    BY <1>3, PartType
  <2>2. Len(SubSeq(file, o + 1, e)) = 0
    BY <1>4
  <2> QED BY <2>1, <2>2
<1> QED BY <1>1, <1>2, <1>3, <1>5

(* A search of the headers does not come to the end of a file whose         *)
(* messages all have theirs.                                                *)
LEMMA HeadersEofFound == FoundInv /\ HeadersEof => ScanInv'
<1> SUFFICES ASSUME FoundInv, HeadersEof PROVE ScanInv'
  OBVIOUS
<1>1. /\ pc = "headers" /\ pc' = "open" /\ cur' = cur + 1 /\ ~HasHeaders(buf, bufOff)
      /\ Read(fileOff) = << >>
      /\ file' = file /\ starts' = starts /\ msgs' = msgs
  BY DEF HeadersEof, GiveUp
<1>2. /\ Scanning /\ file \in Seq(Symbols) /\ Size = Len(file) /\ Size \in Nat /\ off \in Nat
      /\ fileOff \in Nat /\ off <= fileOff /\ fileOff <= Size /\ cur \in Ids /\ pc # "seek"
  BY <1>1, InPart DEF Scanning
<1>3. Begins'
  <2>1. FromLines' = FromLines /\ \A i : End(i)' = End(i)
    BY <1>1, SplitStays
  <2> QED BY <1>1, <2>1 DEF FoundInv, ScanInv, Begins, FromOf
<1>4. ASSUME Sound PROVE FALSE
  <2>1. fileOff = Size
    BY <1>1, <1>2, EmptyRead
  <2>2. /\ Len(buf) \in Nat /\ Len(buf) = fileOff - off /\ bufOff \in 0 .. Len(buf)
    BY <1>1, InBuffer
  <2>3. FromAt(off) \in FromLines /\ FromAt(off) \in Nat /\ off <= FromAt(off)
    BY <1>2, Current
  <2>4. PICK i \in BlankLines(file, FromAt(off)) : TRUE
    BY <2>3 DEF FoundInv, Mailbox, FromLines, HasHeaders
  <2>5. i \in Nat /\ i + 2 <= Size /\ i \in BlankLines(file, off)
    <3>1. i \in FromAt(off) .. Len(file) - 2
      BY Zenon DEF BlankLines
    <3>2. i \in off .. Len(file) - 2
      BY <1>2, <2>3, <3>1
    <3>3. i \in BlankLines(file, off)
      BY <3>2, Zenon DEF BlankLines
    <3> QED BY <1>2, <3>2, <3>3
  <2>6. off + bufOff <= i
    BY <1>1, <1>4, <2>5 DEF FoundInv, ScanInv, NonePassed
  <2>7. /\ i - off \in Int /\ bufOff <= i - off /\ (i - off) + 2 <= Len(buf)
        /\ off + (i - off) = i /\ off + (i - off) + 2 = i + 2
        /\ i + 3 <= Len(file) => (i - off) + 3 <= Len(buf)
    BY <1>2, <2>1, <2>2, <2>5, <2>6
  <2>8. file[i + 2] = "n" \/ i + 3 <= Len(file)
    BY <2>5 DEF BlankLines
  <2>9. i - off \in BlankLines(buf, bufOff)
    <3>1. off + (i - off) \in BlankLines(file, off)
          /\ (file[off + (i - off) + 2] = "n" \/ (i - off) + 3 <= Len(buf))
      BY <2>5, <2>7, <2>8
    <3> QED BY <1>1, <2>7, <3>1, BlankInBuffer
  <2> QED BY <1>1, <2>9 DEF HasHeaders
<1>5. Sound =>
        /\ {FromOf(msgs'[k]) : k \in DOMAIN msgs'} = {p \in FromLines : p < End(cur)}
        /\ \A k, l \in DOMAIN msgs' : FromOf(msgs'[k]) = FromOf(msgs'[l]) => k = l
  BY <1>4
<1> QED BY <1>1, <1>2, <1>3, <1>5, ContextOver

-----------------------------------------------------------------------------
(* The message that a search of a From line hands on begins where the scan  *)
(* of it did, in the part of its context.                                   *)
LEMMA EmitBegins ==
  ASSUME FoundInv, pc = "from", NEW o \in 1 .. Len(buf), NEW eof, Emit(o, eof)
  PROVE  /\ file' = file /\ starts' = starts
         /\ DOMAIN msgs' = DOMAIN msgs \union {Len(msgs) + 1}
         /\ Len(msgs) + 1 \notin DOMAIN msgs
         /\ \A k \in DOMAIN msgs : msgs'[k] = msgs[k]
         /\ FromOf(msgs'[Len(msgs) + 1]) = FromAt(off)
         /\ Begins'
<1> DEFINE m == [ctx |-> cur, start |-> off, end |-> off + o, text |-> SubSeq(buf, 1, o)]
           n == Len(msgs) + 1
<1>1. msgs' = Append(msgs, m) /\ file' = file /\ starts' = starts
  BY DEF Emit
<1>2. /\ file \in Seq(Symbols) /\ off \in Nat /\ cur \in Ids /\ off < End(cur)
      /\ FromAt(off) \in FromLines /\ Scanning
  BY InBuffer, InPart, Current
<1>3. /\ buf \in Seq(Symbols) /\ Len(buf) \in Nat
      /\ \A j \in Nat : j < Len(buf) => buf[j + 1] = file[off + j + 1]
  BY InBuffer
<1>4. msgs \in Seq([ctx : Ids, start : 0 .. Size, end : 0 .. Size, text : Seq(Symbols)])
  BY DEF FoundInv, IInv, TypeOK
<1>5. m.ctx = cur /\ m.start = off /\ m.text[1] = file[off + 1]
  <2>1. SubSeq(buf, 0 + 1, o)[1] = buf[0 + 1]
    <3>1. 0 \in 0 .. Len(buf) /\ o \in 0 .. Len(buf) /\ 1 \in 1 .. o - 0
      BY <1>3
    <3>2. \A i \in 1 .. o - 0 : SubSeq(buf, 0 + 1, o)[i] = buf[0 + i]
      BY <1>3, <3>1, PartType
    <3> QED BY <3>1, <3>2
  <2>2. 0 \in Nat /\ 0 < Len(buf) /\ off + 0 + 1 = off + 1 /\ 0 + 1 = 1
    BY <1>2, <1>3
  <2>3. buf[0 + 1] = file[off + 0 + 1]
    BY <1>3, <2>2
  <2> QED BY <2>1, <2>2, <2>3
<1> HIDE DEF m
<1>6. /\ DOMAIN msgs' = DOMAIN msgs \union {n} /\ msgs'[n] = m /\ n \notin DOMAIN msgs
      /\ \A k \in DOMAIN msgs : msgs'[k] = msgs[k]
  <2>1. /\ DOMAIN Append(msgs, m) = DOMAIN msgs \union {n}
        /\ Append(msgs, m)[n] = m /\ n \notin DOMAIN msgs
        /\ \A k \in DOMAIN msgs : Append(msgs, m)[k] = msgs[k]
    BY <1>4, AppendAt
  <2> QED BY <1>1, <2>1
<1>7. FromOf(m) = FromAt(off)
  BY <1>5, Zenon DEF FromOf, FromAt
<1>8. Begins'
  <2>1. FromLines' = FromLines /\ \A i : End(i)' = End(i)
    BY <1>1, SplitStays
  <2>2. ASSUME NEW k \in DOMAIN msgs'
        PROVE  FromOf(msgs'[k]) \in FromLines /\ msgs'[k].start < End(msgs'[k].ctx)
    <3>1. CASE k = n
      BY <1>2, <1>5, <1>6, <1>7, <3>1
    <3>2. CASE k # n
      BY <1>6, <2>2, <3>2 DEF FoundInv, ScanInv, Begins
    <3> QED BY <3>1, <3>2
  <2> QED BY <2>1, <2>2 DEF Begins, FromOf
<1> QED BY <1>1, <1>6, <1>7, <1>8

(* When no other message begins before x, the messages handed on are now    *)
(* those that begin before x, each once.                                    *)
LEMMA EmitFinds ==
  ASSUME FoundInv, Sound, pc = "from", NEW o \in 1 .. Len(buf), NEW eof, Emit(o, eof),
         NEW x \in Nat, FromAt(off) < x,
         \A q \in FromLines : FromAt(off) < q => x <= q
  PROVE  /\ {FromOf(msgs'[k]) : k \in DOMAIN msgs'} = {p \in FromLines : p < x}
         /\ \A k, l \in DOMAIN msgs' : FromOf(msgs'[k]) = FromOf(msgs'[l]) => k = l
<1> DEFINE n == Len(msgs) + 1
           A == {FromOf(msgs[k]) : k \in DOMAIN msgs}
           p0 == FromAt(off)
<1>1. /\ DOMAIN msgs' = DOMAIN msgs \union {n} /\ n \notin DOMAIN msgs
      /\ \A k \in DOMAIN msgs : msgs'[k] = msgs[k]
      /\ FromOf(msgs'[n]) = p0
  BY EmitBegins
<1>2. /\ Scanning /\ FromLines \subseteq Nat /\ off \in Nat
      /\ p0 \in FromLines /\ p0 \in Nat /\ off <= p0
      /\ \A q \in FromLines : off <= q => p0 <= q
  BY InBuffer, InPart, Current, FromLinesType
<1>3. /\ A = {p \in FromLines : p < off}
      /\ \A k, l \in DOMAIN msgs : FromOf(msgs[k]) = FromOf(msgs[l]) => k = l
  BY <1>2 DEF FoundInv, ScanInv, FoundSoFar, Reached
<1> HIDE DEF p0, n
<1>4. {FromOf(msgs'[k]) : k \in DOMAIN msgs'} = A \union {p0}
  BY <1>1
<1>5. A \union {p0} = {p \in FromLines : p < x}
  <2>1. ASSUME NEW p \in FromLines, p < x PROVE p < off \/ p = p0
    <3>1. p \in Nat /\ ~(x <= p)
      BY <1>2, <2>1
    <3>2. ~(p0 < p)
      BY <2>1, <3>1 DEF p0
    <3>3. off <= p => p0 <= p
      BY <1>2
    <3> QED BY <1>2, <3>1, <3>2, <3>3
  <2>2. ASSUME NEW p \in FromLines, p < off PROVE p < x
    BY <1>2, <2>2 DEF p0
  <2>3. p0 < x
    BY DEF p0
  <2> HIDE DEF A
  <2> QED BY <1>2, <1>3, <2>1, <2>2, <2>3
<1>6. \A k \in DOMAIN msgs : FromOf(msgs[k]) # p0
  <2> SUFFICES ASSUME NEW k \in DOMAIN msgs, FromOf(msgs[k]) = p0 PROVE FALSE
    OBVIOUS
  <2>1. p0 \in {p \in FromLines : p < off}
    BY <1>3
  <2> QED BY <1>2, <2>1
<1>7. ASSUME NEW k \in DOMAIN msgs', NEW l \in DOMAIN msgs', FromOf(msgs'[k]) = FromOf(msgs'[l])
      PROVE  k = l
  BY <1>1, <1>3, <1>6, <1>7
<1> QED BY <1>4, <1>5, <1>7

(* The From line that the search finds is the next one of the file; when it *)
(* is beyond the part of the context, it is where the next context starts.  *)
LEMMA FromFoundFound == FoundInv /\ FromFound => ScanInv'
<1> SUFFICES ASSUME FoundInv, FromFound PROVE ScanInv'
  OBVIOUS
<1>1. PICK s : s = FromStop(buf, bufOff)
  OBVIOUS
<1>2. pc = "from" /\ IsFromLine(buf, s) /\ Emit(s + 1, FALSE)
  BY <1>1 DEF FromFound
<1>3. /\ Scanning /\ file \in Seq(Symbols) /\ Size \in Nat /\ off \in Nat /\ pc # "seek"
      /\ cur \in Ids /\ End(cur) \in Nat /\ End(cur) <= Size /\ off < End(cur)
      /\ starts[cur] \in Nat /\ starts[cur] <= off
  BY <1>2, InBuffer, InPart
<1>4. /\ buf \in Seq(Symbols) /\ bufOff \in 0 .. Len(buf) /\ Len(buf) \in Nat
  BY <1>2, InBuffer
<1>5. s \in bufOff .. Len(buf) /\ s \in Nat
  BY <1>1, <1>4, FromStopIsFirst
<1>6. PICK x \in Nat : x = off + s + 1
  BY <1>3, <1>5
<1>7. /\ x \in FromLines /\ s < Len(buf)
  BY <1>2, <1>5, <1>6, StopsAt
<1>8. s + 1 \in 1 .. Len(buf) /\ off + (s + 1) = x /\ off < x
  BY <1>3, <1>4, <1>5, <1>6, <1>7
<1>9. /\ off' = x /\ file' = file /\ starts' = starts /\ fileOff' = fileOff
      /\ IF x >= End(cur) THEN pc' = "open" /\ cur' = cur + 1 ELSE pc' = "next" /\ cur' = cur
  BY <1>2, <1>8 DEF Emit
<1>10. Begins'
  BY <1>2, <1>8, EmitBegins
<1>11. /\ FromAt(off) \in Nat /\ FromAt(off) < x /\ x < Size /\ file[x + 1] = "F"
       /\ file[off + 1] = "n" => FromAt(off) = off + 1
       /\ file[off + 1] # "n" => FromAt(off) = off
       /\ FromAt(off) \in FromLines
  <2>1. FromAt(off) <= x
    BY <1>3, <1>7, <1>8, Current
  <2>2. FromAt(off) \in FromLines /\ FromAt(off) \in Nat /\ file[FromAt(off) + 1] = "F"
    BY <1>3, Current, FromLineAt
  <2>3. x < Size /\ file[x + 1] = "F" /\ file[x] = "n"
    BY <1>3, <1>6, <1>7, <1>8, FromLineAt
  <2>4. /\ file[off + 1] = "n" => FromAt(off) = off + 1
        /\ file[off + 1] # "n" => FromAt(off) = off
    BY <1>3, Current
  <2>5. FromAt(off) # x
    <3>1. ASSUME s = 0 PROVE FALSE
      BY <1>2, <1>4, <1>5, <3>1 DEF FoundInv, ScanInv, ScanState
    <3> QED BY <1>3, <1>5, <1>6, <2>4, <3>1
  <2> QED BY <2>1, <2>2, <2>3, <2>4, <2>5
<1>12. ASSUME Sound, NEW q \in FromLines, FromAt(off) < q PROVE x <= q
  <2>1. q \in Nat /\ off + s < q
    BY <1>1, <1>2, <1>12, StopsBefore
  <2> QED BY <1>3, <1>5, <1>6, <2>1
<1>13. CASE x >= End(cur)
  <2>1. pc' = "open" /\ cur' = cur + 1
    BY <1>9, <1>13
  <2>2. ASSUME Sound
        PROVE  /\ {FromOf(msgs'[k]) : k \in DOMAIN msgs'} = {p \in FromLines : p < End(cur)}
               /\ \A k, l \in DOMAIN msgs' : FromOf(msgs'[k]) = FromOf(msgs'[l]) => k = l
    <3>1. FromAt(off) < End(cur)
      <4>1. cur # Last /\ End(cur) = starts[cur + 1] /\ cur + 1 \in Ids
        BY <1>3, <1>11, <1>13, InPart
      <4>2. Sought(cur + 1)
        BY <1>3, <4>1, AllSought
      <4>3. file[End(cur) + 1] = "n"
        BY <1>3, <4>1, <4>2 DEF Sought
      <4>4. file[FromAt(off) + 1] = "F"
        BY <1>3, <1>11, FromLineAt
      <4>5. FromAt(off) # End(cur)
        BY <4>3, <4>4
      <4> QED BY <1>3, <1>11, <4>5
    <3>2. \A q \in FromLines : FromAt(off) < q => End(cur) <= q
      <4> SUFFICES ASSUME NEW q \in FromLines, FromAt(off) < q PROVE End(cur) <= q
        OBVIOUS
      <4>1. x <= q /\ q \in Nat
        BY <1>3, <1>12, <2>2, FromLinesType
      <4> QED BY <1>3, <1>13, <4>1
    <3> QED BY <1>2, <1>3, <1>8, <2>2, <3>1, <3>2, EmitFinds
  <2> QED BY <1>3, <1>9, <1>10, <2>1, <2>2, ContextOver
<1>14. CASE x < End(cur)
  <2>1. pc' = "next" /\ cur' = cur
    BY <1>3, <1>9, <1>14
  <2>2. /\ FromLines' = FromLines /\ (Sound' <=> Sound) /\ Size' = Size
        /\ \A i : End(i)' = End(i) /\ BlockEnds(i)' = BlockEnds(i)
        /\ \A i : Sought(i)' <=> Sought(i)
    BY <1>9, SplitStays
  <2>3. SeekState'
    BY <1>3, <2>1, <2>2 DEF FoundInv, ScanInv, SeekState
  <2>4. ScanState'
    <3>1. End(cur)' = End(cur) /\ BlockEnds(cur)' = BlockEnds(cur)
      BY <1>9, <2>1 DEF End, BlockEnds, Size
    <3>2. FromAt(off)' = x
      <4>1. file'[x + 1] # "n"
        BY <1>9, <1>11
      <4> QED BY <1>9, <4>1 DEF FromAt
    <3>3. starts'[cur'] <= off' /\ off' < End(cur)' /\ FromAt(off)' \in FromLines'
      BY <1>3, <1>7, <1>8, <1>9, <1>14, <2>1, <2>2, <3>1, <3>2
    <3>4. fileOff' \in BlockEnds(cur)' \union {starts'[cur'], Size'}
      BY <1>3, <1>9, <2>1, <2>2, <3>1 DEF FoundInv, ScanInv, ScanState
    <3> QED BY <2>1, <3>3, <3>4, Zenon DEF ScanState
  <2>5. ASSUME Sound' PROVE NonePassed' /\ FoundSoFar'
    <3>1. NonePassed'
      BY <2>1 DEF NonePassed
    <3>2. Reached' = x
      BY <1>9, <2>1 DEF Reached, Scanning
    <3>3. /\ {FromOf(msgs'[k]) : k \in DOMAIN msgs'} = {p \in FromLines : p < x}
          /\ \A k, l \in DOMAIN msgs' : FromOf(msgs'[k]) = FromOf(msgs'[l]) => k = l
      <4>1. Sound /\ \A q \in FromLines : FromAt(off) < q => x <= q
        BY <1>12, <2>2, <2>5
      <4> QED BY <1>2, <1>8, <1>11, <4>1, EmitFinds
    <3>4. FoundSoFar'
      BY <2>2, <3>2, <3>3 DEF FoundSoFar, FromOf
    <3> QED BY <3>1, <3>4
  <2> QED BY <1>10, <2>3, <2>4, <2>5 DEF ScanInv
<1> QED BY <1>3, <1>13, <1>14

(* A search that stops with its reads beyond the part of its context has    *)
(* passed the From line where the next context starts; it never does.       *)
LEMMA FromPastEndFound == FoundInv /\ FromPastEnd => ScanInv'
<1> SUFFICES ASSUME FoundInv, FromPastEnd PROVE ScanInv'
  OBVIOUS
<1>1. PICK s : s = FromStop(buf, bufOff)
  OBVIOUS
<1>2. /\ pc = "from" /\ ~IsFromLine(buf, s) /\ fileOff > End(cur)
      /\ pc' = "open" /\ cur' = cur + 1 /\ file' = file /\ starts' = starts /\ msgs' = msgs
  BY <1>1 DEF FromPastEnd, GiveUp
<1>3. /\ Scanning /\ file \in Seq(Symbols) /\ Size \in Nat /\ Size = Len(file) /\ off \in Nat
      /\ pc # "seek" /\ fileOff \in Nat /\ fileOff <= Size
      /\ cur \in Ids /\ End(cur) \in Nat /\ End(cur) <= Size /\ off < End(cur)
      /\ starts[cur] \in Nat /\ starts[cur] <= off
      /\ cur # Last => cur + 1 \in Ids /\ End(cur) = starts[cur + 1]
      /\ cur = Last => End(cur) = Size
  BY <1>2, InBuffer, InPart
<1>4. Begins'
  <2>1. FromLines' = FromLines /\ \A i : End(i)' = End(i)
    BY <1>2, SplitStays
  <2> QED BY <1>2, <2>1 DEF FoundInv, ScanInv, Begins, FromOf
<1>5. ASSUME Sound PROVE FALSE
  <2>1. cur # Last /\ cur + 1 \in Ids /\ End(cur) = starts[cur + 1]
    BY <1>2, <1>3
  <2>2. PICK e \in Nat : e = End(cur)
    BY <1>3
  <2>3. e # 0 /\ off < e /\ e < fileOff
    BY <1>2, <1>3, <2>2
  <2>4. file[e + 1] = "n" /\ e + 1 \in FromLines
    <3>1. Sought(cur + 1)
      BY <1>3, <2>1, AllSought
    <3> QED BY <2>1, <2>2, <2>3, <3>1 DEF Sought
  <2>5. file[(e + 1) + 1] = "F" /\ e + 1 \in Nat
    BY <1>3, <2>2, <2>4, FromLineAt
  <2>6. FromAt(off) < e + 1
    <3>1. FromAt(off) \in {off, off + 1}
      BY <1>3, Current
    <3> QED BY <1>3, <2>2, <2>3, <3>1
  <2>7. off + s < e + 1 /\ off + bufOff < e + 1
    <3>1. off + s < e + 1
      BY <1>1, <1>2, <1>5, <2>4, <2>6, StopsBefore
    <3>2. off + bufOff < e + 1
      BY <1>2, <1>3, <1>5, <2>4, <2>6 DEF FoundInv, ScanInv, NonePassed
    <3> QED BY <3>1, <3>2
  <2>8. e + Margin < fileOff
    <3>1. CASE fileOff = Size
      <4>1. (e + 1) + Margin <= Len(file)
        BY <2>4 DEF FoundInv, Mailbox, FromLines
      <4> QED BY <1>3, <2>2, <3>1, <4>1, SizesAssumption
    <3>2. CASE fileOff # Size
      <4>1. fileOff \in BlockEnds(cur)
        BY <1>3, <2>3, <3>2 DEF FoundInv, ScanInv, ScanState
      <4>2. cur \in Kept \ {Last}
        BY <1>3, <2>1 DEF Kept
      <4>3. fileOff <= End(cur) \/ fileOff > End(cur) + Margin
        BY <1>5, <4>1, <4>2 DEF Sound, NoCutAtEnd
      <4> QED BY <1>3, <2>2, <2>3, <4>3, SizesAssumption
    <3> QED BY <3>1, <3>2
  <2>9. /\ buf \in Seq(Symbols) /\ bufOff \in 0 .. Len(buf) /\ Len(buf) \in Nat
        /\ Len(buf) = fileOff - off
        /\ \A j \in Nat : j < Len(buf) => buf[j + 1] = file[off + j + 1]
    BY <1>2, InBuffer
  <2>10. /\ s \in bufOff .. Len(buf)
         /\ s # Len(buf) => IsFromLine(buf, s) \/ s + Margin >= Len(buf)
         /\ \A j \in bufOff .. Len(buf) - 1 :
              buf[j + 1] = "n" /\ (IsFromLine(buf, j) \/ j + Margin >= Len(buf)) => s <= j
    BY <1>1, <2>9, FromStopIsFirst
  <2>11. PICK j \in Nat : e = off + j
    <3>1. e - off \in Nat /\ e = off + (e - off)
      BY <1>3, <2>2, <2>3
    <3> QED BY <3>1
  <2>12. /\ s <= j /\ bufOff <= j /\ j + Margin < Len(buf) /\ j + 1 < Len(buf)
    BY <1>3, <2>7, <2>8, <2>9, <2>10, <2>11, SizesAssumption
  <2>13. s < Len(buf) /\ s + Margin < Len(buf)
    BY <2>9, <2>10, <2>11, <2>12, SizesAssumption
  <2> QED BY <1>2, <2>9, <2>10, <2>13, SizesAssumption
<1>6. Sound =>
        /\ {FromOf(msgs'[k]) : k \in DOMAIN msgs'} = {p \in FromLines : p < End(cur)}
        /\ \A k, l \in DOMAIN msgs' : FromOf(msgs'[k]) = FromOf(msgs'[l]) => k = l
  BY <1>5
<1> QED BY <1>2, <1>3, <1>4, <1>6, ContextOver

LEMMA FromReadFound == FoundInv /\ FromRead => ScanInv'
<1> SUFFICES ASSUME FoundInv, FromRead PROVE ScanInv'
  OBVIOUS
<1> DEFINE s == FromStop(buf, bufOff)
<1>1. /\ pc = "from" /\ pc' = "from" /\ Read(fileOff) # << >>
      /\ bufOff' = s /\ fileOff' = fileOff + Len(Read(fileOff))
      /\ file' = file /\ starts' = starts /\ cur' = cur /\ off' = off /\ msgs' = msgs
  BY DEF FromRead, ReadMore
<1>2. Scanning /\ fileOff' \in BlockEnds(cur) \union {starts[cur], Size}
  BY <1>1, NextBlock DEF Scanning
<1>3. bufOff' > 0
  <2>1. buf \in Seq(Symbols) /\ bufOff \in 0 .. Len(buf) /\ bufOff > 0
    BY <1>1, InBuffer DEF FoundInv, ScanInv, ScanState
  <2>2. s \in bufOff .. Len(buf)
    BY <2>1, FromStopIsFirst
  <2> HIDE DEF s
  <2> QED BY <1>1, <2>1, <2>2
<1>4. ASSUME Sound PROVE NonePassed'
  <2>1. \A q \in FromLines : FromAt(off) < q => off + s < q
    BY <1>1, <1>4, StopsBefore
  <2>2. FromLines' = FromLines /\ FromAt(off)' = FromAt(off)
    BY <1>1 DEF FromLines, FromAt
  <2> QED BY <1>1, <2>1, <2>2 DEF NonePassed
<1> QED BY <1>1, <1>2, <1>3, <1>4, SameMessage

(* Only the last context comes to the end of the file, and nothing begins   *)
(* after the message it was in.                                             *)
LEMMA FromEofFound == FoundInv /\ FromEof => ScanInv'
<1> SUFFICES ASSUME FoundInv, FromEof PROVE ScanInv'
  OBVIOUS
<1>1. PICK s : s = FromStop(buf, bufOff)
  OBVIOUS
<1>2. /\ pc = "from" /\ ~IsFromLine(buf, s) /\ fileOff <= End(cur) /\ Read(fileOff) = << >>
      /\ Emit(s, TRUE) /\ pc' = "open" /\ cur' = cur + 1 /\ file' = file /\ starts' = starts
  BY <1>1 DEF FromEof, Emit
<1>3. /\ Scanning /\ file \in Seq(Symbols) /\ Size \in Nat /\ Size = Len(file) /\ off \in Nat
      /\ pc # "seek" /\ fileOff \in Nat /\ fileOff <= Size
      /\ cur \in Ids /\ End(cur) \in Nat /\ End(cur) <= Size /\ off < End(cur)
  BY <1>2, InBuffer, InPart
<1>4. /\ buf \in Seq(Symbols) /\ bufOff \in 0 .. Len(buf) /\ Len(buf) \in Nat
      /\ Len(buf) = fileOff - off /\ bufOff > 0
  BY <1>2, InBuffer DEF FoundInv, ScanInv, ScanState
<1>5. /\ s \in bufOff .. Len(buf)
      /\ s # Len(buf) => IsFromLine(buf, s) \/ s + Margin >= Len(buf)
  BY <1>1, <1>4, FromStopIsFirst
<1>6. s \in 1 .. Len(buf)
  BY <1>4, <1>5
<1>7. Begins'
  BY <1>2, <1>6, EmitBegins
<1>8. fileOff = Size /\ End(cur) = Size
  BY <1>2, <1>3, EmptyRead
<1>9. ASSUME Sound, NEW q \in FromLines, FromAt(off) < q PROVE End(cur) <= q
  <2>1. q \in Nat /\ off + s < q
    BY <1>1, <1>2, <1>9, StopsBefore
  <2>2. q + Margin <= Size /\ q < Size
    <3>1. q + Margin <= Len(file)
      BY <1>9 DEF FoundInv, Mailbox, FromLines
    <3> QED BY <1>3, <2>1, <3>1, SizesAssumption
  <2>3. s # Len(buf) /\ ~(s + Margin >= Len(buf))
    BY <1>3, <1>4, <1>5, <1>8, <2>1, <2>2, SizesAssumption
  <2> QED BY <1>2, <1>5, <2>3
<1>10. ASSUME Sound
       PROVE  /\ {FromOf(msgs'[k]) : k \in DOMAIN msgs'} = {p \in FromLines : p < End(cur)}
              /\ \A k, l \in DOMAIN msgs' : FromOf(msgs'[k]) = FromOf(msgs'[l]) => k = l
  <2>1. FromAt(off) < End(cur)
    <3>1. FromAt(off) \in FromLines /\ FromAt(off) \in Nat
      BY <1>3, Current
    <3> QED BY <1>3, <1>8, <3>1, FromLineAt
  <2> QED BY <1>2, <1>3, <1>6, <1>9, <1>10, <2>1, EmitFinds
<1> QED BY <1>2, <1>3, <1>7, <1>10, ContextOver

-----------------------------------------------------------------------------
LEMMA StepFound == FoundInv /\ [Next]_vars => FoundInv'
<1> SUFFICES ASSUME FoundInv, [Next]_vars PROVE FoundInv'
  OBVIOUS
<1>1. IInv'
  BY StepInv DEF FoundInv
<1>2. file' = file
  BY DEF Next, vars, SeekOn, SeekFound, Skip, Open, NextMessage, HeadersFound, HeadersRead,
     HeadersEof, FromFound, FromPastEnd, FromRead, FromEof, ReadMore, GiveUp, Emit
<1>3. Mailbox(file)'
  BY <1>2 DEF FoundInv
<1>4. CASE UNCHANGED vars
  <2>1. /\ FromLines' = FromLines /\ (Sound' <=> Sound) /\ Size' = Size
        /\ \A i : End(i)' = End(i) /\ BlockEnds(i)' = BlockEnds(i)
        /\ \A i : Sought(i)' <=> Sought(i)
        /\ \A o : FromAt(o)' = FromAt(o)
    BY <1>4, SplitStays DEF vars
  <2>2. /\ End(cur)' = End(cur) /\ BlockEnds(cur)' = BlockEnds(cur) /\ FromAt(off)' = FromAt(off)
        /\ Placed(cur)' = Placed(cur) /\ Reached' = Reached /\ (Scanning' <=> Scanning)
        /\ BlankLines(file, off)' = BlankLines(file, off)
    BY <1>4 DEF vars, End, BlockEnds, FromAt, Placed, Reached, Scanning, BlankLines, Size
  <2>3. SeekState' /\ Begins'
    BY <1>4, <2>1, <2>2 DEF vars, FoundInv, ScanInv, SeekState, Begins, FromOf
  <2>4. ScanState'
    BY <1>4, <2>1, <2>2, Zenon DEF vars, FoundInv, ScanInv, ScanState
  <2>5. Sound' /\ pc' # "seek" => NonePassed' /\ FoundSoFar'
    BY <1>4, <2>1, <2>2 DEF vars, FoundInv, ScanInv, NonePassed, FoundSoFar, FromOf
  <2> QED BY <1>1, <1>3, <2>3, <2>4, <2>5 DEF FoundInv, ScanInv
<1>5. ASSUME Next PROVE ScanInv' \/ UNCHANGED vars
  BY <1>5, SeekOnFound, SeekFoundFound, SkipFound, OpenFound, NextMessageFound,
     HeadersFoundFound, HeadersReadFound, HeadersEofFound, FromFoundFound,
     FromPastEndFound, FromReadFound, FromEofFound
  DEF Next
<1> QED BY <1>1, <1>3, <1>4, <1>5 DEF FoundInv

LEMMA FoundAtEnd == (Mailbox(file) => FoundInv) => MessagesFound
<1> SUFFICES ASSUME FoundInv PROVE Begins /\ AllFound
  BY DEF MessagesFound
<1>1. Begins
  BY DEF FoundInv, ScanInv
<1>2. ASSUME Done, Ordered, NoCutAtEnd, NoCutBlankLine
      PROVE  /\ {FromOf(msgs[k]) : k \in DOMAIN msgs} = FromLines
             /\ Len(msgs) = Cardinality(FromLines)
  <2>1. file \in Seq(Symbols) /\ Size \in Nat
    BY FileIsSeq DEF FoundInv, IInv
  <2>2. FoundSoFar /\ Reached = Size
    BY <1>2 DEF Done, FoundInv, ScanInv, Sound, Reached, Scanning
  <2>3. {FromOf(msgs[k]) : k \in DOMAIN msgs} = FromLines
    <3>1. {p \in FromLines : p < Size} = FromLines
      BY <2>1, FromLinesType, FromLineAt
    <3> QED BY <2>2, <3>1 DEF FoundSoFar
  <2> DEFINE t == [k \in DOMAIN msgs |-> FromOf(msgs[k])]
  <2>4. t \in Seq(FromLines) /\ Len(t) = Len(msgs)
    <3>1. DOMAIN msgs = 1 .. Len(msgs) /\ Len(msgs) \in Nat
      BY DEF FoundInv, IInv, TypeOK
    <3>2. \A k \in DOMAIN msgs : FromOf(msgs[k]) \in FromLines
      BY <2>3
    <3> QED BY <3>1, <3>2
  <2>5. DOMAIN t = DOMAIN msgs /\ \A k \in DOMAIN msgs : t[k] = FromOf(msgs[k])
    OBVIOUS
  <2>6. \A k, l \in DOMAIN t : t[k] = t[l] => k = l
    BY <2>2, <2>5 DEF FoundSoFar
  <2> HIDE DEF t
  <2>7. {t[k] : k \in DOMAIN t} = FromLines
    BY <2>3, <2>5
  <2>8. Cardinality({t[k] : k \in DOMAIN t}) = Len(t)
    BY <2>4, <2>6, CountElements
  <2> QED BY <2>3, <2>4, <2>7, <2>8
<1> QED BY <1>1, <1>2 DEF AllFound

(* mboxParse finds every message of a mailbox once, whatever the size of a  *)
(* read and the number of contexts, when the seeks are in order and no      *)
(* block ends just after a context's part of the file or in a blank line;   *)
(* and nothing that mboxParserCtxGetNextMessage returns begins elsewhere    *)
(* than at a From line, under no condition on the blocks.                   *)
THEOREM ScanFinds == Spec => []MessagesFound
<1>1. Init => (Mailbox(file) => FoundInv)
  BY InitFound
<1>2. (Mailbox(file) => FoundInv) /\ [Next]_vars => (Mailbox(file) => FoundInv)'
  <2>1. [Next]_vars => file' = file
    BY DEF Next, vars, SeekOn, SeekFound, Skip, Open, NextMessage, HeadersFound, HeadersRead,
       HeadersEof, FromFound, FromPastEnd, FromRead, FromEof, ReadMore, GiveUp, Emit
  <2> QED BY <2>1, StepFound
<1> QED BY <1>1, <1>2, FoundAtEnd, PTL DEF Spec
=============================================================================
