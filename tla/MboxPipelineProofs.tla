------------------------- MODULE MboxPipelineProofs -------------------------
(***************************************************************************)
(* For any number of contexts, parsers and messages: mboxParse and         *)
(* mboxRelease are clients of the kind that the pools need, and mboxParse   *)
(* returns with every message of the file.                                 *)
(***************************************************************************)
EXTENDS MboxPipeline, QueueLemmas

(* Where the contexts are placed: within the messages, the first one at the *)
(* first of them.                                                           *)
LEMMA PlacedInFile ==
  /\ Placed(1) = 1
  /\ \A k \in 1 .. Contexts : Placed(k) \in 1 .. Messages
<1> DEFINE q == Messages \div Contexts
<1>1. Contexts \in Nat \ {0} /\ Messages \in Nat \ {0}
  BY CountsAssumption
<1>2. q \in Nat /\ Contexts * q <= Messages
  BY <1>1, Z3
<1>3. Placed(1) = 1
  <2>1. (1 - 1) * q = 0
    BY <1>2, Z3
  <2> QED BY <2>1 DEF Placed
<1>4. ASSUME NEW k \in 1 .. Contexts
      PROVE  Placed(k) \in 1 .. Messages
  <2>1. k - 1 \in Nat /\ k - 1 < Contexts
    BY <1>1
  <2>2. (k - 1) * q \in Nat
    BY <1>2, <2>1, Z3
  <2>3. (k - 1) * q <= Messages - 1
    <3>1. CASE q = 0
      <4>1. (k - 1) * q = 0
        BY <2>1, <3>1, Z3
      <4> QED BY <1>1, <4>1
    <3>2. CASE q # 0
      <4>1. (k - 1) * q + q <= Contexts * q
        BY <1>1, <1>2, <2>1, Z3
      <4> HIDE DEF q
      <4> QED BY <1>1, <1>2, <2>2, <3>2, <4>1
    <3> QED BY <3>1, <3>2
  <2> HIDE DEF q
  <2>4. 1 + (k - 1) * q \in 1 .. Messages
    BY <1>1, <2>2, <2>3
  <2> QED BY <2>4 DEF Placed, q
<1> QED BY <1>3, <1>4

-----------------------------------------------------------------------------
(* What the filter of mboxSetAllOffsets keeps: contexts of the array it is  *)
(* given that have something to parse, each of these, and no others.        *)
LEMMA KeptContexts ==
  ASSUME NEW S, NEW cs \in Seq(S)
  PROVE  /\ Kept(cs) \in Seq(S)
         /\ Len(Kept(cs)) <= Len(cs)
         /\ \A k \in 1 .. Len(Kept(cs)) :
              \E i \in 1 .. Len(cs) : Kept(cs)[k] = cs[i] /\ ParsesSomething(cs[i])
         /\ \A i \in 1 .. Len(cs) :
              ParsesSomething(cs[i]) => \E k \in 1 .. Len(Kept(cs)) : Kept(cs)[k] = cs[i]
<1> DEFINE T == {i \in 1 .. Len(cs) : ParsesSomething(cs[i])}
           nth(k) == CHOOSE i \in T : Rank(T, i) = k
           n == Cardinality(T)
<1>1. Len(cs) \in Nat
  OBVIOUS
<1>2. IsFiniteSet(T) /\ n \in Nat /\ n <= Len(cs)
  <2>1. IsFiniteSet(1 .. Len(cs)) /\ Cardinality(1 .. Len(cs)) = Len(cs)
    BY <1>1, FS_Interval
  <2>2. IsFiniteSet(T) /\ n <= Len(cs)
    BY <2>1, FS_Subset
  <2> QED BY <2>2, FS_CardinalityType
<1>3. T \in SUBSET Nat
  OBVIOUS
<1>4. Kept(cs) = [k \in 1 .. n |-> cs[nth(k)]]
  BY DEF Kept, Rank
<1>5. ASSUME NEW k \in 1 .. n
      PROVE  nth(k) \in T /\ Rank(T, nth(k)) = k
  <2> HIDE DEF T
  <2>1. \E i \in T : Rank(T, i) = k
    BY <1>2, <1>3, RankReached
  <2> QED BY <2>1
<1>6. ASSUME NEW i \in T
      PROVE  Rank(T, i) \in 1 .. n /\ nth(Rank(T, i)) = i
  <2> HIDE DEF T
  <2>1. Rank(T, i) \in 1 .. n
    BY <1>2, <1>3, RankInRange
  <2>2. nth(Rank(T, i)) \in T /\ Rank(T, nth(Rank(T, i))) = Rank(T, i)
    BY <1>5, <2>1
  <2> DEFINE j == nth(Rank(T, i))
  <2>3. ~(i < j) /\ ~(j < i)
    <3> HIDE DEF nth
    <3>1. Rank(T, j) \in Nat /\ Rank(T, j) = Rank(T, i)
      BY <1>2, <2>1, <2>2
    <3>2. ~(Rank(T, i) < Rank(T, j)) /\ ~(Rank(T, j) < Rank(T, i))
      BY <3>1
    <3> QED BY <1>2, <1>3, <2>2, <3>2, RankRises
  <2>4. i \in Nat /\ j \in Nat
    BY <1>3, <2>2
  <2> HIDE DEF nth
  <2> QED BY <2>1, <2>3, <2>4
<1> HIDE DEF nth
<1>7. Kept(cs) \in Seq(S) /\ Len(Kept(cs)) = n /\ \A k \in 1 .. n : Kept(cs)[k] = cs[nth(k)]
  BY <1>2, <1>4, <1>5
<1>8. \A k \in 1 .. n : \E i \in 1 .. Len(cs) : Kept(cs)[k] = cs[i] /\ ParsesSomething(cs[i])
  BY <1>5, <1>7
<1>9. ASSUME NEW i \in 1 .. Len(cs), ParsesSomething(cs[i])
      PROVE  \E k \in 1 .. n : Kept(cs)[k] = cs[i]
  <2>1. i \in T
    BY <1>9
  <2> QED BY <1>6, <1>7, <2>1
<1> QED BY <1>2, <1>7, <1>8, <1>9

-----------------------------------------------------------------------------
(* Lemmas about queues, in the terms of this module.                        *)
LEMMA Enqueued ==
  ASSUME NEW S, NEW s \in Seq(S), NEW e \in S
  PROVE  /\ Append(s, e) \in Seq(S)
         /\ Elements(Append(s, e)) = Elements(s) \union {e}
         /\ (/\ e \notin Elements(s)
             /\ \A i, j \in DOMAIN s : s[i] = s[j] => i = j)
            => \A i, j \in DOMAIN Append(s, e) : Append(s, e)[i] = Append(s, e)[j] => i = j
BY AppendElements, Zenon DEF Elements

LEMMA Dequeued ==
  ASSUME NEW S, NEW s \in Seq(S), s # << >>
  PROVE  /\ Tail(s) \in Seq(S) /\ Head(s) \in S
         /\ Elements(s) = Elements(Tail(s)) \union {Head(s)}
         /\ (\A i, j \in DOMAIN s : s[i] = s[j] => i = j)
            => /\ \A i, j \in DOMAIN Tail(s) : Tail(s)[i] = Tail(s)[j] => i = j
               /\ Head(s) \notin Elements(Tail(s))
BY TailElements, Zenon DEF Elements

(* What a step of io_pool does to the jobs that it has before it.           *)
LEMMA IoSubmitStep ==
  ASSUME TypeOK, NEW t, IoPool!Submit(t)
  PROVE  /\ t \in IoTasks /\ t \in ioFresh
         /\ ioFresh' = ioFresh \ {t}
         /\ ioPending' \in Seq(IoTasks)
         /\ IoLeft' = IoLeft \union {t}
         /\ UNCHANGED <<ioRunning, ioFinished, ioWaiting>>
<1>1. /\ t \in ioFresh /\ ioFresh' = ioFresh \ {t}
      /\ ioPending' = Append(ioPending, t)
      /\ UNCHANGED <<ioRunning, ioFinished, ioWaiting>>
  BY DEF IoPool!Submit
<1>2. t \in IoTasks /\ ioPending \in Seq(IoTasks)
  BY <1>1 DEF TypeOK
<1>3. ioPending' \in Seq(IoTasks) /\ Elements(ioPending') = Elements(ioPending) \union {t}
  BY <1>1, <1>2, Enqueued
<1> QED BY <1>1, <1>2, <1>3 DEF IoLeft

LEMMA IoBeginStep ==
  ASSUME TypeOK, IoPool!Begin
  PROVE  /\ ioPending' \in Seq(IoTasks)
         /\ ioRunning' \subseteq IoTasks
         /\ IoLeft' = IoLeft
         /\ UNCHANGED <<ioFresh, ioFinished, ioWaiting>>
<1>1. /\ ioPending # << >>
      /\ ioRunning' = ioRunning \union {Head(ioPending)}
      /\ ioPending' = Tail(ioPending)
      /\ UNCHANGED <<ioFresh, ioFinished, ioWaiting>>
  BY DEF IoPool!Begin
<1>2. ioRunning \subseteq IoTasks /\ ioPending \in Seq(IoTasks)
  BY DEF TypeOK
<1>3. /\ ioPending' \in Seq(IoTasks) /\ Head(ioPending) \in IoTasks
      /\ Elements(ioPending) = Elements(ioPending') \union {Head(ioPending)}
  BY <1>1, <1>2, Dequeued
<1>4. IoLeft' = IoLeft
  BY <1>1, <1>3 DEF IoLeft
<1> QED BY <1>1, <1>2, <1>3, <1>4

LEMMA IoCompleteStep ==
  ASSUME TypeOK, NEW t, IoPool!Complete(t)
  PROVE  /\ t \in IoTasks /\ t \in IoLeft
         /\ ioRunning' \subseteq ioRunning
         /\ ioFinished' \subseteq IoTasks
         /\ IoLeft' \subseteq IoLeft /\ IoLeft \ {t} \subseteq IoLeft'
         /\ UNCHANGED <<ioFresh, ioPending, ioWaiting>>
BY DEF IoPool!Complete, IoLeft, Elements, TypeOK

(* A job that io_pool has left is of one of the two phases.                 *)
LEMMA IdleLeft == IoIdle => IoLeft = {}
BY DEF IoIdle, IoLeft, Elements

LEMMA SeekJobs ==
  ASSUME TypeOK, WorkersDone, JobsOfPhase, NEW k, <<"seek", k>> \in IoLeft
  PROVE  Seeking /\ pc # "offsets" /\ k \in 1 .. Contexts
<1>1. ~IoIdle
  BY IdleLeft
<1>2. pc \notin {"parsed", "released", "offsets"}
  BY <1>1 DEF WorkersDone, ClientsKeepOff
<1>3. ~Scanning
  BY DEF JobsOfPhase
<1> QED BY <1>2, <1>3 DEF TypeOK, JobsOfPhase, Seeking, Scanning

LEMMA ScanJobs ==
  ASSUME TypeOK, WorkersDone, JobsOfPhase, NEW k, <<"scan", k>> \in IoLeft
  PROVE  Scanning /\ pc \notin {"drain", "parseWait", "parsed"} /\ k \in 1 .. Len(contexts)
<1>1. ~IoIdle
  BY IdleLeft
<1>2. pc \notin {"parsed", "released", "drain", "parseWait"}
  BY <1>1 DEF WorkersDone, ClientsKeepOff
<1>3. ~Seeking
  BY DEF JobsOfPhase
<1> QED BY <1>2, <1>3 DEF TypeOK, JobsOfPhase, Seeking, Scanning

-----------------------------------------------------------------------------
(* The pools are quiet when the caller relies on it.  When the io workers   *)
(* have nothing left, they do nothing.                                      *)
LEMMA IdleWorkers ==
  IoIdle => /\ ~IoBegin
            /\ \A k \in 1 .. Contexts : ~IoStep(k)
BY Zenon DEF IoIdle, IoBegin, IoPool!Begin, IoStep, Seek, ScanNext, ScanEnd

(* The parse pool gets work from scans only.                                *)
LEMMA IdleParsers ==
  ParseIdle => ~ParseBegin /\ \A t \in ParseTasks : ~Parse(t)
BY Zenon DEF ParseIdle, ParseBegin, ParsePool!Begin, Parse, ParsePool!Complete

LEMMA CallerKeepsOff ==
  ASSUME WorkersDone, CallerStep \/ Release
  PROVE  WorkersDone'
<1>1. CASE EnqueueSeek
  BY <1>1 DEF EnqueueSeek, WorkersDone, ClientsKeepOff
<1>2. CASE SeekWait
  BY <1>2 DEF SeekWait, WorkersDone, ClientsKeepOff
<1>3. CASE SeekWaitReturn
  <2>1. pc' = "offsets" /\ IoIdle'
    BY <1>3 DEF SeekWaitReturn, IoPool!WaitReturn, IoIdle
  <2> QED BY <2>1 DEF WorkersDone, ClientsKeepOff
<1>4. CASE SetOffsets
  BY <1>4 DEF SetOffsets, WorkersDone, ClientsKeepOff
<1>5. CASE EnqueueScan
  BY <1>5 DEF EnqueueScan, WorkersDone, ClientsKeepOff
<1>6. CASE IoWait
  BY <1>6 DEF IoWait, WorkersDone, ClientsKeepOff
<1>7. CASE IoWaitReturn
  <2>1. pc' = "drain" /\ IoIdle'
    BY <1>7 DEF IoWaitReturn, IoPool!WaitReturn, IoIdle
  <2> QED BY <2>1 DEF WorkersDone, ClientsKeepOff
<1>8. CASE ParseWait
  <2>1. pc' = "parseWait" /\ pc = "drain" /\ UNCHANGED io
    BY <1>8 DEF ParseWait
  <2> QED BY <2>1 DEF WorkersDone, ClientsKeepOff, IoIdle, io
<1>9. CASE ParseWaitReturn
  <2>1. pc' = "parsed" /\ pc = "parseWait" /\ UNCHANGED io
    BY <1>9 DEF ParseWaitReturn
  <2>2. ParseIdle'
    BY <1>9 DEF ParseWaitReturn, ParsePool!WaitReturn, ParseIdle
  <2> QED BY <2>1, <2>2 DEF WorkersDone, ClientsKeepOff, IoIdle, io
<1>10. CASE Release
  <2>1. pc' = "released" /\ pc = "parsed" /\ UNCHANGED <<io, parse>>
    BY <1>10 DEF Release
  <2> QED BY <2>1 DEF WorkersDone, ClientsKeepOff, IoIdle, ParseIdle, io, parse
<1> QED
  BY <1>1, <1>2, <1>3, <1>4, <1>5, <1>6, <1>7, <1>8, <1>9, <1>10 DEF CallerStep

(* A worker does not move the caller; one that has work is not there when   *)
(* the caller relies on it.                                                 *)
LEMMA WorkersKeepOff ==
  ASSUME WorkersDone,
         \/ IoBegin \/ \E k \in 1 .. Contexts : IoStep(k)
         \/ ParseBegin \/ \E t \in ParseTasks : Parse(t)
  PROVE  WorkersDone'
<1>1. pc' = pc
  BY DEF IoBegin, IoStep, Seek, ScanNext, ScanEnd, ParseBegin, Parse, caller
<1>2. CASE IoIdle
  <2>1. ParseBegin \/ \E t \in ParseTasks : Parse(t)
    BY <1>2, IdleWorkers, Zenon
  <2>2. UNCHANGED io
    BY <2>1 DEF ParseBegin, Parse
  <2>3. ~ParseIdle
    BY <2>1, IdleParsers, Zenon
  <2> QED BY <1>1, <1>2, <2>2, <2>3 DEF WorkersDone, ClientsKeepOff, IoIdle, io
<1>3. CASE ~IoIdle
  BY <1>1, <1>3 DEF WorkersDone, ClientsKeepOff
<1> QED BY <1>2, <1>3

-----------------------------------------------------------------------------
(* Each message stays in one place, whatever the io workers and the caller  *)
(* do.                                                                      *)
LEMMA PlacesKept ==
  ASSUME TypeOK, MessagePlaces, Next
  PROVE  MessagePlaces'
<1> DEFINE queue == <<fresh, pending, running, finished>>
<1>1. ASSUME NEW k \in 1 .. Contexts, ScanNext(k)
      PROVE  MessagePlaces'
  <2> DEFINE t == <<k, contexts[k].offset>>
  <2>1. /\ t \in fresh /\ fresh' = fresh \ {t} /\ pending' = Append(pending, t)
        /\ UNCHANGED <<pc, running, finished, completed>>
    BY <1>1 DEF ScanNext, ParsePool!Submit, caller
  <2> HIDE DEF t
  <2>2. t \in ParseTasks /\ pending \in Seq(ParseTasks) /\ t \notin Elements(pending)
    BY <2>1 DEF TypeOK, MessagePlaces
  <2>3. /\ Elements(pending') = Elements(pending) \union {t}
        /\ \A i, j \in DOMAIN pending' : pending'[i] = pending'[j] => i = j
    BY <2>1, <2>2, Enqueued DEF MessagePlaces
  <2>4. completed' = completed => Elements(completed') = Elements(completed)
    OBVIOUS
  <2> QED BY <2>1, <2>2, <2>3, <2>4 DEF MessagePlaces
<1>2. CASE ParseBegin
  <2> DEFINE t == Head(pending)
  <2>1. /\ pending # << >> /\ running' = running \union {t} /\ pending' = Tail(pending)
        /\ UNCHANGED <<pc, fresh, finished, completed>>
    BY <1>2 DEF ParseBegin, ParsePool!Begin, caller
  <2>2. pending \in Seq(ParseTasks)
    BY DEF TypeOK
  <2>3. /\ Elements(pending) = Elements(pending') \union {t}
        /\ \A i, j \in DOMAIN pending' : pending'[i] = pending'[j] => i = j
        /\ t \notin Elements(pending')
    <3>1. \A i, j \in DOMAIN pending : pending[i] = pending[j] => i = j
      BY DEF MessagePlaces
    <3>2. /\ Elements(pending) = Elements(Tail(pending)) \union {t}
          /\ \A i, j \in DOMAIN Tail(pending) : Tail(pending)[i] = Tail(pending)[j] => i = j
          /\ t \notin Elements(Tail(pending))
      BY <2>1, <2>2, <3>1, Dequeued, Zenon
    <3> QED BY <2>1, <3>2, Zenon
  <2> HIDE DEF t
  <2>4. Elements(completed') = Elements(completed)
    BY <2>1
  <2> QED BY <2>1, <2>3, <2>4 DEF MessagePlaces
<1>3. ASSUME NEW t \in ParseTasks, Parse(t)
      PROVE  MessagePlaces'
  <2>1. /\ t \in running /\ running' = running \ {t} /\ finished' = finished \union {t}
        /\ completed' = Append(completed, t)
        /\ UNCHANGED <<pc, fresh, pending>>
    BY <1>3 DEF Parse, ParsePool!Complete, caller
  <2>2. completed \in Seq(ParseTasks) /\ t \notin finished /\ Elements(pending') = Elements(pending)
    BY <2>1 DEF TypeOK, MessagePlaces
  <2>3. pc # "released" =>
          /\ Elements(completed') = Elements(completed) \union {t}
          /\ \A i, j \in DOMAIN completed' : completed'[i] = completed'[j] => i = j
    BY <2>1, <2>2, Enqueued DEF MessagePlaces
  <2> QED BY <2>1, <2>2, <2>3 DEF MessagePlaces
<1>4. ASSUME UNCHANGED queue, \/ pc' = "released"
                              \/ pc # "released" /\ UNCHANGED completed
      PROVE  MessagePlaces'
  BY <1>4 DEF MessagePlaces, Elements
<1>5. CASE CallerStep
  <2>1. UNCHANGED queue /\ pc # "released" /\ UNCHANGED completed
    BY <1>5 DEF CallerStep, EnqueueSeek, SeekWait, SeekWaitReturn, SetOffsets, EnqueueScan,
                IoWait, IoWaitReturn, ParseWait, ParseWaitReturn, ParsePool!WaitCall,
                ParsePool!WaitReturn, parse
  <2> QED BY <1>4, <2>1
<1>6. CASE Release
  BY <1>4, <1>6 DEF Release, parse
<1>7. ASSUME IoBegin \/ \E k \in 1 .. Contexts : Seek(k) \/ ScanEnd(k)
      PROVE  MessagePlaces'
  <2>1. UNCHANGED queue /\ UNCHANGED <<pc, completed>>
    BY <1>7 DEF IoBegin, Seek, ScanEnd, parse, caller
  <2> QED BY <1>4, <2>1
<1>8. CASE UNCHANGED vars
  BY <1>8 DEF vars, parse, caller, MessagePlaces, Elements
<1> QED
  BY <1>1, <1>2, <1>3, <1>5, <1>6, <1>7, <1>8 DEF Next, IoStep, SeekOn

-----------------------------------------------------------------------------
LEMMA Counts == Contexts \in Nat \ {0} /\ Messages \in Nat \ {0} /\ EndOfFile = Messages + 1
BY CountsAssumption DEF EndOfFile

LEMMA InitInv == Init => IInv
<1> SUFFICES ASSUME Init PROVE IInv
  OBVIOUS
<1>1. /\ pc = "seek" /\ next = 1 /\ completed = << >>
      /\ ioFresh = IoTasks /\ ioPending = << >> /\ ioRunning = {} /\ ioFinished = {}
      /\ ioWaiting = FALSE
      /\ fresh = ParseTasks /\ pending = << >> /\ running = {} /\ finished = {}
      /\ waiting = FALSE
  BY DEF Init, IoPool!Init, ParsePool!Init
<1>2. contexts \in Seq(Context) /\ Len(contexts) = Contexts
  <2> PICK lost \in SUBSET (2 .. Contexts) :
        contexts = [k \in 1 .. Contexts |->
                      [start |-> Placed(k), end |-> Unset,
                       offset |-> Placed(k), done |-> FALSE, lost |-> k \in lost]]
    BY DEF Init
  <2>1. ASSUME NEW k \in 1 .. Contexts
        PROVE  [start |-> Placed(k), end |-> Unset, offset |-> Placed(k),
                done |-> FALSE, lost |-> k \in lost] \in Context
    BY PlacedInFile, Counts DEF Context, Positions, Unset
  <2>2. contexts \in [1 .. Contexts -> Context] /\ Contexts \in Nat
    BY <2>1, Counts DEF Init
  <2> QED BY <2>2
<1>3. TypeOK
  <2>1. /\ next \in 1 .. Contexts + 1 /\ Len(contexts) <= Contexts
        /\ completed \in Seq(ParseTasks) /\ pending \in Seq(ParseTasks)
        /\ ioPending \in Seq(IoTasks)
    BY <1>1, <1>2, Counts
  <2>2. {ioWaiting, waiting} \subseteq BOOLEAN
    BY <1>1, Zenon
  <2> QED BY <1>1, <1>2, <2>1, <2>2, Zenon DEF TypeOK
<1>4. IoLeft = {} /\ Elements(pending) = {} /\ Elements(completed) = {}
  BY <1>1 DEF IoLeft, Elements
<1>5. SeekState
  <2>1. \A k \in 1 .. Contexts : /\ contexts[k].start = Placed(k)
                                /\ contexts[k].offset = Placed(k)
                                /\ contexts[k].done = FALSE
    BY DEF Init
  <2> QED BY <1>1, <1>2, <2>1, PlacedInFile, Counts DEF SeekState
<1>6. WorkersDone /\ JobsOfPhase /\ ScanState /\ ScansLeft /\ Covered
  BY <1>1, <1>4 DEF WorkersDone, ClientsKeepOff, JobsOfPhase, ScanState, ScansLeft, Covered, Scanning
<1>7. MessagePlaces
  BY <1>1, <1>4 DEF MessagePlaces
<1> QED BY <1>3, <1>5, <1>6, <1>7 DEF IInv

(* What is said of the array of contexts stays true while it is left alone  *)
(* and the caller stays in its phase.                                       *)
Array == JobsOfPhase /\ SeekState /\ ScanState /\ ScansLeft /\ Covered

LEMMA SeekPhase ==
  ASSUME IInv, Seeking, Seeking', UNCHANGED <<contexts, fresh>>,
         IoLeft' \subseteq {"seek"} \X (1 .. Contexts)
  PROVE  Array'
<1>1. ~Scanning'
  BY DEF Seeking, Scanning
<1> QED BY <1>1 DEF IInv, Array, JobsOfPhase, SeekState, ScanState, ScansLeft, Covered

LEMMA ScanPhase ==
  ASSUME IInv, Scanning, Scanning', UNCHANGED <<contexts, fresh>>,
         IoLeft' \subseteq {"scan"} \X (1 .. Len(contexts)),
         ScansLeft'
  PROVE  Array'
<1>1. ~Seeking'
  BY DEF Seeking, Scanning
<1>2. ScanState'
  BY DEF IInv, ScanState, HandedOn
<1> QED BY <1>1, <1>2 DEF IInv, Array, JobsOfPhase, SeekState, Covered

LEMMA EnqueueSeekInv == IInv /\ EnqueueSeek => TypeOK' /\ Array'
<1> SUFFICES ASSUME IInv, EnqueueSeek PROVE TypeOK' /\ Array'
  OBVIOUS
<1>1. /\ pc = "seek" /\ next <= Contexts /\ next' = next + 1
      /\ UNCHANGED <<pc, contexts, completed, parse>>
      /\ IoPool!Submit(<<"seek", next>>)
  BY DEF EnqueueSeek
<1>2. TypeOK
  BY DEF IInv
<1>3. /\ ioFresh' = ioFresh \ {<<"seek", next>>}
      /\ ioPending' \in Seq(IoTasks)
      /\ IoLeft' = IoLeft \union {<<"seek", next>>}
      /\ UNCHANGED <<ioRunning, ioFinished, ioWaiting>>
  BY <1>1, <1>2, IoSubmitStep
<1>4. next \in 1 .. Contexts /\ next' \in 1 .. Contexts + 1
  BY <1>1, <1>2, Counts DEF TypeOK
<1>5. TypeOK'
  BY <1>1, <1>2, <1>3, <1>4 DEF TypeOK, parse
<1>6. IoLeft' \subseteq {"seek"} \X (1 .. Contexts)
  BY <1>1, <1>3, <1>4 DEF IInv, JobsOfPhase, Seeking
<1>7. Array'
  BY <1>1, <1>6, SeekPhase DEF Seeking, parse
<1> QED BY <1>5, <1>7

(* A wait of the caller for a pool, and the return from it.                 *)
LEMMA WaitInv ==
  ASSUME IInv,
         \/ SeekWait \/ SeekWaitReturn \/ IoWait \/ IoWaitReturn
         \/ ParseWait \/ ParseWaitReturn
  PROVE  TypeOK' /\ Array'
<1>1. /\ UNCHANGED <<next, contexts, completed>>
      /\ UNCHANGED <<ioFresh, ioPending, ioRunning, ioFinished>>
      /\ UNCHANGED <<fresh, pending, running, finished>>
      /\ ioWaiting' \in {TRUE, FALSE, ioWaiting} /\ waiting' \in {TRUE, FALSE, waiting}
  BY DEF SeekWait, SeekWaitReturn, IoWait, IoWaitReturn, ParseWait, ParseWaitReturn,
         IoPool!WaitCall, IoPool!WaitReturn, ParsePool!WaitCall, ParsePool!WaitReturn, io, parse
<1>2. \/ Seeking /\ pc' \in {"seekWait", "offsets"}
      \/ /\ Scanning /\ pc' \in {"ioWait", "drain", "parseWait", "parsed"}
         /\ pc = "scan" => next > Len(contexts)
  BY DEF SeekWait, SeekWaitReturn, IoWait, IoWaitReturn, ParseWait, ParseWaitReturn,
         Seeking, Scanning
<1>3. TypeOK'
  BY <1>1, <1>2 DEF IInv, TypeOK
<1>4. IoLeft' = IoLeft
  BY <1>1 DEF IoLeft, Elements
<1>5. CASE Seeking /\ pc' \in {"seekWait", "offsets"}
  <2>1. IoLeft' \subseteq {"seek"} \X (1 .. Contexts) /\ Seeking'
    BY <1>4, <1>5 DEF IInv, JobsOfPhase, Seeking
  <2> QED BY <1>1, <1>3, <1>5, <2>1, SeekPhase
<1>6. CASE /\ Scanning /\ pc' \in {"ioWait", "drain", "parseWait", "parsed"}
           /\ pc = "scan" => next > Len(contexts)
  <2>1. IoLeft' \subseteq {"scan"} \X (1 .. Len(contexts)) /\ Scanning'
    BY <1>4, <1>6 DEF IInv, JobsOfPhase, Scanning
  <2>2. \A k \in 1 .. Len(contexts) : pc = "scan" => k < next
    BY <1>6 DEF IInv, TypeOK
  <2>3. ScansLeft'
    BY <1>1, <1>4, <1>6, <2>2 DEF IInv, ScansLeft
  <2> QED BY <1>1, <1>3, <1>6, <2>1, <2>3, ScanPhase
<1> QED BY <1>2, <1>5, <1>6
LEMMA EnqueueScanInv == IInv /\ EnqueueScan => TypeOK' /\ Array'
<1> SUFFICES ASSUME IInv, EnqueueScan PROVE TypeOK' /\ Array'
  OBVIOUS
<1>1. /\ pc = "scan" /\ next <= Len(contexts) /\ next' = next + 1
      /\ UNCHANGED <<pc, contexts, completed, parse>>
      /\ IoPool!Submit(<<"scan", next>>)
  BY DEF EnqueueScan
<1>2. TypeOK
  BY DEF IInv
<1>3. /\ ioFresh' = ioFresh \ {<<"scan", next>>}
      /\ ioPending' \in Seq(IoTasks)
      /\ IoLeft' = IoLeft \union {<<"scan", next>>}
      /\ UNCHANGED <<ioRunning, ioFinished, ioWaiting>>
  BY <1>1, <1>2, IoSubmitStep
<1>4. next \in 1 .. Len(contexts) /\ next' \in 1 .. Contexts + 1 /\ Len(contexts) \in Nat
  BY <1>1, <1>2, Counts DEF TypeOK
<1>5. TypeOK'
  BY <1>1, <1>2, <1>3, <1>4 DEF TypeOK, parse
<1>6. IoLeft' \subseteq {"scan"} \X (1 .. Len(contexts))
  BY <1>1, <1>3, <1>4 DEF IInv, JobsOfPhase, Scanning
<1>7. ScansLeft'
  <2>1. ASSUME NEW k \in 1 .. Len(contexts), k < next'
        PROVE  contexts[k].done \/ <<"scan", k>> \in IoLeft'
    <3>1. k < next \/ k = next
      BY <1>1, <1>4, <2>1
    <3> QED BY <1>1, <1>3, <3>1 DEF IInv, ScansLeft, Scanning
  <2> QED BY <1>1, <2>1 DEF ScansLeft
<1>8. Array'
  BY <1>1, <1>6, <1>7, ScanPhase DEF Scanning, parse
<1> QED BY <1>5, <1>8

(* The contexts with their ends, before the filter.                         *)
LEMMA EndsSet ==
  ASSUME IInv, pc = "offsets"
  PROVE  LET cs == WithEnds(contexts)
         IN  /\ cs \in Seq(Context) /\ Len(cs) = Contexts
             /\ \A k \in 1 .. Contexts : cs[k].offset = cs[k].start /\ ~cs[k].done
             /\ \A m \in 1 .. Messages : \E k \in 1 .. Contexts :
                  cs[k].start <= m /\ m < cs[k].end
<1> DEFINE cs == WithEnds(contexts)
<1>1. /\ contexts \in Seq(Context) /\ Len(contexts) = Contexts
      /\ contexts[1].start = 1 /\ contexts[1].offset = 1
      /\ \A k \in 1 .. Contexts : ~contexts[k].done
  BY DEF IInv, TypeOK, SeekState, Seeking
<1>2. \A k \in 1 .. Contexts :
        /\ contexts[k] \in Context
        /\ contexts[k].start \in 1 .. Messages /\ contexts[k].offset \in Positions
  <2>1. \A k \in 1 .. Contexts : contexts[k] \in Context
    BY <1>1, Counts
  <2> QED BY <2>1 DEF Context
<1>3. ASSUME NEW k \in 1 .. Contexts
      PROVE  /\ cs[k].start = contexts[k].start
             /\ cs[k].end = IF k = Contexts THEN EndOfFile ELSE contexts[k + 1].start
             /\ cs[k].offset = contexts[k].start
             /\ cs[k].done = contexts[k].done
             /\ cs[k] \in Context
  <2> DEFINE e == IF k = Contexts THEN EndOfFile ELSE contexts[k + 1].start
             o == IF k = 1 /\ k # Contexts THEN contexts[k].offset ELSE contexts[k].start
  <2>1. cs[k] = [contexts[k] EXCEPT !.end = e, !.offset = o]
    BY <1>1 DEF WithEnds
  <2>2. o = contexts[k].start
    BY <1>1
  <2>3. e \in Positions
    <3>1. CASE k = Contexts
      BY <3>1, Counts DEF Positions
    <3>2. CASE k # Contexts
      <4>1. k + 1 \in 1 .. Contexts
        BY <3>2, Counts
      <4>2. contexts[k + 1].start \in 1 .. Messages
        BY <1>2, <4>1
      <4> QED BY <3>2, <4>2, Counts DEF Positions
    <3> QED BY <3>1, <3>2
  <2>4. o \in Positions
    BY <1>2, <2>2, Counts DEF Positions
  <2>5. cs[k].end = e /\ cs[k].offset = o /\ cs[k].start = contexts[k].start
        /\ cs[k].done = contexts[k].done /\ cs[k] \in Context
    <3> HIDE DEF e, o, cs
    <3> QED BY <1>2, <2>1, <2>3, <2>4 DEF Context
  <2> HIDE DEF cs
  <2> QED BY <2>2, <2>5
<1>4. cs \in Seq(Context) /\ Len(cs) = Contexts
  <2>1. cs = [k \in 1 .. Contexts |-> cs[k]]
    BY <1>1 DEF WithEnds
  <2> HIDE DEF cs
  <2> QED BY <1>3, <2>1, Counts
<1> HIDE DEF cs
<1>5. ASSUME NEW m \in 1 .. Messages
      PROVE  \E k \in 1 .. Contexts : cs[k].start <= m /\ m < cs[k].end
  <2> DEFINE T == {k \in 1 .. Contexts : contexts[k].start <= m}
  <2>1. T \in SUBSET Nat /\ T # {} /\ \A k \in T : k <= Contexts
    <3>1. 1 \in T
      BY <1>1, Counts
    <3> QED BY <3>1, Counts
  <2>2. PICK k \in T : \A j \in T : j <= k
    <3> HIDE DEF T
    <3> QED BY <2>1, Counts, GreatestMember
  <2>3. CASE k = Contexts
    BY <1>3, <2>2, <2>3, Counts
  <2>4. CASE k # Contexts
    <3>1. k + 1 \in 1 .. Contexts /\ k + 1 \notin T
      BY <2>2, <2>4, Counts
    <3>2. contexts[k + 1].start > m
      BY <1>2, <3>1
    <3> QED BY <1>3, <2>2, <2>4, <3>2
  <2> QED BY <2>3, <2>4
<1> QED BY <1>1, <1>3, <1>4, <1>5 DEF cs
LEMMA SetOffsetsInv == IInv /\ SetOffsets => TypeOK' /\ Array'
<1> SUFFICES ASSUME IInv, SetOffsets PROVE TypeOK' /\ Array'
  OBVIOUS
<1> DEFINE cs == WithEnds(contexts)
<1>1. /\ pc = "offsets" /\ contexts' = Kept(cs) /\ next' = 1 /\ pc' = "scan"
      /\ UNCHANGED <<completed, io, parse>>
  BY DEF SetOffsets
<1>2. /\ cs \in Seq(Context) /\ Len(cs) = Contexts
      /\ \A k \in 1 .. Contexts : cs[k].offset = cs[k].start /\ ~cs[k].done
      /\ \A m \in 1 .. Messages : \E k \in 1 .. Contexts :
           cs[k].start <= m /\ m < cs[k].end
  BY <1>1, EndsSet
<1> HIDE DEF cs
<1>3. /\ contexts' \in Seq(Context) /\ Len(contexts') <= Contexts
      /\ \A k \in 1 .. Len(contexts') :
           \E i \in 1 .. Contexts : contexts'[k] = cs[i] /\ ParsesSomething(cs[i])
      /\ \A i \in 1 .. Contexts :
           ParsesSomething(cs[i]) => \E k \in 1 .. Len(contexts') : contexts'[k] = cs[i]
  BY <1>1, <1>2, KeptContexts
<1>4. TypeOK'
  BY <1>1, <1>3, Counts DEF IInv, TypeOK, io, parse
<1>5. Scanning' /\ ~Seeking'
  BY <1>1 DEF Scanning, Seeking
<1>6. JobsOfPhase'
  <2>1. IoLeft' = {}
    BY <1>1, IdleLeft DEF IInv, WorkersDone, IoLeft, Elements, io
  <2> QED BY <1>5, <2>1 DEF JobsOfPhase
<1>7. ScanState'
  <2>1. fresh' = ParseTasks
    BY <1>1 DEF IInv, SeekState, Seeking, parse
  <2>2. ASSUME NEW k \in 1 .. Len(contexts')
        PROVE  HandedOn(k)'
    <3>1. contexts'[k] \in Context
      BY <1>3
    <3>2. /\ contexts'[k].start < contexts'[k].end
          /\ contexts'[k].offset = contexts'[k].start
          /\ ~contexts'[k].done
      BY <1>2, <1>3 DEF ParsesSomething
    <3>3. /\ contexts'[k].start \in Nat /\ contexts'[k].end \in Nat
      BY <3>1, Counts DEF Context, Positions, Unset
    <3>4. \A p \in 1 .. Messages : <<k, p>> \in fresh'
      <4>1. k \in 1 .. Contexts
        BY <1>3, Counts
      <4> QED BY <2>1, <4>1 DEF ParseTasks
    <3>5. /\ contexts'[k].start <= contexts'[k].offset
          /\ contexts'[k].offset <= contexts'[k].end
          /\ contexts'[k].offset # contexts'[k].end
          /\ \A p \in 1 .. Messages :
               ~(contexts'[k].start <= p /\ p < contexts'[k].offset)
      BY <3>2, <3>3, Counts
    <3> QED BY <3>2, <3>4, <3>5 DEF HandedOn
  <2> QED BY <2>1, <2>2 DEF ScanState
<1>8. ScansLeft'
  BY <1>1 DEF ScansLeft
<1>9. Covered'
  <2>1. ASSUME NEW m \in 1 .. Messages
        PROVE  \E k \in 1 .. Len(contexts') :
                 contexts'[k].start <= m /\ m < contexts'[k].end
    <3>1. PICK i \in 1 .. Contexts : cs[i].start <= m /\ m < cs[i].end
      BY <1>2
    <3>2. cs[i] \in Context
      BY <1>2
    <3>3. cs[i].start \in Nat /\ cs[i].end \in Nat
      BY <3>2, Counts DEF Context, Positions, Unset
    <3>4. ParsesSomething(cs[i])
      BY <3>1, <3>3, Counts DEF ParsesSomething
    <3> QED BY <1>3, <3>1, <3>4
  <2> QED BY <2>1 DEF Covered
<1>10. SeekState'
  BY <1>5 DEF SeekState
<1> QED BY <1>4, <1>6, <1>7, <1>8, <1>9, <1>10 DEF Array

LEMMA ReleaseInv == IInv /\ Release => TypeOK' /\ Array'
<1> SUFFICES ASSUME IInv, Release PROVE TypeOK' /\ Array'
  OBVIOUS
<1>1. /\ pc' = "released" /\ completed' = << >> /\ contexts' = << >>
      /\ UNCHANGED <<next, io, parse>>
  BY DEF Release
<1>2. TypeOK'
  BY <1>1, Counts DEF IInv, TypeOK, io, parse
<1>3. ~Seeking' /\ ~Scanning'
  BY <1>1 DEF Seeking, Scanning
<1> QED
  BY <1>2, <1>3 DEF Array, JobsOfPhase, SeekState, ScanState, ScansLeft, Covered

(* A worker leaves the caller in its phase.                                 *)
LEMMA SamePhase == pc' = pc => Seeking' = Seeking /\ Scanning' = Scanning
BY DEF Seeking, Scanning

LEMMA IoBeginInv == IInv /\ IoBegin => TypeOK' /\ Array'
<1> SUFFICES ASSUME IInv, IoBegin PROVE TypeOK' /\ Array'
  OBVIOUS
<1>1. UNCHANGED <<pc, next, contexts, completed, parse>> /\ IoPool!Begin
  BY DEF IoBegin, caller
<1>2. /\ ioPending' \in Seq(IoTasks) /\ ioRunning' \subseteq IoTasks
      /\ IoLeft' = IoLeft
      /\ UNCHANGED <<ioFresh, ioFinished, ioWaiting>>
  BY <1>1, IoBeginStep DEF IInv
<1>3. TypeOK'
  BY <1>1, <1>2 DEF IInv, TypeOK, parse
<1>4. Array'
  BY <1>1, <1>2, SamePhase
     DEF IInv, Array, JobsOfPhase, SeekState, ScanState, HandedOn, ScansLeft, Covered, parse
<1> QED BY <1>3, <1>4

LEMMA ScanEndInv == ASSUME IInv, NEW k \in 1 .. Contexts, ScanEnd(k) PROVE TypeOK' /\ Array'
<1> DEFINE t == <<"scan", k>>
<1>1. /\ UNCHANGED <<pc, next, contexts, completed, parse>> /\ IoPool!Complete(t)
      /\ contexts[k].done \/ contexts[k].offset > Messages
  BY DEF ScanEnd, caller
<1>2. /\ t \in IoLeft /\ ioRunning' \subseteq ioRunning /\ ioFinished' \subseteq IoTasks
      /\ IoLeft' \subseteq IoLeft /\ IoLeft \ {t} \subseteq IoLeft'
      /\ UNCHANGED <<ioFresh, ioPending, ioWaiting>>
  BY <1>1, IoCompleteStep DEF IInv
<1>3. TypeOK'
  BY <1>1, <1>2 DEF IInv, TypeOK, parse
<1>4. Scanning /\ k \in 1 .. Len(contexts)
  BY <1>2, ScanJobs DEF IInv
<1>5. contexts[k].done
  <2>1. /\ contexts[k].offset <= contexts[k].end
        /\ contexts[k].done <=> contexts[k].offset = contexts[k].end
    BY <1>4 DEF IInv, ScanState, HandedOn
  <2>2. contexts[k] \in Context
    BY <1>4 DEF IInv, TypeOK
  <2>3. contexts[k].offset \in 1 .. Messages + 1 /\ contexts[k].end \in 0 .. Messages + 1
    BY <2>2, Counts DEF Context, Positions, Unset
  <2>4. contexts[k].offset > Messages => contexts[k].offset = contexts[k].end
    BY <2>1, <2>3, Counts
  <2> QED BY <1>1, <2>1, <2>4
<1>6. ScansLeft'
  <2>1. ASSUME NEW i \in 1 .. Len(contexts), pc = "scan" => i < next
        PROVE  contexts[i].done \/ <<"scan", i>> \in IoLeft'
    <3>1. contexts[i].done \/ <<"scan", i>> \in IoLeft
      BY <1>4, <2>1 DEF IInv, ScansLeft
    <3>2. CASE i = k
      BY <1>5, <3>2
    <3>3. CASE i # k
      BY <1>2, <3>1, <3>3
    <3> QED BY <3>2, <3>3
  <2> QED BY <1>1, <1>4, <2>1 DEF ScansLeft
<1>7. Array'
  <2>1. IoLeft' \subseteq {"scan"} \X (1 .. Len(contexts))
    BY <1>2, <1>4 DEF IInv, JobsOfPhase
  <2> QED BY <1>1, <1>4, <1>6, <2>1, SamePhase, ScanPhase DEF parse
<1> QED BY <1>3, <1>7
LEMMA SeekInv == ASSUME IInv, NEW k \in 1 .. Contexts, Seek(k) PROVE TypeOK' /\ Array'
<1> DEFINE t == <<"seek", k>>
<1>1. /\ UNCHANGED <<pc, next, completed, parse>> /\ IoPool!Complete(t)
  BY DEF Seek, caller
<1>2. PICK p \in 1 .. Messages : /\ k = 1 => p = 1
                                 /\ contexts' = [contexts EXCEPT ![k].start = p]
  BY DEF Seek
<1>3. /\ t \in IoLeft /\ ioRunning' \subseteq ioRunning /\ ioFinished' \subseteq IoTasks
      /\ IoLeft' \subseteq IoLeft
      /\ UNCHANGED <<ioFresh, ioPending, ioWaiting>>
  BY <1>1, IoCompleteStep DEF IInv
<1>4. Seeking /\ k \in 1 .. Contexts
  BY <1>3, SeekJobs DEF IInv
<1>5. /\ contexts \in Seq(Context) /\ Len(contexts) = Contexts
      /\ contexts[1].start = 1 /\ contexts[1].offset = 1
      /\ \A i \in 1 .. Contexts : ~contexts[i].done
      /\ fresh = ParseTasks
  BY <1>4 DEF IInv, TypeOK, SeekState
<1>6. /\ contexts' \in Seq(Context) /\ Len(contexts') = Contexts
      /\ \A i \in 1 .. Contexts : /\ contexts'[i].offset = contexts[i].offset
                                  /\ contexts'[i].done = contexts[i].done
                                  /\ i # k => contexts'[i] = contexts[i]
      /\ contexts'[k].start = p
  <2>1. contexts[k] \in Context
    BY <1>4, <1>5
  <2>2. [contexts[k] EXCEPT !.start = p] \in Context
    BY <2>1 DEF Context
  <2>3. contexts' = [contexts EXCEPT ![k] = [contexts[k] EXCEPT !.start = p]]
    BY <1>2
  <2>4. contexts' \in Seq(Context) /\ Len(contexts') = Contexts
    BY <1>4, <1>5, <2>2, <2>3
  <2>5. /\ contexts'[k] = [contexts[k] EXCEPT !.start = p]
        /\ \A i \in 1 .. Contexts : i # k => contexts'[i] = contexts[i]
    BY <1>4, <1>5, <2>3
  <2>6. /\ contexts'[k].start = p
        /\ contexts'[k].offset = contexts[k].offset
        /\ contexts'[k].done = contexts[k].done
    BY <2>1, <2>5 DEF Context
  <2> QED BY <2>4, <2>5, <2>6
<1>7. TypeOK'
  BY <1>1, <1>3, <1>6, Counts DEF IInv, TypeOK, parse
<1>8. SeekState'
  <2>1. contexts'[1].start = 1
    <3>1. CASE k = 1
      BY <1>2, <1>6, <3>1
    <3>2. CASE k # 1
      BY <1>5, <1>6, <3>2, Counts
    <3> QED BY <3>1, <3>2
  <2>2. contexts'[1].offset = 1
    BY <1>5, <1>6, Counts
  <2>3. \A i \in 1 .. Contexts : ~contexts'[i].done
    BY <1>5, <1>6
  <2>4. fresh' = ParseTasks
    BY <1>1, <1>5 DEF parse
  <2> QED BY <1>6, <2>1, <2>2, <2>3, <2>4 DEF SeekState
<1>9. Seeking' /\ ~Scanning'
  BY <1>1, <1>4 DEF Seeking, Scanning
<1>10. IoLeft' \subseteq {"seek"} \X (1 .. Contexts)
  BY <1>3, <1>4 DEF IInv, JobsOfPhase
<1> QED
  BY <1>7, <1>8, <1>9, <1>10 DEF Array, JobsOfPhase, ScanState, ScansLeft, Covered

LEMMA ScanNextInv == ASSUME IInv, NEW k \in 1 .. Contexts, ScanNext(k) PROVE TypeOK' /\ Array'
<1> DEFINE c == contexts[k]
           t == <<k, c.offset>>
           d == [c EXCEPT !.offset = c.offset + 1, !.done = c.offset + 1 >= c.end]
<1>1. /\ <<"scan", k>> \in ioRunning
      /\ ~c.done /\ c.offset <= Messages
      /\ t \in fresh /\ fresh' = fresh \ {t} /\ pending' = Append(pending, t)
      /\ UNCHANGED <<running, finished, waiting>>
      /\ UNCHANGED <<pc, next, completed, io>>
  BY DEF ScanNext, ParsePool!Submit, caller
<1>2. Scanning /\ k \in 1 .. Len(contexts)
  BY <1>1, ScanJobs DEF IInv, IoLeft
<1>3. contexts \in Seq(Context) /\ c \in Context
  BY <1>2 DEF IInv, TypeOK
<1>4. c.start \in 1 .. Messages /\ c.offset \in 1 .. Messages + 1 /\ c.end \in 0 .. Messages + 1
  BY <1>3, Counts DEF Context, Positions, Unset
<1>5. /\ c.start < c.end /\ c.start <= c.offset /\ c.offset < c.end
      /\ \A p \in 1 .. Messages : <<k, p>> \notin fresh <=> c.start <= p /\ p < c.offset
  <2>1. /\ c.start < c.end /\ c.start <= c.offset /\ c.offset <= c.end
        /\ c.done <=> c.offset = c.end
        /\ \A p \in 1 .. Messages : <<k, p>> \notin fresh <=> c.start <= p /\ p < c.offset
    BY <1>2 DEF IInv, ScanState, HandedOn
  <2>2. c.offset # c.end
    BY <1>1, <2>1, Zenon
  <2> HIDE DEF c
  <2> QED BY <1>4, <2>1, <2>2, Counts
<1>6. contexts' = [contexts EXCEPT ![k] = d]
  BY DEF ScanNext
<1>7. d \in Context /\ d.start = c.start /\ d.end = c.end /\ d.offset = c.offset + 1
  <2>1. c.offset + 1 \in Positions
    BY <1>1, <1>4, Counts DEF Positions
  <2>2. (c.offset + 1 >= c.end) \in BOOLEAN
    OBVIOUS
  <2> HIDE DEF c
  <2> QED BY <1>3, <2>1, <2>2 DEF Context
<1>8. d.done <=> d.offset = d.end
  <2>1. d.done = (c.offset + 1 >= c.end)
    BY <1>3 DEF Context
  <2>2. (c.offset + 1 >= c.end) <=> c.offset + 1 = c.end
    <3> HIDE DEF c
    <3> QED BY <1>4, <1>5
  <2> HIDE DEF d
  <2> QED BY <1>7, <2>1, <2>2, Zenon
<1> HIDE DEF d
<1>9. /\ contexts' \in Seq(Context) /\ Len(contexts') = Len(contexts)
      /\ contexts'[k] = d
      /\ \A i \in 1 .. Len(contexts) : i # k => contexts'[i] = contexts[i]
  BY <1>2, <1>3, <1>6, <1>7
<1>10. t \in ParseTasks /\ TypeOK'
  <2>1. t \in ParseTasks /\ pending \in Seq(ParseTasks)
    BY <1>1 DEF IInv, TypeOK
  <2>2. pending' \in Seq(ParseTasks)
    BY <1>1, <2>1, Enqueued
  <2> HIDE DEF t, c
  <2> QED BY <1>1, <1>9, <2>1, <2>2 DEF IInv, TypeOK, io
<1>11. HandedOn(k)'
  <2>1. \A p \in 1 .. Messages : <<k, p>> \notin fresh' <=> d.start <= p /\ p < d.offset
    <3>1. ASSUME NEW p \in 1 .. Messages
          PROVE  <<k, p>> \notin fresh' <=> d.start <= p /\ p < d.offset
      <4>1. <<k, p>> \notin fresh' <=> <<k, p>> \notin fresh \/ p = c.offset
        <5> HIDE DEF c
        <5> QED BY <1>1
      <4> HIDE DEF c, t
      <4> QED BY <1>4, <1>5, <1>7, <4>1
    <3> QED BY <3>1
  <2>2. d.start < d.end /\ d.start <= d.offset /\ d.offset <= d.end
    <3> HIDE DEF c
    <3> QED BY <1>4, <1>5, <1>7
  <2> QED BY <1>8, <1>9, <2>1, <2>2 DEF HandedOn
<1>12. ASSUME NEW i \in 1 .. Len(contexts), i # k
       PROVE  HandedOn(i)'
  <2>1. \A p \in 1 .. Messages : <<i, p>> \notin fresh' <=> <<i, p>> \notin fresh
    BY <1>1, <1>12
  <2>2. HandedOn(i)
    BY <1>2 DEF IInv, ScanState
  <2>3. contexts'[i] = contexts[i]
    BY <1>9, <1>12
  <2> QED BY <2>1, <2>2, <2>3 DEF HandedOn
<1>13. ScanState'
  <2>1. ASSUME NEW u \in ParseTasks, u[1] > Len(contexts)
        PROVE  u \in fresh'
    <3>1. u \in fresh
      BY <1>2, <2>1 DEF IInv, ScanState
    <3>2. u # t
      BY <1>2, <2>1
    <3> QED BY <1>1, <3>1, <3>2
  <2> QED BY <1>9, <1>11, <1>12, <2>1 DEF ScanState
<1>14. IoLeft' = IoLeft
  BY <1>1 DEF IoLeft, Elements, io
<1>15. ScansLeft'
  <2>1. ASSUME NEW i \in 1 .. Len(contexts), pc = "scan" => i < next
        PROVE  contexts'[i].done \/ <<"scan", i>> \in IoLeft'
    <3>1. CASE i = k
      BY <1>1, <1>14, <3>1 DEF IoLeft
    <3>2. CASE i # k
      BY <1>2, <1>9, <1>14, <2>1, <3>2 DEF IInv, ScansLeft
    <3> QED BY <3>1, <3>2
  <2> QED BY <1>1, <1>9, <2>1 DEF ScansLeft
<1>16. Covered'
  <2>1. \A i \in 1 .. Len(contexts) : /\ contexts'[i].start = contexts[i].start
                                      /\ contexts'[i].end = contexts[i].end
    BY <1>7, <1>9
  <2> QED BY <1>2, <1>9, <2>1 DEF IInv, Covered
<1>17. Scanning' /\ ~Seeking'
  BY <1>1, <1>2 DEF Seeking, Scanning
<1>18. JobsOfPhase' /\ SeekState'
  BY <1>2, <1>9, <1>14, <1>17 DEF IInv, JobsOfPhase, SeekState
<1> QED BY <1>10, <1>13, <1>15, <1>16, <1>18 DEF Array

(* The parsers see nothing of the array.                                    *)
LEMMA ParsersInv ==
  ASSUME IInv, ParseBegin \/ \E t \in ParseTasks : Parse(t)
  PROVE  TypeOK' /\ Array'
<1>1. UNCHANGED <<pc, next, contexts, fresh, waiting, io>>
  BY DEF ParseBegin, ParsePool!Begin, Parse, ParsePool!Complete, caller
<1>2. /\ pending' \in Seq(ParseTasks) /\ completed' \in Seq(ParseTasks)
      /\ running' \union finished' \subseteq ParseTasks
  <2>1. CASE ParseBegin
    <3>1. /\ pending # << >> /\ running' = running \union {Head(pending)}
          /\ pending' = Tail(pending) /\ UNCHANGED <<finished, completed>>
      BY <2>1 DEF ParseBegin, ParsePool!Begin
    <3>2. pending \in Seq(ParseTasks)
      BY DEF IInv, TypeOK
    <3>3. pending' \in Seq(ParseTasks) /\ Head(pending) \in ParseTasks
      BY <3>1, <3>2, Dequeued
    <3> QED BY <3>1, <3>3 DEF IInv, TypeOK
  <2>2. ASSUME NEW t \in ParseTasks, Parse(t)
        PROVE  /\ pending' \in Seq(ParseTasks) /\ completed' \in Seq(ParseTasks)
               /\ running' \union finished' \subseteq ParseTasks
    BY <2>2 DEF Parse, ParsePool!Complete, IInv, TypeOK
  <2> QED BY <2>1, <2>2
<1>3. TypeOK'
  BY <1>1, <1>2 DEF IInv, TypeOK, io
<1>4. IoLeft' = IoLeft
  BY <1>1 DEF IoLeft, Elements, io
<1>5. Array'
  BY <1>1, <1>4, SamePhase
     DEF IInv, Array, JobsOfPhase, SeekState, ScanState, HandedOn, ScansLeft, Covered
<1> QED BY <1>3, <1>5
LEMMA StepInv == IInv /\ [Next]_vars => IInv'
<1>1. ASSUME IInv, UNCHANGED vars PROVE IInv'
  BY <1>1 DEF vars, caller, io, parse, IInv, TypeOK, WorkersDone, ClientsKeepOff, IoIdle,
              ParseIdle, JobsOfPhase, SeekState, ScanState, HandedOn, ScansLeft, Covered,
              MessagePlaces, Seeking, Scanning, IoLeft, Elements
<1>2. ASSUME IInv, Next, ~UNCHANGED vars PROVE IInv'
  <2>1. TypeOK' /\ Array'
    <3>1. CASE CallerStep \/ Release
      BY <1>2, <3>1, EnqueueSeekInv, WaitInv, SetOffsetsInv, EnqueueScanInv, ReleaseInv
         DEF CallerStep
    <3>2. CASE IoBegin \/ \E k \in 1 .. Contexts : IoStep(k)
      BY <1>2, <3>2, IoBeginInv, SeekInv, ScanNextInv, ScanEndInv DEF IoStep
    <3>3. CASE ParseBegin \/ \E t \in ParseTasks : Parse(t)
      BY <1>2, <3>3, ParsersInv
    <3> QED BY <1>2, <3>1, <3>2, <3>3 DEF Next, SeekOn
  <2>2. WorkersDone'
    BY <1>2, CallerKeepsOff, WorkersKeepOff DEF Next, SeekOn, IInv
  <2>3. MessagePlaces'
    BY <1>2, PlacesKept DEF IInv
  <2> QED BY <2>1, <2>2, <2>3 DEF IInv, Array
<1> QED BY <1>1, <1>2

LEMMA PipelineInvariant == Spec => []IInv
BY InitInv, StepInv, PTL DEF Spec
-----------------------------------------------------------------------------
(* mboxParse waits for its pools in an order in which no job is left to     *)
(* enqueue another one, and mboxRelease frees pools that have nothing to do: *)
(* what PoolRefinesTaskPool takes for granted of the pool's clients.        *)
THEOREM PipelineKeepsOff == Spec => []ClientsKeepOff
BY PipelineInvariant, PTL DEF IInv, WorkersDone

(* A step that cuts the array or changes an end finds the io pool idle.     *)
LEMMA MovedAlone ==
  ASSUME IInv, [Next]_vars,
         \/ Len(contexts') # Len(contexts)
         \/ \E k \in 1 .. Len(contexts) : contexts'[k].end # contexts[k].end
  PROVE  IoIdle
<1> SUFFICES ASSUME ~IoIdle PROVE FALSE
  OBVIOUS
<1>1. pc \notin {"offsets", "parsed"}
  BY DEF IInv, WorkersDone, ClientsKeepOff
<1>2. ~(UNCHANGED contexts)
  OBVIOUS
<1>3. \E k \in 1 .. Contexts : Seek(k) \/ ScanNext(k)
  BY <1>1, <1>2
     DEF Next, CallerStep, EnqueueSeek, SeekWait, SeekWaitReturn, SetOffsets, EnqueueScan,
         IoWait, IoWaitReturn, ParseWait, ParseWaitReturn, Release, IoBegin, IoStep, ScanEnd,
         SeekOn, ParseBegin, Parse, vars
<1>4. PICK k \in 1 .. Contexts : Seek(k) \/ ScanNext(k)
  BY <1>3
<1>5. k \in 1 .. Len(contexts)
  <2>1. <<"seek", k>> \in IoLeft \/ <<"scan", k>> \in IoLeft
    BY <1>4 DEF Seek, ScanNext, IoLeft
  <2> QED BY <2>1, SeekJobs, ScanJobs DEF IInv, SeekState
<1>6. contexts \in Seq(Context)
  BY DEF IInv, TypeOK
<1>7. /\ Len(contexts') = Len(contexts)
      /\ \A i \in 1 .. Len(contexts) : contexts'[i].end = contexts[i].end
  <2>1. CASE Seek(k)
    <3>1. PICK p : contexts' = [contexts EXCEPT ![k].start = p]
      BY <2>1 DEF Seek
    <3> QED BY <1>5, <1>6, <3>1 DEF Context
  <2>2. CASE ScanNext(k)
    <3>1. PICK o, d : contexts' = [contexts EXCEPT ![k].offset = o, ![k].done = d]
      BY <2>2 DEF ScanNext
    <3> QED BY <1>5, <1>6, <3>1 DEF Context
  <2> QED BY <1>4, <2>1, <2>2
<1> QED BY <1>7

(* mboxSetAllOffsets and mboxRelease are the only ones to cut the array, to *)
(* move its elements or to give them their ends, and no worker of io_pool   *)
(* has a pointer to one of them then.                                       *)
THEOREM ContextsMovedAlone == Spec => ArrayMovedAlone
<1>1. IInv /\ [Next]_vars =>
        [(\/ Len(contexts') # Len(contexts)
          \/ \E k \in 1 .. Len(contexts) : contexts'[k].end # contexts[k].end)
         => IoIdle]_vars
  BY MovedAlone
<1> QED BY PipelineInvariant, <1>1, PTL DEF Spec, ArrayMovedAlone
-----------------------------------------------------------------------------
(* When mboxParse returns, every context has come to its end and every      *)
(* message that was handed on is in the list.                               *)
LEMMA AllHandedOn ==
  ASSUME IInv, pc = "parsed"
  PROVE  /\ \A k \in 1 .. Len(contexts) : \A p \in 1 .. Messages :
              /\ contexts[k].start \in Nat /\ contexts[k].end \in Nat
              /\ contexts[k].start < contexts[k].end
              /\ k \in 1 .. Contexts
              /\ <<k, p>> \in Elements(completed)
                   <=> contexts[k].start <= p /\ p < contexts[k].end
         /\ \A t \in Elements(completed) : t \in ParseTasks /\ t[1] \in 1 .. Len(contexts)
<1>1. Scanning /\ IoLeft = {} /\ pending = << >> /\ running = {}
  BY IdleLeft DEF IInv, WorkersDone, ClientsKeepOff, ParseIdle, Scanning
<1>2. Elements(completed) = finished /\ finished = ParseTasks \ fresh
  <2>1. Elements(pending) = {}
    BY <1>1 DEF Elements
  <2> QED BY <1>1, <2>1 DEF IInv, MessagePlaces
<1>3. contexts \in Seq(Context) /\ Len(contexts) \in Nat /\ Len(contexts) <= Contexts
  BY DEF IInv, TypeOK
<1>4. ASSUME NEW k \in 1 .. Len(contexts)
      PROVE  /\ contexts[k].start \in Nat /\ contexts[k].end \in Nat
             /\ contexts[k].start < contexts[k].end
             /\ k \in 1 .. Contexts
             /\ \A p \in 1 .. Messages :
                  <<k, p>> \in Elements(completed)
                    <=> contexts[k].start <= p /\ p < contexts[k].end
  <2>1. contexts[k].done
    BY <1>1 DEF IInv, ScansLeft
  <2>2. HandedOn(k)
    BY <1>1 DEF IInv, ScanState
  <2>3. contexts[k].offset = contexts[k].end /\ contexts[k].start < contexts[k].end
    BY <2>1, <2>2 DEF HandedOn
  <2>4. contexts[k] \in Context
    BY <1>3
  <2>5. contexts[k].start \in Nat /\ contexts[k].end \in Nat
    BY <2>4, Counts DEF Context, Positions, Unset
  <2>6. k \in 1 .. Contexts
    BY <1>3, Counts
  <2>7. ASSUME NEW p \in 1 .. Messages
        PROVE  <<k, p>> \in Elements(completed) <=> contexts[k].start <= p /\ p < contexts[k].end
    <3>1. <<k, p>> \in ParseTasks
      BY <2>6 DEF ParseTasks
    <3> QED BY <1>2, <2>2, <2>3, <3>1 DEF HandedOn
  <2> QED BY <2>3, <2>5, <2>6, <2>7
<1>5. ASSUME NEW t \in Elements(completed)
      PROVE  t \in ParseTasks /\ t[1] \in 1 .. Len(contexts)
  <2>1. t \in ParseTasks /\ t \notin fresh
    BY <1>2
  <2>2. ~(t[1] > Len(contexts))
    BY <1>1, <2>1 DEF IInv, ScanState
  <2>3. t[1] \in 1 .. Contexts
    BY <2>1 DEF ParseTasks
  <2> QED BY <1>3, <2>1, <2>2, <2>3, Counts
<1> QED BY <1>4, <1>5

LEMMA AllParsed == IInv => ParsedAll
<1> SUFFICES ASSUME IInv, pc = "parsed"
             PROVE  /\ {completed[i][2] : i \in DOMAIN completed} = 1 .. Messages
                    /\ \A i, j \in DOMAIN completed : completed[i] = completed[j] => i = j
  BY DEF ParsedAll
<1>1. ASSUME NEW i \in DOMAIN completed
      PROVE  completed[i][2] \in 1 .. Messages
  BY DEF IInv, TypeOK, ParseTasks
<1>2. ASSUME NEW m \in 1 .. Messages
      PROVE  \E i \in DOMAIN completed : completed[i][2] = m
  <2>1. PICK k \in 1 .. Len(contexts) : contexts[k].start <= m /\ m < contexts[k].end
    BY DEF IInv, Covered, Scanning
  <2>2. <<k, m>> \in Elements(completed)
    BY <2>1, AllHandedOn
  <2> QED BY <2>2 DEF Elements
<1>3. \A i, j \in DOMAIN completed : completed[i] = completed[j] => i = j
  BY DEF IInv, MessagePlaces
<1> QED BY <1>1, <1>2, <1>3

(* Contexts of which each ends before the next begins have no message in    *)
(* common.                                                                  *)
LEMMA Apart ==
  ASSUME IInv, pc = "parsed", Disjoint,
         NEW i \in 1 .. Len(contexts), NEW j \in 1 .. Len(contexts), i < j
  PROVE  contexts[i].end <= contexts[j].start
<1> DEFINE T == {n \in 1 .. Len(contexts) : i < n /\ ~(contexts[i].end <= contexts[n].start)}
<1>1. Len(contexts) \in Nat
  BY DEF IInv, TypeOK
<1>2. \A n \in 1 .. Len(contexts) :
        /\ contexts[n].start \in Nat /\ contexts[n].end \in Nat
        /\ contexts[n].start < contexts[n].end
  <2>1. 1 \in 1 .. Messages
    BY Counts
  <2> QED BY <2>1, AllHandedOn
<1>3. T = {}
  <2> SUFFICES ASSUME T # {} PROVE FALSE
    OBVIOUS
  <2>1. T \in SUBSET Nat
    OBVIOUS
  <2>2. PICK n \in T : \A m \in T : n <= m
    <3> HIDE DEF T
    <3> QED BY <2>1, LeastMember
  <2>3. /\ n \in 2 .. Len(contexts) /\ i < n /\ ~(contexts[i].end <= contexts[n].start)
        /\ n - 1 \in 1 .. Len(contexts)
    BY <1>1, <2>2
  <2>4. contexts[n - 1].end <= contexts[n].start
    BY <2>3 DEF Disjoint
  <2>5. CASE n - 1 = i
    BY <2>3, <2>4, <2>5
  <2>6. CASE n - 1 # i
    <3>1. n - 1 \notin T
      BY <2>2, <2>3
    <3>2. contexts[i].end <= contexts[n - 1].start
      BY <2>3, <2>6, <3>1
    <3> QED BY <1>2, <2>3, <2>4, <3>2
  <2> QED BY <2>5, <2>6
<1> QED BY <1>3

LEMMA OnceParsed == IInv => ParsedOnce
<1> SUFFICES ASSUME IInv, pc = "parsed", Disjoint
             PROVE  EachOnce
  BY DEF ParsedOnce
<1> DEFINE D == 1 .. Len(completed)
           M == 1 .. Messages
           f == [i \in D |-> completed[i][2]]
<1>1. completed \in Seq(ParseTasks) /\ Len(completed) \in Nat /\ DOMAIN completed = D
  BY DEF IInv, TypeOK
<1>2. /\ {completed[i][2] : i \in D} = M
      /\ \A i, j \in D : completed[i] = completed[j] => i = j
  BY <1>1, AllParsed DEF ParsedAll
<1>3. f \in [D -> M] /\ \A m \in M : \E i \in D : f[i] = m
  BY <1>2
<1>4. ASSUME NEW a \in D, NEW b \in D, f[a] = f[b]
      PROVE  a = b
  <2> DEFINE i == completed[a][1]
             j == completed[b][1]
             p == completed[a][2]
  <2>1. completed[a] \in Elements(completed) /\ completed[b] \in Elements(completed)
    BY <1>1 DEF Elements
  <2>2. /\ completed[a] \in ParseTasks /\ completed[b] \in ParseTasks
        /\ i \in 1 .. Len(contexts) /\ j \in 1 .. Len(contexts)
    BY <2>1, AllHandedOn
  <2>3. completed[a] = <<i, p>> /\ completed[b] = <<j, p>> /\ p \in M
    BY <1>4, <2>2 DEF ParseTasks
  <2> HIDE DEF i, j, p
  <2>4. /\ contexts[i].start <= p /\ p < contexts[i].end
        /\ contexts[j].start <= p /\ p < contexts[j].end
        /\ contexts[i].start \in Nat /\ contexts[i].end \in Nat
        /\ contexts[j].start \in Nat /\ contexts[j].end \in Nat
    BY <2>1, <2>2, <2>3, AllHandedOn
  <2>5. ~(i < j) /\ ~(j < i)
    <3>1. i < j => contexts[i].end <= contexts[j].start
      BY <2>2, Apart
    <3>2. j < i => contexts[j].end <= contexts[i].start
      BY <2>2, Apart
    <3> QED BY <2>3, <2>4, <3>1, <3>2
  <2>6. i = j
    BY <2>2, <2>5
  <2> QED BY <1>2, <2>3, <2>6
<1>5. Len(completed) = Messages
  <2>1. f \in Bijection(D, M)
    <3> HIDE DEF f, D, M
    <3> QED BY <1>3, <1>4, Fun_IsBij
  <2>2. ExistsBijection(D, M)
    BY <2>1 DEF ExistsBijection
  <2>3. IsFiniteSet(D) /\ Cardinality(D) = Len(completed)
    BY <1>1, FS_Interval
  <2>4. Cardinality(M) = Messages
    BY Counts, FS_Interval
  <2> QED BY <2>2, <2>3, <2>4, FS_Bijection
<1> QED BY <1>1, <1>2, <1>5 DEF EachOnce

(* In whatever order the seeks, the scans and the parsers end, mboxParse    *)
(* returns with every message of the file in its list, and no context has   *)
(* handed on one of its messages twice; if no two contexts overlap, each    *)
(* message is there once.                                                   *)
THEOREM PipelineParses == Spec => []ParsedRight
<1>1. IInv => ParsedRight
  BY AllParsed, OnceParsed DEF ParsedRight, IInv
<1> QED BY PipelineInvariant, <1>1, PTL
=============================================================================
