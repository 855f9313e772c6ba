------------------------- MODULE LookbackPoolProofs -------------------------
(***************************************************************************)
(* Proofs about LookbackPool for any number of workers and any jobs, with  *)
(* spurious wake-ups and releases without a wait allowed or not.           *)
(***************************************************************************)
EXTENDS LookbackPool, QueueLemmas

-----------------------------------------------------------------------------
(* The workers and their subsets can be counted.                            *)
LEMMA WorkersFinite ==
  /\ IsFiniteSet(Workers) /\ Cardinality(Workers) = NumWorkers
  /\ \A S \in SUBSET Workers :
       IsFiniteSet(S) /\ Cardinality(S) \in Nat /\ Cardinality(S) <= NumWorkers
<1>1. IsFiniteSet(Workers) /\ Cardinality(Workers) = NumWorkers
  BY FS_Interval, WorkersAssumption DEF Workers
<1>2. ASSUME NEW S \in SUBSET Workers
      PROVE  IsFiniteSet(S) /\ Cardinality(S) \in Nat /\ Cardinality(S) <= NumWorkers
  BY <1>1, FS_Subset, FS_CardinalityType
<1> QED BY <1>1, <1>2

LEMMA SubsetsFinite ==
  /\ IsFiniteSet(Busy) /\ Cardinality(Busy) \in Nat
  /\ IsFiniteSet(Gone) /\ Cardinality(Gone) \in Nat
  /\ Cardinality(Gone) <= NumWorkers
BY WorkersFinite DEF Busy, Gone

(* A step that moves no worker in or out of the two sets keeps the counts.  *)
LEMMA SameCounts ==
  ASSUME CountsExact, Busy' = Busy, Gone' = Gone,
         UNCHANGED <<jobs, job_count, worker_count>>,
         main' \notin {"stopped", "released"} => main \notin {"stopped", "released"}
  PROVE  CountsExact'
BY DEF CountsExact

(* A worker that exits was none of those that have.                         *)
LEMMA ExitCount ==
  ASSUME TypeOK, CountsExact, NEW w \in Workers, Exit(w)
  PROVE  CountsExact'
<1>1. Gone' = Gone \union {w} /\ w \notin Gone /\ Busy' = Busy
  BY DEF Exit, Gone, Busy, TypeOK
<1>2. Cardinality(Gone') = Cardinality(Gone) + 1
  BY <1>1, SubsetsFinite, CountOneMore
<1>3. /\ main' \notin {"stopped", "released"} => main \notin {"stopped", "released"}
      /\ worker_count' = worker_count - 1 /\ worker_count \in Int
      /\ UNCHANGED <<jobs, job_count>>
  BY DEF Exit, SignalNoWork, TypeOK
<1> QED BY <1>1, <1>2, <1>3, SubsetsFinite, WorkersAssumption DEF CountsExact

(* A worker that completes is one of those counted, so that job_count is    *)
(* not 0 when it is decremented.                                            *)
LEMMA CompleteCount ==
  ASSUME TypeOK, CountsExact, NEW w \in Workers, Complete(w)
  PROVE  job_count' \in Nat /\ CountsExact'
<1>1. Busy' = Busy \ {w} /\ w \in Busy /\ Gone' = Gone
  BY DEF Complete, Busy, Gone, TypeOK
<1>2. Cardinality(Busy) \in Nat \ {0} /\ Cardinality(Busy') = Cardinality(Busy) - 1
  BY <1>1, SubsetsFinite, CountOneLess
<1>3. Len(jobs) \in Nat
  BY DEF TypeOK
<1>4. main' \notin {"stopped", "released"} => main \notin {"stopped", "released"}
  BY DEF Complete, SignalNoWork
<1> QED BY <1>1, <1>2, <1>3, <1>4 DEF Complete, CountsExact, TypeOK

(* The number of unfinished jobs does not change when one is taken.         *)
LEMMA TakeCount ==
  ASSUME TypeOK, CountsExact, NEW w \in Workers, Take(w)
  PROVE  CountsExact'
<1>1. Busy' = Busy \union {w} /\ w \notin Busy /\ Gone' = Gone
  BY DEF Take, AtList, Busy, Gone, TypeOK
<1>2. Cardinality(Busy') = Cardinality(Busy) + 1
  BY <1>1, SubsetsFinite, CountOneMore
<1>3. Len(jobs) \in Nat /\ Len(jobs') = Len(jobs) - 1
  BY DEF Take, TypeOK
<1> QED BY <1>1, <1>2, <1>3, SubsetsFinite DEF Take, CountsExact, TypeOK

-----------------------------------------------------------------------------
(* TypeOK and CountsExact are inductive together.                           *)
LEMMA InitCounts == Init => TypeOK /\ CountsExact
<1> SUFFICES ASSUME Init PROVE TypeOK /\ CountsExact
  OBVIOUS
<1>1. TypeOK
  BY WorkersAssumption DEF Init, TypeOK, Workers, WorkerPcs, MainPcs, WaitPcs, StopPcs, PastStop
<1>2. Busy = {} /\ Gone = {}
  BY DEF Init, Busy, Gone
<1>3. CountsExact
  BY <1>2, FS_EmptySet, WorkersAssumption DEF Init, CountsExact
<1> QED BY <1>1, <1>3

LEMMA CountsStep ==
  TypeOK /\ CountsExact /\ [Next]_vars => TypeOK' /\ CountsExact'
<1> SUFFICES ASSUME TypeOK, CountsExact, [Next]_vars PROVE TypeOK' /\ CountsExact'
  OBVIOUS
<1> USE DEF WorkerPcs, MainPcs, WaitPcs, StopPcs, PastStop
<1>1. ASSUME NEW w \in Workers, Spawn(w)
      PROVE  TypeOK' /\ CountsExact'
  <2>1. TypeOK'
    BY <1>1 DEF Spawn, TypeOK
  <2>2. Busy' = Busy /\ Gone' = Gone
    BY <1>1 DEF Spawn, TypeOK, Busy, Gone
  <2>3. main' \notin {"stopped", "released"} => main \notin {"stopped", "released"}
    BY <1>1 DEF Spawn
  <2> QED BY <1>1, <2>1, <2>2, <2>3, SameCounts DEF Spawn
<1>2. ASSUME NEW w \in Workers, Sleep(w) \/ TakeNone(w)
      PROVE  TypeOK' /\ CountsExact'
  <2>1. TypeOK'
    BY <1>2 DEF Sleep, TakeNone, TypeOK
  <2>2. Busy' = Busy /\ Gone' = Gone
    BY <1>2 DEF Sleep, TakeNone, AtList, TypeOK, Busy, Gone
  <2> QED BY <1>2, <2>1, <2>2, SameCounts DEF Sleep, TakeNone
<1>3. ASSUME NEW w \in Workers, Take(w)
      PROVE  TypeOK' /\ CountsExact'
  <2>1. TypeOK'
    BY <1>3 DEF Take, TypeOK
  <2> QED BY <1>3, <2>1, TakeCount
<1>4. ASSUME NEW w \in Workers, Call(w)
      PROVE  TypeOK' /\ CountsExact'
  <2>1. TypeOK'
    <3>1. runs' \in [Jobs -> Nat]
      <4>1. runs' = [j \in Jobs |-> IF j = arg[w] THEN runs[j] + 1 ELSE runs[j]]
        BY <1>4 DEF Call, TypeOK
      <4>2. \A j \in Jobs : runs[j] + 1 \in Nat /\ runs[j] \in Nat
        BY DEF TypeOK
      <4> QED BY <4>1, <4>2
    <3>2. pc' \in [Workers -> WorkerPcs] /\ arg' \in [Workers -> Jobs \union {NoJob}]
      BY <1>4 DEF Call, TypeOK
    <3> QED BY <1>4, <3>1, <3>2 DEF Call, TypeOK
  <2>2. Busy' = Busy /\ Gone' = Gone
    BY <1>4 DEF Call, TypeOK, Busy, Gone
  <2> QED BY <1>4, <2>1, <2>2, SameCounts DEF Call
<1>5. ASSUME NEW w \in Workers, Complete(w)
      PROVE  TypeOK' /\ CountsExact'
  BY <1>5, CompleteCount DEF Complete, SignalNoWork, TypeOK
<1>6. ASSUME NEW w \in Workers, Exit(w)
      PROVE  TypeOK' /\ CountsExact'
  <2>1. TypeOK'
    BY <1>6 DEF Exit, SignalNoWork, TypeOK
  <2> QED BY <1>6, <2>1, ExitCount
<1>11. ASSUME NEW w \in Workers, Unlock(w)
      PROVE  TypeOK' /\ CountsExact'
  <2>1. TypeOK'
    BY <1>11 DEF Unlock, TypeOK
  <2>2. Busy' = Busy /\ Gone' = Gone
    BY <1>11 DEF Unlock, TypeOK, Busy, Gone
  <2> QED BY <1>11, <2>1, <2>2, SameCounts DEF Unlock
<1>12. CASE JoinTest
  <2>1. TypeOK'
    BY <1>12 DEF JoinTest, TypeOK
  <2>2. Busy' = Busy /\ Gone' = Gone /\ UNCHANGED <<jobs, job_count>>
    BY <1>12 DEF JoinTest, Busy, Gone
  <2>3. /\ main = "join"
        /\ main' \notin {"stopped", "released"} => worker_count' = worker_count
    BY <1>12 DEF JoinTest
  <2> QED BY <2>1, <2>2, <2>3 DEF CountsExact
<1>7. ASSUME NEW j \in Jobs, Enqueue(j)
      PROVE  TypeOK' /\ CountsExact'
  <2>1. TypeOK'
    <3>1. jobs' \in Seq(Jobs)
      BY <1>7 DEF Enqueue, TypeOK
    <3>2. pc' \in [Workers -> WorkerPcs]
      BY <1>7 DEF Enqueue, WokenAll, TypeOK
    <3>3. todo' \subseteq Jobs /\ job_count' \in Nat
      BY <1>7 DEF Enqueue, TypeOK
    <3>5. waited' \in BOOLEAN
      BY <1>7, Zenon DEF Enqueue
    <3>4. UNCHANGED <<main, arg, worker_count, run, joined, runs>>
      BY <1>7 DEF Enqueue
    <3> QED BY <3>1, <3>2, <3>3, <3>4, <3>5 DEF TypeOK
  <2>2. Busy' = Busy /\ Gone' = Gone
    BY <1>7 DEF Enqueue, WokenAll, TypeOK, Busy, Gone
  <2>3. Len(jobs) \in Nat /\ Len(jobs') = Len(jobs) + 1
    BY <1>7 DEF Enqueue, TypeOK
  <2> QED BY <1>7, <2>1, <2>2, <2>3, SubsetsFinite DEF Enqueue, CountsExact
<1>8. CASE Stop
  <2>1. TypeOK'
    BY <1>8 DEF Stop, WokenAll, TypeOK
  <2>2. Busy' = Busy /\ Gone' = Gone
    BY <1>8 DEF Stop, WokenAll, TypeOK, Busy, Gone
  <2> QED BY <1>8, <2>1, <2>2, SameCounts DEF Stop
<1>9. CASE WaitCall \/ WaitTest \/ StopCall \/ StopBlock \/ Join \/ Free \/ UNCHANGED vars
  <2>1. TypeOK'
    <3>1. CASE WaitTest
      <4>1. waited' \in BOOLEAN
        BY <3>1, Zenon DEF WaitTest
      <4>2. main' \in MainPcs
        BY <3>1 DEF WaitTest
      <4>3. UNCHANGED <<pc, arg, jobs, job_count, worker_count, run, joined, todo, runs>>
        BY <3>1 DEF WaitTest
      <4> QED BY <4>1, <4>2, <4>3 DEF TypeOK
    <3>2. CASE WaitCall \/ StopCall \/ StopBlock \/ Free
      BY <3>2 DEF WaitCall, StopCall, StopBlock, Free, TypeOK
    <3>3. CASE Join \/ UNCHANGED vars
      BY <3>3 DEF Join, vars, TypeOK
    <3> QED BY <1>9, <3>1, <3>2, <3>3
  <2>2. Busy' = Busy /\ Gone' = Gone /\ UNCHANGED <<jobs, job_count, worker_count>>
    BY <1>9
       DEF WaitCall, WaitTest, StopCall, StopBlock, Join, Free, vars, Busy, Gone
  <2>3. main' \notin {"stopped", "released"} => main \notin {"stopped", "released"}
    BY <1>9 DEF WaitCall, WaitTest, StopCall, StopBlock, Join, Free, vars
  <2> QED BY <2>1, <2>2, <2>3, SameCounts
<1>10. CASE SpuriousWake
  <2>1. TypeOK'
    BY <1>10 DEF SpuriousWake, TypeOK
  <2>2. Busy' = Busy /\ Gone' = Gone
    BY <1>10 DEF SpuriousWake, TypeOK, Busy, Gone
  <2> QED BY <1>10, <2>1, <2>2, SameCounts DEF SpuriousWake
<1> QED BY <1>1, <1>2, <1>3, <1>4, <1>5, <1>6, <1>7, <1>8, <1>9, <1>10, <1>11, <1>12
        DEF Next, WorkerStep, MainStep

(* The variables of the pool keep their types: job_count does not wrap.     *)
THEOREM LookbackTypes == Spec => []TypeOK
<1>1. TypeOK /\ CountsExact /\ [Next]_vars => (TypeOK /\ CountsExact)'
  BY CountsStep
<1> QED BY InitCounts, <1>1, PTL DEF Spec

(* job_count and worker_count are the numbers the code takes them for.      *)
THEOREM LookbackCounts == Spec => []CountsExact
<1>1. TypeOK /\ CountsExact /\ [Next]_vars => (TypeOK /\ CountsExact)'
  BY CountsStep
<1> QED BY InitCounts, <1>1, PTL DEF Spec

-----------------------------------------------------------------------------
(* A step that leaves the list, the workers that hold a job and what has    *)
(* run alone, leaves every job where it is.                                 *)
LEMMA SamePlaces ==
  ASSUME JobPlaces, UNCHANGED <<arg, jobs, todo, runs>>,
         \A w \in Workers : (pc[w] = "call") = (pc'[w] = "call")
  PROVE  /\ JobPlaces'
         /\ Queued' = Queued /\ Held' = Held /\ Ran' = Ran
<1>1. Queued' = Queued /\ Ran' = Ran
  BY DEF Queued, Ran
<1>2. Held' = Held
  BY DEF Held
<1>3. \A v, w \in Workers :
         pc'[v] = "call" /\ pc'[w] = "call" /\ arg'[v] = arg'[w] => v = w
  BY DEF JobPlaces
<1>4. \A w \in Workers : pc'[w] = "call" => arg'[w] \in Jobs
  BY DEF JobPlaces
<1>5. JobPlaces'
  BY <1>1, <1>2, <1>3, <1>4 DEF JobPlaces
<1> QED BY <1>1, <1>2, <1>5

(* Enqueueing moves a job from the client to the list,                      *)
LEMMA EnqueueEffect ==
  ASSUME TypeOK, JobPlaces, NEW j \in Jobs, Enqueue(j)
  PROVE  /\ Held' = Held /\ Ran' = Ran
         /\ JobPlaces'
<1>1. /\ j \in todo /\ todo' = todo \ {j} /\ jobs' = Append(jobs, j)
      /\ UNCHANGED <<arg, runs>>
  BY DEF Enqueue
<1>2. \A w \in Workers : (pc[w] = "call") = (pc'[w] = "call")
  BY DEF Enqueue, WokenAll, TypeOK
<1>3. Held' = Held
  BY <1>1, <1>2 DEF Held
<1>4. Ran' = Ran
  BY <1>1 DEF Ran
<1>5. /\ Queued' = Queued \union {j}
      /\ \A a, b \in DOMAIN jobs' : jobs'[a] = jobs'[b] => a = b
  <2>1. jobs \in Seq(Jobs)
    BY DEF TypeOK
  <2>2. j \notin Queued
    BY <1>1 DEF JobPlaces
  <2>3. \A a, b \in DOMAIN jobs : jobs[a] = jobs[b] => a = b
    BY DEF JobPlaces
  <2> QED BY <1>1, <2>1, <2>2, <2>3, AppendElements DEF Queued
<1>6. JobPlaces'
  <2>1. \A v, w \in Workers :
           pc'[v] = "call" /\ pc'[w] = "call" /\ arg'[v] = arg'[w] => v = w
    BY <1>1, <1>2 DEF JobPlaces
  <2>2. \A w \in Workers : pc'[w] = "call" => arg'[w] \in Jobs
    BY <1>1, <1>2 DEF JobPlaces
  <2>3. \A k \in Jobs : runs'[k] <= 1
    BY <1>1 DEF JobPlaces
  <2> QED BY <1>1, <1>3, <1>4, <1>5, <2>1, <2>2, <2>3 DEF JobPlaces
<1> QED BY <1>3, <1>4, <1>6

(* taking one moves the head of the list to a worker,                       *)
LEMMA TakeEffect ==
  ASSUME TypeOK, JobPlaces, NEW w \in Workers, Take(w)
  PROVE  /\ Held' = Held \union {Head(jobs)} /\ Ran' = Ran
         /\ JobPlaces'
<1>1. /\ jobs # << >> /\ jobs' = Tail(jobs) /\ jobs \in Seq(Jobs)
      /\ UNCHANGED <<todo, runs>>
      /\ pc[w] # "call" /\ pc'[w] = "call"
      /\ arg'[w] = Head(jobs)
      /\ \A v \in Workers \ {w} : pc'[v] = pc[v] /\ arg'[v] = arg[v]
  BY DEF Take, AtList, TypeOK
<1>2. \A a, b \in DOMAIN jobs : jobs[a] = jobs[b] => a = b
  BY DEF JobPlaces
<1>3. /\ Head(jobs) \in Jobs
      /\ Queued = Queued' \union {Head(jobs)}
      /\ Head(jobs) \notin Queued'
      /\ \A a, b \in DOMAIN jobs' : jobs'[a] = jobs'[b] => a = b
  <2>1. jobs # << >> /\ jobs' = Tail(jobs) /\ jobs \in Seq(Jobs)
    BY <1>1
  <2>2. /\ Head(jobs) \in Jobs
        /\ {jobs[i] : i \in DOMAIN jobs}
             = {Tail(jobs)[i] : i \in DOMAIN Tail(jobs)} \union {Head(jobs)}
        /\ Head(jobs) \notin {Tail(jobs)[i] : i \in DOMAIN Tail(jobs)}
        /\ \A a, b \in DOMAIN Tail(jobs) : Tail(jobs)[a] = Tail(jobs)[b] => a = b
    BY <2>1, <1>2, TailElements, Zenon
  <2> QED BY <2>1, <2>2 DEF Queued
<1>4. Held' = Held \union {Head(jobs)}
  BY <1>1 DEF Held
<1>5. Ran' = Ran
  BY <1>1 DEF Ran
<1>6. \A u, v \in Workers :
         pc'[u] = "call" /\ pc'[v] = "call" /\ arg'[u] = arg'[v] => u = v
  <2>1. \A u \in Workers \ {w} : pc'[u] = "call" => arg'[u] \in Held
    BY <1>1 DEF Held
  <2>2. Head(jobs) \notin Held
    BY <1>3 DEF JobPlaces
  <2> QED BY <1>1, <2>1, <2>2 DEF JobPlaces
<1>7. \A v \in Workers : pc'[v] = "call" => arg'[v] \in Jobs
  BY <1>1, <1>3 DEF JobPlaces
<1>8. JobPlaces'
  <2>1. \A j \in Jobs : runs'[j] <= 1
    BY <1>1 DEF JobPlaces
  <2>2. /\ todo \intersect (Queued \union Held \union Ran) = {}
        /\ Queued \intersect (Held \union Ran) = {}
        /\ Held \intersect Ran = {}
        /\ todo \union Queued \union Held \union Ran = Jobs
    BY DEF JobPlaces
  <2> QED BY <1>1, <1>3, <1>4, <1>5, <1>6, <1>7, <2>1, <2>2 DEF JobPlaces
<1> QED BY <1>4, <1>5, <1>8

(* and running it moves it to those that have run.                          *)
LEMMA CallEffect ==
  ASSUME TypeOK, JobPlaces, NEW w \in Workers, Call(w)
  PROVE  /\ arg[w] \in Held
         /\ Held' = Held \ {arg[w]} /\ Ran' = Ran \union {arg[w]}
         /\ Queued' = Queued
         /\ JobPlaces'
<1>1. /\ pc[w] = "call" /\ pc'[w] # "call"
      /\ UNCHANGED <<jobs, todo>>
      /\ \A v \in Workers \ {w} : pc'[v] = pc[v] /\ arg'[v] = arg[v]
  BY DEF Call, TypeOK
<1>2. arg[w] \in Jobs /\ arg[w] \in Held
  BY <1>1 DEF JobPlaces, Held
<1>3. /\ runs'[arg[w]] = runs[arg[w]] + 1
      /\ \A j \in Jobs \ {arg[w]} : runs'[j] = runs[j]
  BY <1>2 DEF Call, TypeOK
<1>4. \A j \in Jobs : runs[j] \in Nat
  BY DEF TypeOK
<1>5. Ran' = Ran \union {arg[w]}
  BY <1>2, <1>3, <1>4 DEF Ran
<1>6. Held' = Held \ {arg[w]}
  <2>1. \A v \in Workers \ {w} : pc[v] = "call" => arg[v] # arg[w]
    BY <1>1 DEF JobPlaces
  <2> QED BY <1>1, <2>1 DEF Held
<1>7. Queued' = Queued
  BY <1>1 DEF Queued
<1>8. runs[arg[w]] = 0
  <2>1. arg[w] \notin Ran
    BY <1>2 DEF JobPlaces
  <2> QED BY <1>2, <1>4, <2>1 DEF Ran
<1>9. JobPlaces'
  <2>1. \A j \in Jobs : runs'[j] <= 1
    BY <1>3, <1>8 DEF JobPlaces
  <2>2. \A u, v \in Workers :
           pc'[u] = "call" /\ pc'[v] = "call" /\ arg'[u] = arg'[v] => u = v
    BY <1>1 DEF JobPlaces
  <2>3. \A v \in Workers : pc'[v] = "call" => arg'[v] \in Jobs
    BY <1>1 DEF JobPlaces
  <2>4. \A a, b \in DOMAIN jobs' : jobs'[a] = jobs'[b] => a = b
    BY <1>1 DEF JobPlaces
  <2>5. /\ todo \intersect (Queued \union Held \union Ran) = {}
        /\ Queued \intersect (Held \union Ran) = {}
        /\ Held \intersect Ran = {}
        /\ todo \union Queued \union Held \union Ran = Jobs
    BY DEF JobPlaces
  <2> QED BY <1>1, <1>2, <1>5, <1>6, <1>7, <2>1, <2>2, <2>3, <2>4, <2>5 DEF JobPlaces
<1> QED BY <1>2, <1>5, <1>6, <1>7, <1>9

(* The steps that leave all jobs where they are.                            *)
Quiet ==
  \/ \E w \in Workers : Spawn(w) \/ Sleep(w) \/ TakeNone(w) \/ Complete(w) \/ Exit(w) \/ Unlock(w)
  \/ WaitCall \/ WaitTest
  \/ StopCall \/ StopBlock \/ Stop \/ JoinTest \/ Join \/ Free
  \/ SpuriousWake
  \/ UNCHANGED vars

LEMMA QuietPlaces ==
  ASSUME TypeOK, JobPlaces, Quiet
  PROVE  /\ JobPlaces'
         /\ Queued' = Queued /\ Held' = Held /\ Ran' = Ran
         /\ UNCHANGED <<jobs, todo>>
<1>1. UNCHANGED <<arg, jobs, todo, runs>>
  BY DEF Quiet, Spawn, Sleep, TakeNone, Complete, Exit, Unlock, WaitCall, WaitTest, StopCall,
         StopBlock, Stop, JoinTest, Join, Free, SpuriousWake, vars
<1>2. \A w \in Workers : (pc[w] = "call") = (pc'[w] = "call")
  BY DEF Quiet, Spawn, Sleep, TakeNone, Complete, Exit, Unlock, WaitCall, WaitTest, StopCall,
         StopBlock, Stop, JoinTest, Join, Free, SpuriousWake, vars, AtList, WokenAll, TypeOK
<1> QED BY <1>1, <1>2, SamePlaces

LEMMA StepKinds ==
  ASSUME [Next]_vars
  PROVE  \/ Quiet
         \/ \E j \in Jobs : Enqueue(j)
         \/ \E w \in Workers : Take(w) \/ Call(w)
BY DEF Next, WorkerStep, MainStep, Quiet

-----------------------------------------------------------------------------
(* With no job counted there is none in the list or in a worker's hands.    *)
LEMMA NoneCounted ==
  ASSUME TypeOK, CountsExact, job_count = 0
  PROVE  jobs = << >> /\ Busy = {} /\ Held = {}
<1>1. Len(jobs) \in Nat
  BY DEF TypeOK
<1>2. Len(jobs) = 0 /\ Cardinality(Busy) = 0
  BY <1>1, SubsetsFinite DEF CountsExact
<1>3. Busy = {}
  BY <1>2, SubsetsFinite, FS_EmptySet
<1>4. jobs = << >>
  BY <1>2 DEF TypeOK
<1> QED BY <1>3, <1>4 DEF Busy, Held

(* run is off exactly while Main is past the place where it stops them.     *)
LEMMA StopPlaceStep ==
  IInv /\ [Next]_vars => StopPlace'
<1> SUFFICES ASSUME IInv, [Next]_vars PROVE StopPlace'
  OBVIOUS
<1> USE DEF StopPlace, PastStop
<1>1. run <=> main \notin PastStop
  BY DEF IInv
<1>2. ASSUME NEW w \in Workers, Spawn(w) \/ WorkerStep(w) PROVE StopPlace'
  <2>1. run' = run
    BY <1>2 DEF Spawn, WorkerStep, Sleep, Take, TakeNone, Call, Complete, Exit, Unlock
  <2>2. \/ main' = main
        \/ main = "spawn" /\ main' = "idle"
        \/ main = "waitSleep" /\ main' = "waitLock"
    BY <1>2 DEF Spawn, WorkerStep, Sleep, Take, TakeNone, Call, Complete, Exit, Unlock,
                SignalNoWork
  <2> QED BY <1>1, <2>1, <2>2
<1>3. ASSUME NEW j \in Jobs, Enqueue(j) PROVE StopPlace'
  BY <1>1, <1>3 DEF Enqueue
<1>4. CASE WaitCall \/ WaitTest \/ StopCall \/ StopBlock \/ SpuriousWake \/ UNCHANGED vars
  BY <1>1, <1>4 DEF WaitCall, WaitTest, StopCall, StopBlock, SpuriousWake, vars
<1>5. CASE Stop \/ JoinTest \/ Join \/ Free
  BY <1>1, <1>5 DEF Stop, JoinTest, Join, Free
<1> QED BY <1>2, <1>3, <1>4, <1>5 DEF Next, MainStep

(* A finished wait leaves nothing counted until the next enqueue, and a     *)
(* stop leaves nothing counted at all.                                      *)
LEMMA WaitFindsStep ==
  IInv /\ [Next]_vars => WaitFinds'
<1> SUFFICES ASSUME IInv, [Next]_vars PROVE WaitFinds'
  OBVIOUS
<1> USE DEF WaitFinds
<1>1. ASSUME NEW j \in Jobs, Enqueue(j) PROVE WaitFinds'
  <2>1. run' = run /\ main = "idle" /\ ~waited'
    BY <1>1 DEF Enqueue
  <2> QED BY <2>1 DEF IInv, StopPlace, PastStop
<1>2. CASE WaitTest
  <2>1. run' = run /\ job_count' = job_count /\ waited' = (job_count = 0)
    BY <1>2 DEF WaitTest
  <2> QED BY <2>1 DEF IInv
<1>3. ASSUME NEW w \in Workers, Complete(w), waited \/ ~run PROVE FALSE
  <2>1. Busy = {}
    BY <1>3, NoneCounted DEF IInv
  <2> QED BY <1>3, <2>1 DEF Complete, Busy
<1>4. ASSUME UNCHANGED <<job_count, waited, run>> PROVE WaitFinds'
  BY <1>4 DEF IInv
<1>5. ASSUME NEW w \in Workers,
             \/ Spawn(w) \/ Sleep(w) \/ Take(w) \/ TakeNone(w) \/ Call(w)
             \/ Exit(w) \/ Unlock(w)
      PROVE  WaitFinds'
  BY <1>4, <1>5 DEF Spawn, Sleep, Take, TakeNone, Call, Exit, Unlock
<1>6. CASE \/ WaitCall \/ StopCall \/ StopBlock \/ JoinTest \/ Join \/ Free
           \/ SpuriousWake \/ UNCHANGED vars
  BY <1>4, <1>6
     DEF WaitCall, StopCall, StopBlock, JoinTest, Join, Free, SpuriousWake, vars
<1>7. ASSUME NEW w \in Workers, Complete(w) PROVE WaitFinds'
  BY <1>3, <1>7 DEF Complete
<1>8. CASE Stop
  BY <1>8 DEF Stop
<1> QED BY <1>1, <1>2, <1>5, <1>6, <1>7, <1>8 DEF Next, WorkerStep, MainStep

(* The join loop passes a worker only once it has exited.                   *)
LEMMA JoinLoopStep ==
  IInv /\ [Next]_vars => JoinLoop'
<1> SUFFICES ASSUME IInv, [Next]_vars PROVE JoinLoop'
  OBVIOUS
<1> USE WorkersAssumption
<1>0. \A w \in Workers : pc[w] = "exited" => pc'[w] = "exited"
  BY DEF Next, Spawn, WorkerStep, Sleep, Take, TakeNone, Call, Complete, Exit, Unlock,
         AtList, Enqueue, WokenAll, WaitCall, WaitTest, StopCall, MainStep, StopBlock,
         Stop, JoinTest, Join, Free, SpuriousWake, vars, IInv, TypeOK
<1>1. ASSUME joined' = joined, main' = "joining" => main' = main
      PROVE  JoinLoop'
  BY <1>0, <1>1 DEF IInv, JoinLoop
<1>2. ASSUME NEW w \in Workers, Spawn(w) \/ WorkerStep(w)
      PROVE  JoinLoop'
  <2>1. joined' = joined
    BY <1>2 DEF Spawn, WorkerStep, Sleep, Take, TakeNone, Call, Complete, Exit, Unlock
  <2>2. main' = "joining" => main' = main
    BY <1>2 DEF Spawn, WorkerStep, Sleep, Take, TakeNone, Call, Complete, Exit, Unlock,
                SignalNoWork
  <2> QED BY <1>1, <2>1, <2>2
<1>3. CASE \/ \E j \in Jobs : Enqueue(j)
           \/ WaitCall \/ WaitTest \/ StopCall \/ StopBlock \/ Stop \/ Free
           \/ SpuriousWake \/ UNCHANGED vars
  BY <1>1, <1>3
     DEF Enqueue, WaitCall, WaitTest, StopCall, StopBlock, Stop, Free, SpuriousWake, vars
<1>4. CASE JoinTest
  <2>1. main = "join" /\ worker_count <= NumWorkers /\ worker_count \in Int /\ joined \in Nat
    BY <1>4, SubsetsFinite DEF JoinTest, IInv, CountsExact, TypeOK
  <2>2. /\ UNCHANGED <<pc, joined>>
        /\ main' = IF joined < worker_count THEN "joining" ELSE "stopped"
    BY <1>4 DEF JoinTest
  <2>3. joined <= NumWorkers /\ \A w \in Workers : w < joined => pc[w] = "exited"
    BY DEF IInv, JoinLoop
  <2> QED BY <2>1, <2>2, <2>3 DEF JoinLoop
<1>5. CASE Join
  <2>1. /\ joined' = joined + 1 /\ main' = "join" /\ pc' = pc
        /\ pc[joined] = "exited" /\ joined < NumWorkers /\ joined \in Nat
    BY <1>5 DEF Join, IInv, JoinLoop, TypeOK
  <2>2. \A w \in Workers : w < joined + 1 => w < joined \/ w = joined
    BY <2>1 DEF Workers
  <2>3. \A w \in Workers : w < joined' => pc'[w] = "exited"
    BY <2>1, <2>2 DEF IInv, JoinLoop
  <2> QED BY <2>1, <2>3 DEF JoinLoop
<1> QED BY <1>2, <1>3, <1>4, <1>5 DEF Next, MainStep

-----------------------------------------------------------------------------
(* IInv is inductive.                                                       *)
LEMMA InitIInv == Init => IInv
<1> SUFFICES ASSUME Init PROVE IInv
  OBVIOUS
<1>1. Held = {} /\ Queued = {} /\ Ran = {}
  BY DEF Init, Held, Queued, Ran
<1>2. JobPlaces
  BY <1>1 DEF Init, JobPlaces
<1>3. WaitFinds /\ StopPlace /\ JoinLoop
  BY WorkersAssumption DEF Init, WaitFinds, StopPlace, PastStop, JoinLoop, Workers
<1> QED BY <1>2, <1>3, InitCounts DEF IInv

LEMMA IInvStep == IInv /\ [Next]_vars => IInv'
<1> SUFFICES ASSUME IInv, [Next]_vars PROVE IInv'
  OBVIOUS
<1>1. TypeOK' /\ CountsExact'
  BY CountsStep DEF IInv
<1>2. JobPlaces'
  BY StepKinds, QuietPlaces, EnqueueEffect, TakeEffect, CallEffect DEF IInv
<1> QED BY <1>1, <1>2, WaitFindsStep, StopPlaceStep, JoinLoopStep DEF IInv

(* A job is in one place and runs at most once, job_count is the number of  *)
(* jobs queued or at work, a wait or a stop left none of them, and          *)
(* the join loop of workerPoolRelease has passed only workers that have     *)
(* exited: the inductive invariant, for any number of workers and jobs.     *)
THEOREM LookbackInvariant == Spec => []IInv
BY InitIInv, IInvStep, PTL DEF Spec

(* workerPoolWait returns only after every job handed over has run, with or *)
(* without a wait before every release.                                     *)
THEOREM LookbackWait == Spec => []WaitSound
<1>1. IInv => WaitSound
  <2> SUFFICES ASSUME IInv, waited PROVE todo \union Ran = Jobs
    BY DEF WaitSound
  <2>1. jobs = << >> /\ Held = {}
    BY NoneCounted DEF IInv, WaitFinds
  <2>2. Queued = {}
    BY <2>1 DEF Queued
  <2>3. todo \union Queued \union Held \union Ran = Jobs
    BY DEF IInv, JobPlaces
  <2> QED BY <2>1, <2>2, <2>3
<1> QED BY <1>1, LookbackInvariant, PTL

(* workerPoolStop stops the workers only after every job handed over has    *)
(* run, in a release with or without a wait before it.                      *)
THEOREM LookbackStop == Spec => []StopSound
<1>1. IInv => StopSound
  <2> SUFFICES ASSUME IInv, ~run
               PROVE  jobs = << >> /\ Busy = {} /\ todo \union Ran = Jobs
    BY DEF StopSound
  <2>1. jobs = << >> /\ Held = {} /\ Busy = {}
    BY NoneCounted DEF IInv, WaitFinds
  <2>2. Queued = {}
    BY <2>1 DEF Queued
  <2>3. todo \union Queued \union Held \union Ran = Jobs
    BY DEF IInv, JobPlaces
  <2> QED BY <2>1, <2>2, <2>3
<1> QED BY <1>1, LookbackInvariant, PTL

-----------------------------------------------------------------------------
(* Each step is one of the abstract pool, or leaves it alone.               *)
LEMMA RefinementStep ==
  IInv /\ [Next]_vars => [Tasks!Next]_(Tasks!vars)
<1> SUFFICES ASSUME IInv, [Next]_vars PROVE Tasks!Next \/ UNCHANGED Tasks!vars
  OBVIOUS
<1> USE DEF IInv
<1>1. ASSUME NEW j \in Jobs, Enqueue(j) PROVE Tasks!Submit(j)
  <2>1. Held' = Held /\ Ran' = Ran
    BY <1>1, EnqueueEffect
  <2>2. main = "idle" /\ main' = "idle"
    BY <1>1 DEF Enqueue
  <2> QED BY <1>1, <2>1, <2>2 DEF Enqueue, Tasks!Submit, WaitPcs
<1>2. ASSUME NEW w \in Workers, Take(w) PROVE Tasks!Begin
  <2>1. Held' = Held \union {Head(jobs)} /\ Ran' = Ran
    BY <1>2, TakeEffect
  <2> QED BY <1>2, <2>1 DEF Take, Tasks!Begin
<1>3. ASSUME NEW w \in Workers, Call(w) PROVE \E j \in Jobs : Tasks!Complete(j)
  <2>1. /\ arg[w] \in Held
        /\ Held' = Held \ {arg[w]} /\ Ran' = Ran \union {arg[w]}
    BY <1>3, CallEffect
  <2>2. arg[w] \in Jobs
    BY <1>3 DEF Call, JobPlaces
  <2>3. Tasks!Complete(arg[w])
    BY <1>3, <2>1 DEF Call, Tasks!Complete
  <2> QED BY <2>2, <2>3
<1>4. ASSUME Quiet
      PROVE  \/ UNCHANGED Tasks!vars \/ Tasks!WaitCall \/ Tasks!WaitReturn
  <2>1. Held' = Held /\ Ran' = Ran /\ jobs' = jobs /\ todo' = todo
    BY <1>4, QuietPlaces
  <2>2. ASSUME (main \in WaitPcs) = (main' \in WaitPcs)
        PROVE  UNCHANGED Tasks!vars
    BY <2>1, <2>2 DEF Tasks!vars
  <2>3. CASE WaitCall
    BY <2>1, <2>3 DEF WaitCall, WaitPcs, Tasks!WaitCall
  <2>4. CASE WaitTest
    <3>1. CASE job_count = 0
      <4>1. jobs = << >> /\ Held = {}
        BY <3>1, NoneCounted
      <4>2. main = "waitLock" /\ main' = "idle"
        BY <2>4, <3>1 DEF WaitTest
      <4> QED BY <2>1, <4>1, <4>2 DEF WaitPcs, Tasks!WaitReturn
    <3>2. CASE job_count # 0
      <4>1. main = "waitLock" /\ main' = "waitSleep"
        BY <2>4, <3>2 DEF WaitTest
      <4> QED BY <2>2, <4>1 DEF WaitPcs
    <3> QED BY <3>1, <3>2
  <2>5. ASSUME NEW w \in Workers,
               \/ Spawn(w) \/ Sleep(w) \/ TakeNone(w) \/ Complete(w)
               \/ Exit(w) \/ Unlock(w)
        PROVE  UNCHANGED Tasks!vars
    <3>1. \/ main' = main
          \/ main = "spawn" /\ main' = "idle"
          \/ main = "waitSleep" /\ main' = "waitLock"
      BY <2>5 DEF Spawn, Sleep, TakeNone, Complete, Exit, Unlock, SignalNoWork
    <3> QED BY <2>2, <3>1 DEF WaitPcs
  <2>6. CASE StopCall \/ StopBlock \/ Stop \/ JoinTest \/ Join \/ Free
    <3>1. main \notin WaitPcs /\ main' \notin WaitPcs
      BY <2>6 DEF StopCall, StopBlock, Stop, JoinTest, Join, Free, WaitPcs
    <3> QED BY <2>2, <3>1
  <2>7. CASE SpuriousWake \/ UNCHANGED vars
    <3>1. \/ main' = main
          \/ main = "waitSleep" /\ main' = "waitLock"
          \/ main = "stopSleep" /\ main' = "stopLock"
      BY <2>7 DEF SpuriousWake, vars
    <3> QED BY <2>2, <3>1 DEF WaitPcs
  <2> QED BY <1>4, <2>3, <2>4, <2>5, <2>6, <2>7 DEF Quiet
<1> QED BY <1>1, <1>2, <1>3, <1>4, StepKinds DEF Tasks!Next

(* The prototype's pool does what the abstract pool does.                   *)
THEOREM LookbackRefinesTaskPool == Spec => Tasks!Spec
<1>1. Init => Tasks!Init
  <2> SUFFICES ASSUME Init PROVE Tasks!Init
    OBVIOUS
  <2>1. Held = {} /\ Ran = {}
    BY DEF Init, Held, Ran
  <2> QED BY <2>1 DEF Init, Tasks!Init, WaitPcs
<1>2. IInv /\ [Next]_vars => [Tasks!Next]_(Tasks!vars)
  BY RefinementStep
<1> QED BY <1>1, <1>2, LookbackInvariant, PTL DEF Spec, Tasks!Spec
=============================================================================
