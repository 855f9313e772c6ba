-------------------------- MODULE WorkerPoolProofs --------------------------
(***************************************************************************)
(* Proofs about WorkerPool for any finite set of workers, any producers    *)
(* and any jobs, with spurious wake-ups allowed or not.                    *)
(***************************************************************************)
EXTENDS WorkerPool, QueueLemmas

-----------------------------------------------------------------------------
(* The three places a thread can be moved to or from.                       *)
LEMMA GotoType ==
  ASSUME TypeOK, NEW t \in Threads, NEW to,
         t \in Workers => to \in WorkerPcs,
         t \in Producers => to \in ClientPcs,
         t = Main => to \in MainPcs,
         Goto(t, to)
  PROVE  /\ pc' \in [Threads -> WorkerPcs \union MainPcs]
         /\ \A w \in Workers : pc'[w] \in WorkerPcs
         /\ \A p \in Producers : pc'[p] \in ClientPcs
         /\ pc'[Main] \in MainPcs
BY ThreadsAssumption DEF TypeOK, Goto, Threads, Clients, MainPcs

(* A post leaves the semaphore at 1 and moves its caller, and at most one   *)
(* sleeping worker.                                                         *)
LEMMA SignalType ==
  ASSUME TypeOK, NEW t \in Threads, NEW next,
         t \in Workers => next \in WorkerPcs,
         t \in Producers => next \in ClientPcs,
         t = Main => next \in MainPcs,
         SemaphoreSignal(t, next)
  PROVE  /\ pc' \in [Threads -> WorkerPcs \union MainPcs]
         /\ \A w \in Workers : pc'[w] \in WorkerPcs
         /\ \A p \in Producers : pc'[p] \in ClientPcs
         /\ pc'[Main] \in MainPcs
         /\ val' \in {0, 1}
<1>1. CASE Goto(t, next)
  BY <1>1, GotoType DEF SemaphoreSignal
<1>2. ASSUME NEW w \in Sleeping, pc' = [pc EXCEPT ![t] = next, ![w] = "semWoken"]
      PROVE  /\ pc' \in [Threads -> WorkerPcs \union MainPcs]
             /\ \A v \in Workers : pc'[v] \in WorkerPcs
             /\ \A p \in Producers : pc'[p] \in ClientPcs
             /\ pc'[Main] \in MainPcs
  <2>1. w \in Workers /\ "semWoken" \in WorkerPcs
    BY DEF Sleeping, WorkerPcs, ParkedPcs
  <2> QED BY <1>2, <2>1, ThreadsAssumption DEF TypeOK, Threads, Clients, MainPcs
<1> QED BY <1>1, <1>2 DEF SemaphoreSignal

LEMMA ActiveFinite == IsFiniteSet(Active) /\ IsFiniteSet(Registered)
BY ThreadsAssumption, FS_Subset DEF Active, Registered

(* Every step keeps the types; that active_threads does not go below zero   *)
(* needs the counters to be exact.                                          *)
LEMMA TypeStep ==
  ASSUME TypeOK, CountersExact, [Next]_vars
  PROVE  TypeOK'
<1> USE DEF WorkerPcs, ActivePcs, ParkedPcs, ClientPcs, WaitPcs, StopPcs, MainPcs
<1>1. ASSUME NEW w \in Workers, Spawn(w)
      PROVE  TypeOK'
  BY <1>1, GotoType DEF Spawn, TypeOK, Threads
<1>2. ASSUME NEW w \in Workers, WorkerStep(w)
      PROVE  TypeOK'
  <2>1. w \in Threads /\ w \notin Producers /\ w # Main
    BY ThreadsAssumption DEF Threads, Clients
  <2>2. CASE WorkerStart(w)
    BY <2>1, <2>2, GotoType DEF WorkerStart, TypeOK
  <2>3. CASE SemaphoreTake(w)
    BY <2>1, <2>3, GotoType DEF SemaphoreTake, TypeOK
  <2>4. CASE SemaphoreBlock(w)
    BY <2>1, <2>4, GotoType DEF SemaphoreBlock, TypeOK
  <2>5. CASE Activate(w)
    BY <2>1, <2>5, GotoType DEF Activate, TypeOK
  <2>6. CASE DequeueJob(w)
    <3>1. Tail(jobs) \in Seq(Jobs) /\ Head(jobs) \in Jobs
      BY <2>6, TailElements DEF DequeueJob, TypeOK
    <3> QED BY <2>1, <2>6, <3>1, GotoType DEF DequeueJob, TypeOK
  <2>7. CASE DequeueNone(w)
    BY <2>1, <2>7, GotoType DEF DequeueNone, TypeOK
  <2>8. CASE Resignal(w)
    BY <2>1, <2>8, SignalType DEF Resignal, TypeOK
  <2>9. CASE Call(w)
    <3>1. runs' \in [Jobs -> Nat] /\ arg' \in [Workers -> Jobs \union {NoJob}]
      <4>1. runs' = [runs EXCEPT ![arg[w]] = runs[arg[w]] + 1]
        BY <2>9 DEF Call
      <4>2. \A j \in Jobs : runs[j] \in Nat /\ runs[j] + 1 \in Nat
        BY DEF TypeOK
      <4>3. runs' \in [Jobs -> Nat]
        BY <4>1, <4>2 DEF TypeOK
      <4> QED BY <2>9, <4>3 DEF Call, TypeOK
    <3>2. UNCHANGED <<jobs, qlock, lock, val, alive, active, todo, waited>>
      BY <2>9 DEF Call
    <3>3. Goto(w, "deactivate")
      BY <2>9 DEF Call
    <3> QED BY <2>1, <3>1, <3>2, <3>3, GotoType DEF TypeOK
  <2>10. CASE Deactivate(w)
    <3>1. active - 1 \in Nat
      <4>1. w \in Active
        BY <2>10 DEF Deactivate, Active
      <4>2. Cardinality(Active) \in Nat \ {0}
        BY <4>1, ActiveFinite, CountOneLess
      <4> QED BY <4>2 DEF CountersExact
    <3>2. CASE Goto(w, "top")
      BY <2>1, <2>10, <3>1, <3>2, GotoType DEF Deactivate, TypeOK
    <3>3. CASE pc' = [pc EXCEPT ![w] = "top", ![Main] = "waitLock"]
      BY <2>1, <2>10, <3>1, <3>3, ThreadsAssumption DEF Deactivate, TypeOK, Threads, Clients
    <3> QED BY <2>10, <3>2, <3>3 DEF Deactivate
  <2> QED BY <1>2, <2>2, <2>3, <2>4, <2>5, <2>6, <2>7, <2>8, <2>9, <2>10 DEF WorkerStep
<1>3. ASSUME NEW c \in Clients, NEW j \in Jobs, EnqueueAdd(c, j)
      PROVE  TypeOK'
  <2>1. c \in Threads /\ c \notin Workers
    BY ThreadsAssumption DEF Threads
  <2>2. Append(jobs, j) \in Seq(Jobs)
    BY AppendElements DEF TypeOK
  <2> QED BY <1>3, <2>1, <2>2, GotoType DEF EnqueueAdd, TypeOK
<1>4. ASSUME NEW c \in Clients, EnqueueSignal(c)
      PROVE  TypeOK'
  <2>1. c \in Threads /\ c \notin Workers
    BY ThreadsAssumption DEF Threads
  <2> QED BY <1>4, <2>1, SignalType DEF EnqueueSignal, TypeOK
<1>5. ASSUME WaitCall \/ StopCall \/ MainStep
      PROVE  TypeOK'
  <2>1. Main \in Threads /\ Main \notin Workers /\ Main \notin Producers
    BY ThreadsAssumption DEF Threads, Clients
  <2>2. CASE WaitCall
    BY <2>1, <2>2, GotoType DEF WaitCall, TypeOK
  <2>3. CASE StopCall
    BY <2>1, <2>3, GotoType DEF StopCall, TypeOK
  <2>4. CASE SpinDone
    BY <2>1, <2>4, GotoType DEF SpinDone, TypeOK
  <2>5. CASE WaitReadLen
    BY <2>1, <2>5, GotoType DEF WaitReadLen, TypeOK
  <2>6. CASE WaitReadActive
    BY <2>1, <2>6, GotoType DEF WaitReadActive, TypeOK
  <2>7. CASE Stop
    BY <2>1, <2>7, GotoType DEF Stop, TypeOK
  <2>8. CASE Free
    BY <2>1, <2>8, GotoType DEF Free, TypeOK
  <2> QED BY <1>5, <2>2, <2>3, <2>4, <2>5, <2>6, <2>7, <2>8 DEF MainStep
<1>6. ASSUME NEW t \in Threads, SpuriousWake(t)
      PROVE  TypeOK'
  <2>1. CASE pc[t] = "semSleep" /\ Goto(t, "semWoken")
    <3>1. t \notin Clients
      BY <2>1 DEF TypeOK, Clients
    <3> QED BY <1>6, <2>1, <3>1, GotoType DEF SpuriousWake, TypeOK, Clients
  <2>2. CASE pc[t] = "waitSleep" /\ Goto(t, "waitLock")
    <3>1. t \notin Workers /\ t \notin Producers
      BY <2>2 DEF TypeOK
    <3> QED BY <1>6, <2>2, <3>1, GotoType DEF SpuriousWake, TypeOK
  <2>3. CASE pc[t] = "stopSleep" /\ Goto(t, "stopLock")
    <3>1. t \notin Workers /\ t \notin Producers
      BY <2>3 DEF TypeOK
    <3> QED BY <1>6, <2>3, <3>1, GotoType DEF SpuriousWake, TypeOK
  <2> QED BY <1>6, <2>1, <2>2, <2>3 DEF SpuriousWake
<1>7. CASE Rest \/ UNCHANGED vars
  BY <1>7 DEF Rest, vars, TypeOK
<1> QED BY <1>1, <1>2, <1>3, <1>4, <1>5, <1>6, <1>7 DEF Next

-----------------------------------------------------------------------------
(* A step that takes no worker into or out of the counted regions.          *)
LEMMA SameCounts ==
  ASSUME CountersExact,
         \A w \in Workers : /\ pc'[w] \in ActivePcs <=> pc[w] \in ActivePcs
                            /\ pc'[w] \in {"unborn", "start"}
                               <=> pc[w] \in {"unborn", "start"},
         UNCHANGED <<active, alive>>
  PROVE  CountersExact'
<1>1. Active' = Active /\ Registered' = Registered
  BY DEF Active, Registered
<1> QED BY <1>1 DEF CountersExact

(* Every step keeps the counters exact. *)
LEMMA CountersStep ==
  ASSUME TypeOK, CountersExact, [Next]_vars
  PROVE  CountersExact'
<1> USE DEF ActivePcs
<1>1. ASSUME NEW w \in Workers, Spawn(w)
      PROVE  CountersExact'
  BY <1>1, SameCounts DEF Spawn, Goto, TypeOK, Threads
<1>2. ASSUME NEW w \in Workers, WorkerStep(w)
      PROVE  CountersExact'
  <2>1. CASE WorkerStart(w)
    <3>1. /\ w \notin Registered
          /\ Registered' = Registered \union {w}
          /\ Active' = Active
      BY <2>1 DEF WorkerStart, Goto, Registered, Active, TypeOK, Threads
    <3>2. Cardinality(Registered') = Cardinality(Registered) + 1
      BY <3>1, ActiveFinite, CountOneMore
    <3> QED BY <2>1, <3>1, <3>2 DEF WorkerStart, CountersExact
  <2>2. CASE SemaphoreTake(w)
    BY <2>2, SameCounts DEF SemaphoreTake, AtSemaphore, Goto, TypeOK, Threads
  <2>3. CASE SemaphoreBlock(w)
    BY <2>3, SameCounts DEF SemaphoreBlock, AtSemaphore, Goto, TypeOK, Threads
  <2>4. CASE Activate(w)
    <3>1. /\ w \notin Active
          /\ Active' = Active \union {w}
          /\ Registered' = Registered
      BY <2>4 DEF Activate, Goto, Registered, Active, TypeOK, Threads
    <3>2. Cardinality(Active') = Cardinality(Active) + 1
      BY <3>1, ActiveFinite, CountOneMore
    <3> QED BY <2>4, <3>1, <3>2 DEF Activate, CountersExact
  <2>5. CASE DequeueJob(w)
    BY <2>5, SameCounts DEF DequeueJob, Goto, TypeOK, Threads
  <2>6. CASE DequeueNone(w)
    BY <2>6, SameCounts DEF DequeueNone, Goto, TypeOK, Threads
  <2>7. CASE Resignal(w)
    BY <2>7, SameCounts
       DEF Resignal, SemaphoreSignal, Sleeping, Goto, TypeOK, Threads
  <2>8. CASE Call(w)
    BY <2>8, SameCounts DEF Call, Goto, TypeOK, Threads
  <2>9. CASE Deactivate(w)
    <3>1. /\ w \in Active
          /\ Active' = Active \ {w}
          /\ Registered' = Registered
      BY <2>9, ThreadsAssumption
         DEF Deactivate, Goto, Registered, Active, TypeOK, Threads, Clients
    <3>2. Cardinality(Active') = Cardinality(Active) - 1
      BY <3>1, ActiveFinite, CountOneLess
    <3> QED BY <2>9, <3>1, <3>2 DEF Deactivate, CountersExact
  <2> QED BY <1>2, <2>1, <2>2, <2>3, <2>4, <2>5, <2>6, <2>7, <2>8, <2>9 DEF WorkerStep
<1>3. ASSUME NEW c \in Clients, NEW j \in Jobs, EnqueueAdd(c, j)
      PROVE  CountersExact'
  BY <1>3, ThreadsAssumption, SameCounts DEF EnqueueAdd, Goto, TypeOK, Threads
<1>4. ASSUME NEW c \in Clients, EnqueueSignal(c)
      PROVE  CountersExact'
  BY <1>4, ThreadsAssumption, SameCounts
     DEF EnqueueSignal, SemaphoreSignal, Sleeping, Goto, TypeOK, Threads
<1>5. ASSUME WaitCall \/ StopCall \/ MainStep
      PROVE  CountersExact'
  <2>1. /\ \A w \in Workers : pc'[w] = pc[w]
        /\ UNCHANGED <<active, alive>>
    BY <1>5, ThreadsAssumption
       DEF WaitCall, StopCall, MainStep, SpinDone, WaitReadLen, WaitReadActive,
           Stop, Free, Goto, TypeOK, Threads, Clients
  <2> QED BY <2>1, SameCounts
<1>6. ASSUME NEW t \in Threads, SpuriousWake(t)
      PROVE  CountersExact'
  <2>1. /\ pc[t] \in {"semSleep", "waitSleep", "stopSleep"}
        /\ pc'[t] \in {"semWoken", "waitLock", "stopLock"}
        /\ \A w \in Workers : w # t => pc'[w] = pc[w]
        /\ UNCHANGED <<active, alive>>
    BY <1>6 DEF SpuriousWake, Goto, TypeOK, Threads
  <2> QED BY <2>1, SameCounts
<1>7. CASE Rest \/ UNCHANGED vars
  BY <1>7, SameCounts DEF Rest, vars
<1> QED BY <1>1, <1>2, <1>3, <1>4, <1>5, <1>6, <1>7 DEF Next

LEMMA InitTypes == Init => TypeOK /\ CountersExact
<1> SUFFICES ASSUME Init
             PROVE  TypeOK /\ CountersExact
  OBVIOUS
<1>1. TypeOK
  <2>1. /\ pc \in [Threads -> WorkerPcs \union MainPcs]
        /\ \A w \in Workers : pc[w] \in WorkerPcs
        /\ \A p \in Producers : pc[p] \in ClientPcs
        /\ pc[Main] \in MainPcs
    BY ThreadsAssumption
       DEF Init, Threads, Clients, WorkerPcs, ClientPcs, MainPcs
  <2>2. jobs \in Seq(Jobs)
    BY DEF Init
  <2> QED BY <2>1, <2>2 DEF Init, TypeOK
<1>2. Active = {} /\ Registered = {}
  BY DEF Init, Active, Registered, ActivePcs, Threads
<1> QED BY <1>1, <1>2, FS_EmptySet DEF Init, CountersExact

(* Every variable keeps its type; in particular active_threads, a size_t,   *)
(* never goes below zero.                                                   *)
THEOREM TypeCorrect == Spec => []TypeOK
<1>1. Init => TypeOK /\ CountersExact
  BY InitTypes
<1>2. TypeOK /\ CountersExact /\ [Next]_vars => (TypeOK /\ CountersExact)'
  BY TypeStep, CountersStep
<1> QED BY <1>1, <1>2, PTL DEF Spec

(* alive_threads and active_threads count exactly the workers they are      *)
(* meant to count.                                                          *)
THEOREM CountersCorrect == Spec => []CountersExact
<1>1. TypeOK /\ CountersExact /\ [Next]_vars => (TypeOK /\ CountersExact)'
  BY TypeStep, CountersStep
<1> QED BY <1>1, InitTypes, PTL DEF Spec

-----------------------------------------------------------------------------
(* While a job is queued it stays watched: whoever takes a post becomes a   *)
(* watcher, and whoever stops watching has posted or found the list empty.  *)
LEMMA QueueWatchedStep ==
  ASSUME TypeOK, QueueWatched, [Next]_vars
  PROVE  QueueWatched'
<1>1. ASSUME NEW w \in Workers, WorkerStep(w)
      PROVE  QueueWatched'
  <2>1. w \in Threads /\ w \notin Clients
    BY ThreadsAssumption DEF Threads
  <2>2. CASE Resignal(w)
    BY <2>2 DEF Resignal, SemaphoreSignal, QueueWatched
  <2>3. CASE SemaphoreTake(w)
    BY <2>1, <2>3 DEF SemaphoreTake, QueueWatched, Goto, TypeOK
  <2>4. CASE Activate(w)
    BY <2>1, <2>4 DEF Activate, QueueWatched, Goto, TypeOK
  <2>5. CASE DequeueJob(w)
    BY <2>1, <2>5 DEF DequeueJob, QueueWatched, Goto, TypeOK
  <2>6. CASE DequeueNone(w)
    BY <2>6 DEF DequeueNone, QueueWatched
  <2>7. CASE WorkerStart(w) \/ SemaphoreBlock(w) \/ Call(w)
    <3>1. /\ pc[w] \notin {"activate", "dequeue", "enqSignal", "resignal"}
          /\ \A t \in Threads : t # w => pc'[t] = pc[t]
          /\ UNCHANGED <<jobs, val>>
      BY <2>1, <2>7 DEF WorkerStart, SemaphoreBlock, AtSemaphore, Call, Goto, TypeOK
    <3> QED BY <3>1 DEF QueueWatched, Threads
  <2>8. CASE Deactivate(w)
    <3>1. CASE Goto(w, "top")
      <4>1. /\ pc[w] = "deactivate"
            /\ \A t \in Threads : t # w => pc'[t] = pc[t]
            /\ UNCHANGED <<jobs, val>>
        BY <2>1, <2>8, <3>1 DEF Deactivate, Goto, TypeOK
      <4> QED BY <4>1 DEF QueueWatched, Threads
    <3>2. CASE /\ pc[Main] = "waitSleep"
               /\ pc' = [pc EXCEPT ![w] = "top", ![Main] = "waitLock"]
      <4>1. /\ pc[w] = "deactivate"
            /\ pc[Main] = "waitSleep"
            /\ \A t \in Threads : t # w /\ t # Main => pc'[t] = pc[t]
            /\ UNCHANGED <<jobs, val>>
        BY <2>1, <2>8, <3>2 DEF Deactivate, TypeOK
      <4> QED BY <4>1 DEF QueueWatched, Threads
    <3> QED BY <2>8, <3>1, <3>2 DEF Deactivate
  <2> QED BY <1>1, <2>2, <2>3, <2>4, <2>5, <2>6, <2>7, <2>8 DEF WorkerStep
<1>2. ASSUME NEW c \in Clients, NEW j \in Jobs, EnqueueAdd(c, j)
      PROVE  QueueWatched'
  <2>1. c \in Threads /\ pc'[c] = "enqSignal"
    BY <1>2 DEF EnqueueAdd, Goto, TypeOK, Threads
  <2> QED BY <2>1 DEF QueueWatched
<1>3. ASSUME NEW c \in Clients, EnqueueSignal(c)
      PROVE  QueueWatched'
  BY <1>3 DEF EnqueueSignal, SemaphoreSignal, QueueWatched
<1>4. CASE Free
  BY <1>4 DEF Free, QueueWatched
<1>5. ASSUME NEW t \in Threads,
             \/ Spawn(t) \/ SpuriousWake(t)
             \/ t = Main /\ (WaitCall \/ StopCall \/ SpinDone \/ WaitReadLen
                             \/ WaitReadActive \/ Stop)
      PROVE  QueueWatched'
  <2>1. /\ pc[t] \notin {"activate", "dequeue", "enqSignal", "resignal"}
        /\ \A u \in Threads : u # t => pc'[u] = pc[u]
        /\ UNCHANGED <<jobs, val>>
    BY <1>5 DEF Spawn, SpuriousWake, WaitCall, StopCall, SpinDone, WaitReadLen,
                WaitReadActive, Stop, Goto, TypeOK
  <2> QED BY <2>1 DEF QueueWatched, Threads
<1>6. CASE Rest \/ UNCHANGED vars
  BY <1>6 DEF Rest, vars, QueueWatched
<1> QED
  <2>1. Main \in Threads /\ Workers \subseteq Threads
    BY DEF Threads, Clients
  <2> QED BY <1>1, <1>2, <1>3, <1>4, <1>5, <1>6, <2>1 DEF Next, MainStep

(* A post is never pending while all workers sleep: a post wakes a sleeper  *)
(* if there is one, and no worker goes to sleep with a post pending.        *)
LEMMA PostSeenStep ==
  ASSUME TypeOK, PostSeen, [Next]_vars
  PROVE  PostSeen'
<1>1. ASSUME NEW t \in Threads, NEW next, next # "semSleep",
             pc[t] # "semSleep", SemaphoreSignal(t, next)
      PROVE  PostSeen'
  <2>1. CASE Sleeping = {} /\ Goto(t, next)
    <3>1. Sleeping' = {}
      BY <1>1, <2>1 DEF Sleeping, Goto, TypeOK, Threads
    <3> QED BY <3>1, ThreadsAssumption DEF PostSeen
  <2>2. ASSUME NEW w \in Sleeping, pc' = [pc EXCEPT ![t] = next, ![w] = "semWoken"]
        PROVE  PostSeen'
    <3>1. w \in Workers /\ w \notin Sleeping'
      BY <1>1, <2>2 DEF Sleeping, TypeOK, Threads
    <3> QED BY <3>1 DEF PostSeen
  <2> QED BY <1>1, <2>1, <2>2 DEF SemaphoreSignal
<1>2. ASSUME val' = val, \A w \in Workers : pc'[w] = "semSleep" => pc[w] = "semSleep"
      PROVE  PostSeen'
  <2>1. Sleeping' \subseteq Sleeping /\ Sleeping \subseteq Workers
    BY <1>2 DEF Sleeping
  <2> QED BY <1>2, <2>1 DEF PostSeen
<1>3. ASSUME NEW w \in Workers, WorkerStep(w)
      PROVE  PostSeen'
  <2>1. w \in Threads
    BY DEF Threads
  <2>2. CASE Resignal(w)
    BY <1>1, <2>1, <2>2 DEF Resignal
  <2>3. CASE SemaphoreTake(w)
    BY <2>3 DEF SemaphoreTake, PostSeen
  <2>4. CASE SemaphoreBlock(w)
    BY <2>4 DEF SemaphoreBlock, PostSeen
  <2>5. CASE Deactivate(w)
    BY <1>2, <2>1, <2>5, ThreadsAssumption
       DEF Deactivate, Goto, TypeOK, Threads, Clients
  <2>6. CASE WorkerStart(w) \/ Activate(w) \/ DequeueJob(w) \/ DequeueNone(w) \/ Call(w)
    BY <1>2, <2>1, <2>6
       DEF WorkerStart, Activate, DequeueJob, DequeueNone, Call, Goto, TypeOK, Threads
  <2> QED BY <1>3, <2>2, <2>3, <2>4, <2>5, <2>6 DEF WorkerStep
<1>4. ASSUME NEW c \in Clients, EnqueueSignal(c)
      PROVE  PostSeen'
  BY <1>1, <1>4 DEF EnqueueSignal, Threads
<1>5. ASSUME NEW t \in Threads,
             \/ Spawn(t) \/ SpuriousWake(t)
             \/ \E j \in Jobs : EnqueueAdd(t, j)
             \/ t = Main /\ (WaitCall \/ StopCall \/ MainStep)
      PROVE  PostSeen'
  <2>1. val' = val /\ \E to : to # "semSleep" /\ Goto(t, to)
    BY <1>5 DEF Spawn, SpuriousWake, EnqueueAdd, WaitCall, StopCall, MainStep, SpinDone,
                WaitReadLen, WaitReadActive, Stop, Free
  <2> QED BY <1>2, <2>1 DEF Goto, TypeOK, Threads
<1>6. CASE Rest \/ UNCHANGED vars
  BY <1>6 DEF Rest, vars, PostSeen, Sleeping
<1> QED
  <2>1. Main \in Threads /\ Workers \subseteq Threads /\ Clients \subseteq Threads
    BY DEF Threads, Clients
  <2> QED BY <1>3, <1>4, <1>5, <1>6, <2>1 DEF Next

(* Main sleeps on no_work only while something is left to end in a signal:  *)
(* the worker that takes the last job off the list is active, and the last  *)
(* active worker wakes Main.                                                *)
LEMMA WaitNotForgottenStep ==
  ASSUME TypeOK, CountersExact, WaitNotForgotten, [Next]_vars
  PROVE  WaitNotForgotten'
<1>1. ASSUME pc'[Main] = "waitSleep" => pc[Main] = "waitSleep",
             UNCHANGED <<jobs, active>>
      PROVE  WaitNotForgotten'
  BY <1>1 DEF WaitNotForgotten
<1>2. ASSUME NEW w \in Workers, WorkerStep(w)
      PROVE  WaitNotForgotten'
  <2>1. w \in Threads /\ w # Main /\ Main \in Threads
    BY ThreadsAssumption DEF Threads, Clients
  <2>2. CASE Activate(w)
    BY <2>2 DEF Activate, TypeOK, WaitNotForgotten
  <2>3. CASE DequeueJob(w)
    <3>1. w \in Active
      BY <2>3 DEF DequeueJob, Active, ActivePcs
    <3>2. active # 0
      BY <3>1, ActiveFinite, CountOneLess DEF CountersExact
    <3> QED BY <2>3, <3>2 DEF DequeueJob, WaitNotForgotten
  <2>4. CASE Deactivate(w)
    <3>1. CASE pc[Main] = "waitSleep" /\ active = 1
      <4>1. pc'[Main] = "waitLock"
        BY <2>1, <2>4, <3>1 DEF Deactivate, TypeOK
      <4> QED BY <4>1 DEF WaitNotForgotten
    <3>2. CASE ~(pc[Main] = "waitSleep" /\ active = 1)
      <4>1. pc'[Main] = pc[Main] /\ active' = active - 1 /\ jobs' = jobs
        BY <2>1, <2>4, <3>2 DEF Deactivate, Goto, TypeOK
      <4> QED BY <3>2, <4>1 DEF WaitNotForgotten, TypeOK
    <3> QED BY <3>1, <3>2
  <2>5. CASE Resignal(w)
    BY <1>1, <2>1, <2>5, ThreadsAssumption
       DEF Resignal, SemaphoreSignal, Sleeping, Goto, TypeOK, Clients
  <2>6. CASE \/ WorkerStart(w) \/ SemaphoreTake(w) \/ SemaphoreBlock(w)
             \/ DequeueNone(w) \/ Call(w)
    BY <1>1, <2>1, <2>6
       DEF WorkerStart, SemaphoreTake, SemaphoreBlock, DequeueNone, Call, Goto, TypeOK
  <2> QED BY <1>2, <2>2, <2>3, <2>4, <2>5, <2>6 DEF WorkerStep
<1>3. ASSUME NEW c \in Clients, NEW j \in Jobs, EnqueueAdd(c, j)
      PROVE  WaitNotForgotten'
  <2>1. jobs' # << >>
    BY <1>3, AppendElements DEF EnqueueAdd, TypeOK
  <2> QED BY <2>1 DEF WaitNotForgotten
<1>4. ASSUME NEW c \in Clients, EnqueueSignal(c)
      PROVE  WaitNotForgotten'
  BY <1>1, <1>4, ThreadsAssumption
     DEF EnqueueSignal, SemaphoreSignal, Sleeping, Goto, TypeOK, Threads, Clients
<1>5. CASE WaitReadLen
  BY <1>5 DEF WaitReadLen, Goto, TypeOK, WaitNotForgotten, Threads, Clients
<1>6. CASE WaitReadActive
  BY <1>6 DEF WaitReadActive, Goto, TypeOK, WaitNotForgotten, Threads, Clients
<1>7. CASE WaitCall \/ StopCall \/ SpinDone \/ Stop \/ Free
  BY <1>7 DEF WaitCall, StopCall, SpinDone, Stop, Free, Goto, TypeOK,
              WaitNotForgotten, Threads, Clients
<1>8. ASSUME NEW t \in Threads, Spawn(t) \/ SpuriousWake(t)
      PROVE  WaitNotForgotten'
  BY <1>1, <1>8 DEF Spawn, SpuriousWake, Goto, TypeOK, Threads, Clients
<1>9. CASE Rest \/ UNCHANGED vars
  BY <1>9 DEF Rest, vars, WaitNotForgotten
<1> QED
  <2>1. Workers \subseteq Threads
    BY DEF Threads
  <2> QED BY <1>2, <1>3, <1>4, <1>5, <1>6, <1>7, <1>8, <1>9, <2>1 DEF Next, MainStep

(* No wake-up is lost: a queued job is watched, a pending post is seen, and *)
(* a sleeping mboxWorkerPoolWait has a signal coming.                       *)
THEOREM NoLostWakeups == Spec => []NoWakeupLost
<1> DEFINE Inv == /\ TypeOK /\ CountersExact
                  /\ QueueWatched /\ PostSeen /\ WaitNotForgotten
<1>1. Init => Inv
  BY InitTypes, ThreadsAssumption
     DEF Init, QueueWatched, PostSeen, WaitNotForgotten, Threads, Clients
<1>2. Inv /\ [Next]_vars => Inv'
  BY TypeStep, CountersStep, QueueWatchedStep, PostSeenStep, WaitNotForgottenStep
<1>3. Inv => NoWakeupLost
  BY DEF NoWakeupLost
<1> QED BY <1>1, <1>2, <1>3, PTL DEF Spec

-----------------------------------------------------------------------------
(* No worker owns a job once active_threads is 0. *)
LEMMA InactiveHoldNothing ==
  ASSUME CountersExact, active = 0
  PROVE  Held = {}
<1>1. Active = {}
  BY ActiveFinite, FS_EmptySet DEF CountersExact
<1> QED BY <1>1 DEF Held, Active, ActivePcs, HoldingPcs

(* A worker that neither takes nor runs a job leaves the holders alone. *)
LEMMA SameHeld ==
  ASSUME \A w \in Workers : /\ pc'[w] \in HoldingPcs <=> pc[w] \in HoldingPcs
                            /\ pc[w] \in HoldingPcs => arg'[w] = arg[w]
  PROVE  Held' = Held
<1>1. \A w \in Workers : pc[w] \in HoldingPcs => arg'[w] = arg[w]
  OBVIOUS
<1>2. {w \in Workers : pc'[w] \in HoldingPcs} = {w \in Workers : pc[w] \in HoldingPcs}
  OBVIOUS
<1> QED BY <1>1, <1>2 DEF Held

(* A step that keeps the list, the holders and the counts of runs keeps all *)
(* that is said about jobs.                                                 *)
LEMMA SamePlaces ==
  ASSUME JobPlaces, HoldersHold,
         \A w \in Workers : /\ pc'[w] \in HoldingPcs <=> pc[w] \in HoldingPcs
                            /\ pc[w] \in HoldingPcs => arg'[w] = arg[w],
         UNCHANGED <<jobs, todo, runs>>
  PROVE  JobPlaces' /\ HoldersHold' /\ Held' = Held
<1>1. Held' = Held
  BY SameHeld
<1>2. Queued' = Queued /\ Ran' = Ran
  BY DEF Queued, Ran
<1>3. \A v, w \in Workers :
        pc'[v] \in HoldingPcs /\ pc'[w] \in HoldingPcs /\ arg'[v] = arg'[w] => v = w
  BY DEF JobPlaces
<1>4. HoldersHold'
  BY DEF HoldersHold
<1> QED BY <1>1, <1>2, <1>3, <1>4 DEF JobPlaces

(* What a step does to the jobs: nothing, or it enqueues, takes or runs     *)
(* one.  Free belongs to the first kind as long as the list is empty.       *)
Quiet ==
  /\ \A w \in Workers : /\ pc'[w] \in HoldingPcs <=> pc[w] \in HoldingPcs
                        /\ pc[w] \in HoldingPcs => arg'[w] = arg[w]
  /\ UNCHANGED <<jobs, todo, runs>>

LEMMA StepKinds ==
  ASSUME TypeOK, Free => jobs = << >>, [Next]_vars
  PROVE  \/ Quiet
         \/ \E c \in Clients, j \in Jobs : EnqueueAdd(c, j)
         \/ \E w \in Workers : DequeueJob(w) \/ Call(w)
<1> USE DEF HoldingPcs
<1>1. ASSUME NEW w \in Workers, WorkerStep(w)
      PROVE  Quiet \/ DequeueJob(w) \/ Call(w)
  <2>1. w \in Threads /\ w # Main /\ Main \in Threads /\ Main \notin Workers
    BY ThreadsAssumption DEF Threads, Clients
  <2>2. CASE Resignal(w)
    BY <2>1, <2>2 DEF Resignal, SemaphoreSignal, Sleeping, Quiet, Goto, TypeOK, Threads
  <2>3. CASE Deactivate(w)
    BY <2>1, <2>3 DEF Deactivate, Quiet, Goto, TypeOK, Threads
  <2>4. CASE \/ WorkerStart(w) \/ SemaphoreTake(w) \/ SemaphoreBlock(w)
             \/ Activate(w) \/ DequeueNone(w)
    BY <2>1, <2>4 DEF WorkerStart, SemaphoreTake, SemaphoreBlock, AtSemaphore, Activate,
                      DequeueNone, Quiet, Goto, TypeOK, Threads
  <2> QED BY <1>1, <2>2, <2>3, <2>4 DEF WorkerStep
<1>2. ASSUME NEW c \in Clients, EnqueueSignal(c)
      PROVE  Quiet
  BY <1>2, ThreadsAssumption
     DEF EnqueueSignal, SemaphoreSignal, Sleeping, Quiet, Goto, TypeOK, Threads
<1>3. CASE WaitCall \/ StopCall \/ SpinDone \/ WaitReadLen \/ WaitReadActive \/ Stop
  BY <1>3, ThreadsAssumption
     DEF WaitCall, StopCall, SpinDone, WaitReadLen, WaitReadActive, Stop, Quiet, Goto,
         TypeOK, Threads, Clients
<1>4. CASE Free
  BY <1>4, ThreadsAssumption DEF Free, Quiet, Goto, TypeOK, Threads, Clients
<1>5. ASSUME NEW t \in Threads, Spawn(t) \/ SpuriousWake(t)
      PROVE  Quiet
  BY <1>5 DEF Spawn, SpuriousWake, Quiet, Goto, TypeOK, Threads
<1>6. CASE Rest \/ UNCHANGED vars
  BY <1>6 DEF Rest, vars, Quiet
<1> QED
  <2>1. Workers \subseteq Threads
    BY DEF Threads
  <2> QED BY <1>1, <1>2, <1>3, <1>4, <1>5, <1>6, <2>1 DEF Next, MainStep

LEMMA EnqueueEffect ==
  ASSUME TypeOK, HoldersHold, JobPlaces, NEW c \in Clients, NEW j \in Jobs, EnqueueAdd(c, j)
  PROVE  /\ j \in todo /\ todo' = todo \ {j}
         /\ Queued' = Queued \union {j}
         /\ Held' = Held /\ Ran' = Ran
         /\ JobPlaces' /\ HoldersHold'
<1>1. /\ j \in todo /\ todo' = todo \ {j} /\ jobs' = Append(jobs, j)
      /\ UNCHANGED <<arg, runs>>
      /\ \A w \in Workers : pc'[w] = pc[w]
  BY ThreadsAssumption DEF EnqueueAdd, Goto, TypeOK, Threads
<1>2. Held' = Held
  BY <1>1, SameHeld
<1>3. Ran' = Ran
  BY <1>1 DEF Ran
<1>4. /\ Queued' = Queued \union {j}
      /\ j \notin Queued
      /\ \A a, b \in DOMAIN jobs' : jobs'[a] = jobs'[b] => a = b
  <2>1. jobs \in Seq(Jobs)
    BY DEF TypeOK
  <2>2. j \notin Queued
    BY <1>1 DEF JobPlaces
  <2>3. \A a, b \in DOMAIN jobs : jobs[a] = jobs[b] => a = b
    BY DEF JobPlaces
  <2> QED BY <1>1, <2>1, <2>2, <2>3, AppendElements DEF Queued
<1>5. HoldersHold'
  BY <1>1 DEF HoldersHold
<1>6. JobPlaces'
  <2>1. \A v, w \in Workers :
          pc'[v] \in HoldingPcs /\ pc'[w] \in HoldingPcs /\ arg'[v] = arg'[w] => v = w
    BY <1>1 DEF JobPlaces
  <2>2. \A k \in Jobs : runs'[k] <= 1
    BY <1>1 DEF JobPlaces
  <2> QED BY <1>1, <1>2, <1>3, <1>4, <2>1, <2>2 DEF JobPlaces
<1> QED BY <1>1, <1>2, <1>3, <1>4, <1>5, <1>6

LEMMA DequeueEffect ==
  ASSUME TypeOK, HoldersHold, JobPlaces, NEW w \in Workers, DequeueJob(w)
  PROVE  /\ jobs # << >> /\ jobs' = Tail(jobs)
         /\ Held' = Held \union {Head(jobs)}
         /\ todo' = todo /\ Ran' = Ran
         /\ JobPlaces' /\ HoldersHold'
<1>1. /\ jobs # << >> /\ jobs' = Tail(jobs) /\ jobs \in Seq(Jobs)
      /\ UNCHANGED <<todo, runs>>
      /\ pc[w] \notin HoldingPcs /\ pc'[w] \in HoldingPcs
      /\ arg'[w] = Head(jobs)
      /\ \A v \in Workers \ {w} : pc'[v] = pc[v] /\ arg'[v] = arg[v]
  BY DEF DequeueJob, Goto, TypeOK, Threads, HoldingPcs
<1>2. \A a, b \in DOMAIN jobs : jobs[a] = jobs[b] => a = b
  BY DEF JobPlaces
<1>3. /\ Head(jobs) \in Jobs
      /\ Queued = Queued' \union {Head(jobs)}
      /\ Head(jobs) \notin Queued'
      /\ \A a, b \in DOMAIN jobs' : jobs'[a] = jobs'[b] => a = b
  BY <1>1, <1>2, TailElements DEF Queued
<1>4. Held' = Held \union {Head(jobs)}
  BY <1>1 DEF Held
<1>5. Ran' = Ran
  BY <1>1 DEF Ran
<1>6. HoldersHold'
  BY <1>1, <1>3 DEF HoldersHold
<1>7. \A u, v \in Workers :
        pc'[u] \in HoldingPcs /\ pc'[v] \in HoldingPcs /\ arg'[u] = arg'[v] => u = v
  <2>1. \A v \in Workers \ {w} : pc'[v] \in HoldingPcs => arg'[v] # Head(jobs)
    <3>1. Head(jobs) \notin Held
      BY <1>3 DEF JobPlaces
    <3> QED BY <1>1, <3>1 DEF Held
  <2>2. \A u, v \in Workers \ {w} :
          pc'[u] \in HoldingPcs /\ pc'[v] \in HoldingPcs /\ arg'[u] = arg'[v] => u = v
    BY <1>1 DEF JobPlaces
  <2> QED BY <1>1, <2>1, <2>2
<1>8. JobPlaces'
  <2>1. \A k \in Jobs : runs'[k] <= 1
    BY <1>1 DEF JobPlaces
  <2> QED BY <1>1, <1>3, <1>4, <1>5, <1>7, <2>1 DEF JobPlaces
<1> QED BY <1>1, <1>4, <1>5, <1>6, <1>8

LEMMA CallEffect ==
  ASSUME TypeOK, HoldersHold, JobPlaces, NEW w \in Workers, Call(w)
  PROVE  /\ arg[w] \in Held
         /\ Held' = Held \ {arg[w]} /\ Ran' = Ran \union {arg[w]}
         /\ UNCHANGED <<jobs, todo>>
         /\ JobPlaces' /\ HoldersHold'
<1>1. /\ UNCHANGED <<jobs, todo>>
      /\ pc[w] \in HoldingPcs /\ pc'[w] \notin HoldingPcs
      /\ \A v \in Workers \ {w} : pc'[v] = pc[v] /\ arg'[v] = arg[v]
  BY DEF Call, Goto, TypeOK, Threads, HoldingPcs
<1>2. arg[w] \in Jobs /\ arg[w] \in Held
  BY <1>1 DEF HoldersHold, Held
<1>3. /\ runs'[arg[w]] = runs[arg[w]] + 1
      /\ \A k \in Jobs \ {arg[w]} : runs'[k] = runs[k]
      /\ runs[arg[w]] = 0
  <2>1. runs' = [runs EXCEPT ![arg[w]] = runs[arg[w]] + 1]
    BY DEF Call
  <2>2. arg[w] \notin Ran
    BY <1>2 DEF JobPlaces
  <2>3. runs[arg[w]] = 0
    BY <1>2, <2>2 DEF Ran, TypeOK
  <2> QED BY <1>2, <2>1, <2>3 DEF TypeOK
<1>4. Ran' = Ran \union {arg[w]}
  BY <1>2, <1>3 DEF Ran
<1>5. Held' = Held \ {arg[w]}
  <2>1. \A v \in Workers \ {w} : pc[v] \in HoldingPcs => arg[v] # arg[w]
    BY <1>1 DEF JobPlaces
  <2> QED BY <1>1, <2>1 DEF Held
<1>6. HoldersHold'
  BY <1>1 DEF HoldersHold
<1>7. JobPlaces'
  <2>1. \A k \in Jobs : runs'[k] <= 1
    BY <1>2, <1>3 DEF JobPlaces
  <2>2. \A u, v \in Workers :
          pc'[u] \in HoldingPcs /\ pc'[v] \in HoldingPcs /\ arg'[u] = arg'[v] => u = v
    BY <1>1 DEF JobPlaces
  <2>3. Queued' = Queued
    BY <1>1 DEF Queued
  <2> QED BY <1>1, <1>2, <1>4, <1>5, <2>1, <2>2, <2>3 DEF JobPlaces
<1> QED BY <1>1, <1>2, <1>4, <1>5, <1>6, <1>7

(* With a wait before every release, nothing is queued or held once a wait  *)
(* is over, and until the next enqueue.                                     *)
LEMMA WaitStep ==
  ASSUME IInv, EagerRelease = FALSE, [Next]_vars
  PROVE  WaitFindsNothing' /\ StopAfterWait'
<1> USE DEF IInv, StopPcs
<1>1. Free => jobs = << >>
  BY DEF Free, StopAfterWait, WaitFindsNothing
<1>2. ASSUME NEW c \in Clients, NEW j \in Jobs, EnqueueAdd(c, j)
      PROVE  WaitFindsNothing' /\ StopAfterWait'
  <2>1. waited' = FALSE /\ pc'[Main] \in ClientPcs
    BY <1>2 DEF EnqueueAdd, Goto, TypeOK, ClientPcs, Threads
  <2> QED BY <2>1 DEF WaitFindsNothing, StopAfterWait, ClientPcs
<1>3. ASSUME NEW w \in Workers, DequeueJob(w) \/ Call(w)
      PROVE  WaitFindsNothing' /\ StopAfterWait'
  <2>1. waited' = waited /\ pc'[Main] = pc[Main]
    BY <1>3, ThreadsAssumption DEF DequeueJob, Call, Goto, TypeOK, Threads, Clients
  <2>2. CASE DequeueJob(w)
    BY <2>1, <2>2 DEF DequeueJob, WaitFindsNothing, StopAfterWait
  <2>3. CASE Call(w)
    <3>1. Held' \subseteq Held /\ jobs' = jobs
      BY <2>3, CallEffect
    <3> QED BY <2>1, <3>1 DEF WaitFindsNothing, StopAfterWait
  <2> QED BY <1>3, <2>2, <2>3
<1>4. ASSUME Quiet
      PROVE  WaitFindsNothing' /\ StopAfterWait'
  <2>1. Held' = Held /\ jobs' = jobs
    BY <1>4, SamePlaces DEF Quiet
  <2>2. ASSUME NEW w \in Workers, WorkerStep(w)
        PROVE  WaitFindsNothing' /\ StopAfterWait'
    <3>1. /\ waited' = waited
          /\ pc'[Main] = pc[Main] \/ pc'[Main] = "waitLock"
      BY <2>2, ThreadsAssumption
         DEF WorkerStep, WorkerStart, SemaphoreTake, SemaphoreBlock, Activate, DequeueJob,
             DequeueNone, Resignal, SemaphoreSignal, Sleeping, Call, Deactivate, Goto,
             TypeOK, Threads, Clients
    <3> QED BY <2>1, <3>1 DEF WaitFindsNothing, StopAfterWait
  <2>3. ASSUME NEW c \in Clients, EnqueueSignal(c)
        PROVE  WaitFindsNothing' /\ StopAfterWait'
    <3>1. waited' = waited /\ (pc'[Main] = pc[Main] \/ pc'[Main] = "idle")
      BY <2>3, ThreadsAssumption
         DEF EnqueueSignal, SemaphoreSignal, Sleeping, Goto, TypeOK, Threads, Clients
    <3> QED BY <2>1, <3>1 DEF WaitFindsNothing, StopAfterWait
  <2>4. CASE WaitReadLen
    BY <2>1, <2>4 DEF WaitReadLen, Goto, TypeOK, Threads, Clients, WaitFindsNothing, StopAfterWait
  <2>5. CASE WaitReadActive
    <3>1. active = 0 => Held = {}
      BY InactiveHoldNothing
    <3> QED BY <2>1, <2>5, <3>1
            DEF WaitReadActive, Goto, TypeOK, Threads, Clients, WaitFindsNothing, StopAfterWait
  <2>6. CASE WaitCall \/ StopCall \/ SpinDone \/ Stop \/ Free
    <3>1. /\ waited' = waited
          /\ pc'[Main] # "waitActive"
          /\ pc'[Main] \in StopPcs => pc[Main] \in StopPcs \/ waited
      BY <2>6 DEF WaitCall, StopCall, SpinDone, Stop, Free, Goto, TypeOK, Threads, Clients
    <3> QED BY <2>1, <3>1 DEF WaitFindsNothing, StopAfterWait
  <2>7. ASSUME NEW t \in Threads, Spawn(t) \/ SpuriousWake(t)
        PROVE  WaitFindsNothing' /\ StopAfterWait'
    <3>1. /\ waited' = waited
          /\ pc'[Main] = "waitActive" => pc[Main] = "waitActive"
          /\ pc'[Main] \in StopPcs => pc[Main] \in StopPcs
      BY <2>7 DEF Spawn, SpuriousWake, Goto, TypeOK, Threads, Clients
    <3> QED BY <2>1, <3>1 DEF WaitFindsNothing, StopAfterWait
  <2>8. ASSUME NEW c \in Clients, NEW j \in Jobs, EnqueueAdd(c, j)
        PROVE  WaitFindsNothing' /\ StopAfterWait'
    BY <1>2, <2>8
  <2>9. CASE Rest \/ UNCHANGED vars
    BY <2>1, <2>9 DEF Rest, vars, WaitFindsNothing, StopAfterWait
  <2> QED
    <3>1. Workers \subseteq Threads
      BY DEF Threads
    <3> QED BY <2>2, <2>3, <2>4, <2>5, <2>6, <2>7, <2>8, <2>9, <3>1 DEF Next, MainStep
<1> QED BY <1>1, <1>2, <1>3, <1>4, StepKinds

LEMMA InitIInv == Init => IInv
<1> SUFFICES ASSUME Init
             PROVE  IInv
  OBVIOUS
<1>1. \A w \in Workers : pc[w] = "unborn"
  BY DEF Init, Threads
<1>2. Queued = {} /\ Held = {} /\ Ran = {}
  BY <1>1 DEF Init, Queued, Held, Ran, HoldingPcs
<1>3. pc[Main] = "spawn"
  BY ThreadsAssumption DEF Init, Threads, Clients
<1>4. JobPlaces /\ HoldersHold
  BY <1>1, <1>2 DEF Init, JobPlaces, HoldersHold, HoldingPcs
<1> QED BY <1>3, <1>4, InitTypes DEF Init, IInv, WaitFindsNothing, StopAfterWait, StopPcs

LEMMA IInvStep ==
  ASSUME IInv, EagerRelease = FALSE, [Next]_vars
  PROVE  IInv'
<1>1. TypeOK' /\ CountersExact'
  BY TypeStep, CountersStep DEF IInv
<1>2. WaitFindsNothing' /\ StopAfterWait'
  BY WaitStep
<1>3. JobPlaces' /\ HoldersHold'
  <2>1. Free => jobs = << >>
    BY DEF Free, IInv, StopAfterWait, WaitFindsNothing, StopPcs
  <2>2. CASE Quiet
    BY <2>2, SamePlaces DEF Quiet, IInv
  <2>3. CASE \E c \in Clients, j \in Jobs : EnqueueAdd(c, j)
    BY <2>3, EnqueueEffect DEF IInv
  <2>4. CASE \E w \in Workers : DequeueJob(w) \/ Call(w)
    BY <2>4, DequeueEffect, CallEffect DEF IInv
  <2> QED BY <2>1, <2>2, <2>3, <2>4, StepKinds DEF IInv
<1> QED BY <1>1, <1>2, <1>3 DEF IInv

(* No job is lost, held by two workers or run twice, when the pool is       *)
(* released only after a wait.                                              *)
THEOREM JobsConserved ==
  ASSUME EagerRelease = FALSE
  PROVE  Spec => []JobPlaces
<1>1. IInv /\ [Next]_vars => IInv'
  BY IInvStep
<1>2. IInv => JobPlaces
  BY DEF IInv
<1> QED BY <1>1, <1>2, InitIInv, PTL DEF Spec

(* mboxWorkerPoolWait returns only when every job handed over has run.      *)
THEOREM WaitCorrect ==
  ASSUME EagerRelease = FALSE
  PROVE  Spec => []WaitSound
<1>1. IInv /\ [Next]_vars => IInv'
  BY IInvStep
<1>2. IInv => WaitSound
  <2>1. jobs = << >> => Queued = {}
    BY DEF Queued
  <2> QED BY <2>1 DEF IInv, WaitFindsNothing, JobPlaces, WaitSound
<1> QED BY <1>1, <1>2, InitIInv, PTL DEF Spec

(* A step of the pool is a step of the abstract pool or invisible to it:    *)
(* enqueueing is Submit, taking a job is Begin, running it is Complete, and *)
(* Main's last look at active_threads is WaitReturn.                        *)
LEMMA RefinementStep ==
  ASSUME IInv, EagerRelease = FALSE, [Next]_vars
  PROVE  [Tasks!Next]_Tasks!vars
<1> USE DEF IInv, WaitPcs
<1>1. Free => jobs = << >>
  BY DEF Free, StopAfterWait, WaitFindsNothing, StopPcs
<1>2. ASSUME NEW c \in Clients, NEW j \in Jobs, EnqueueAdd(c, j)
      PROVE  Tasks!Submit(j)
  <2>1. pc[Main] \in ClientPcs /\ pc'[Main] \in ClientPcs
    BY <1>2 DEF EnqueueAdd, Goto, TypeOK, ClientPcs, Threads
  <2>2. ~(pc[Main] \in WaitPcs) /\ ~(pc'[Main] \in WaitPcs)
    BY <2>1 DEF ClientPcs
  <2>3. /\ j \in todo /\ todo' = todo \ {j}
        /\ Held' = Held /\ Ran' = Ran
    BY <1>2, EnqueueEffect
  <2>4. jobs' = Append(jobs, j)
    BY <1>2 DEF EnqueueAdd
  <2> QED BY <2>2, <2>3, <2>4 DEF Tasks!Submit
<1>3. ASSUME NEW w \in Workers, DequeueJob(w)
      PROVE  Tasks!Begin
  <2>1. pc'[Main] = pc[Main]
    BY <1>3, ThreadsAssumption DEF DequeueJob, Goto, TypeOK, Threads, Clients
  <2> QED BY <1>3, <2>1, DequeueEffect DEF Tasks!Begin
<1>4. ASSUME NEW w \in Workers, Call(w)
      PROVE  Tasks!Complete(arg[w]) /\ arg[w] \in Jobs
  <2>1. pc'[Main] = pc[Main]
    BY <1>4, ThreadsAssumption DEF Call, Goto, TypeOK, Threads, Clients
  <2>2. arg[w] \in Jobs
    BY <1>4 DEF Call, HoldersHold, HoldingPcs
  <2> QED BY <1>4, <2>1, <2>2, CallEffect DEF Tasks!Complete
<1>5. ASSUME Quiet
      PROVE  \/ UNCHANGED Tasks!vars \/ Tasks!WaitCall \/ Tasks!WaitReturn
  <2>1. Held' = Held /\ jobs' = jobs /\ todo' = todo /\ Ran' = Ran
    BY <1>5, SamePlaces DEF Quiet, Ran
  <2>2. CASE WaitCall
    BY <2>1, <2>2 DEF WaitCall, Goto, TypeOK, Threads, Clients, Tasks!WaitCall
  <2>3. CASE WaitReadActive
    <3>1. active = 0 => Held = {}
      BY InactiveHoldNothing
    <3> QED BY <2>1, <2>3, <3>1
            DEF WaitReadActive, Goto, TypeOK, Threads, Clients, WaitFindsNothing,
                Tasks!WaitReturn, Tasks!vars
  <2>4. ASSUME (pc[Main] \in WaitPcs) = (pc'[Main] \in WaitPcs)
        PROVE  UNCHANGED Tasks!vars
    BY <2>1, <2>4 DEF Tasks!vars
  <2>5. ASSUME NEW w \in Workers, WorkerStep(w)
        PROVE  UNCHANGED Tasks!vars
    <3>1. \/ pc'[Main] = pc[Main]
          \/ pc[Main] = "waitSleep" /\ pc'[Main] = "waitLock"
      BY <2>5, ThreadsAssumption
         DEF WorkerStep, WorkerStart, SemaphoreTake, SemaphoreBlock, Activate, DequeueJob,
             DequeueNone, Resignal, SemaphoreSignal, Sleeping, Call, Deactivate, Goto,
             TypeOK, Threads, Clients
    <3> QED BY <2>4, <3>1
  <2>6. ASSUME NEW c \in Clients, EnqueueSignal(c)
        PROVE  UNCHANGED Tasks!vars
    <3>1. pc'[Main] = pc[Main] \/ (pc[Main] = "enqSignal" /\ pc'[Main] = "idle")
      BY <2>6, ThreadsAssumption
         DEF EnqueueSignal, SemaphoreSignal, Sleeping, Goto, TypeOK, Threads, Clients
    <3> QED BY <2>4, <3>1
  <2>7. CASE WaitReadLen \/ StopCall \/ SpinDone \/ Stop \/ Free
    BY <2>4, <2>7
       DEF WaitReadLen, StopCall, SpinDone, Stop, Free, Goto, TypeOK, Threads, Clients
  <2>8. ASSUME NEW t \in Threads, Spawn(t) \/ SpuriousWake(t)
        PROVE  UNCHANGED Tasks!vars
    <3>1. \/ pc'[Main] = pc[Main]
          \/ pc[Main] \in {"unborn", "semSleep", "stopSleep"}
             /\ pc'[Main] \in {"start", "semWoken", "stopLock"}
          \/ pc[Main] = "waitSleep" /\ pc'[Main] = "waitLock"
      BY <2>8 DEF Spawn, SpuriousWake, Goto, TypeOK, Threads, Clients
    <3> QED BY <2>4, <3>1
  <2>9. CASE Rest \/ UNCHANGED vars
    BY <2>4, <2>9 DEF Rest, vars
  <2>10. ASSUME NEW c \in Clients, NEW j \in Jobs, EnqueueAdd(c, j)
         PROVE  FALSE
    BY <1>5, <2>10 DEF EnqueueAdd, Quiet
  <2> QED
    <3>1. Workers \subseteq Threads
      BY DEF Threads
    <3> QED BY <2>2, <2>3, <2>5, <2>6, <2>7, <2>8, <2>9, <2>10, <3>1 DEF Next, MainStep
<1> QED BY <1>1, <1>2, <1>3, <1>4, <1>5, StepKinds DEF Tasks!Next


(* The pool does what the abstract pool does: tasks begin in the order they *)
(* were submitted, run once, and a wait returns when none is left.          *)
THEOREM PoolRefinesTaskPool ==
  ASSUME EagerRelease = FALSE
  PROVE  Spec => Tasks!Spec
<1>1. Init => Tasks!Init
  <2> SUFFICES ASSUME Init
               PROVE  Tasks!Init
    OBVIOUS
  <2>1. \A w \in Workers : pc[w] = "unborn"
    BY DEF Init, Threads
  <2>2. Held = {} /\ Ran = {}
    BY <2>1 DEF Init, Held, Ran, HoldingPcs
  <2>3. pc[Main] = "spawn"
    BY ThreadsAssumption DEF Init, Threads, Clients
  <2> QED BY <2>2, <2>3 DEF Init, Tasks!Init, WaitPcs
<1>2. IInv /\ [Next]_vars => [Tasks!Next]_Tasks!vars
  BY RefinementStep
<1>3. IInv /\ [Next]_vars => IInv'
  BY IInvStep
<1> QED BY <1>1, <1>2, <1>3, InitIInv, PTL DEF Spec, Tasks!Spec
=============================================================================
