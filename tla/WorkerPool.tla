----------------------------- MODULE WorkerPool -----------------------------
(***************************************************************************)
(* The thread pool of src/mbox-worker.c: a job list under qlock, a binary  *)
(* semaphore that parks idle workers, and the counters alive_threads and   *)
(* active_threads under lock.                                              *)
(*                                                                         *)
(* A critical section is one step, unless the code calls into another lock *)
(* or reads unprotected state while it holds the mutex: then the mutex has *)
(* an owner between the steps.  A condition variable is the set of threads *)
(* asleep on it; pthread_cond_signal moves one of them to its re-check.    *)
(*                                                                         *)
(* The clients are the threads of src/mbox.c: Main makes the pool, waits   *)
(* on it and releases it, and Producers (the io workers, when this is the  *)
(* parse pool) enqueue too, but never while Main waits or releases.        *)
(***************************************************************************)
EXTENDS Naturals, Sequences, FiniteSets

CONSTANTS
  Workers,          \* threads running mboxWorkerPoolMain
  Producers,        \* client threads other than Main that enqueue
  Main,             \* the thread that owns the pool
  Jobs,             \* the jobs the clients may enqueue, each once
  NoJob,            \* a NULL mboxWorkerJob pointer
  Nobody,           \* owner of a free mutex
  EagerRelease,     \* may Main release the pool without a wait before it?
  SpuriousWakeups   \* may pthread_cond_wait return without a signal?

Clients == Producers \union {Main}
Threads == Workers \union Clients

ASSUME ThreadsAssumption ==
  /\ IsFiniteSet(Workers) /\ Workers # {}
  /\ Workers \intersect Clients = {}
  /\ Main \notin Producers
  /\ Nobody \notin Threads

ASSUME JobsAssumption == NoJob \notin Jobs

ASSUME SwitchAssumption == {EagerRelease, SpuriousWakeups} \subseteq BOOLEAN

VARIABLES
  pc,       \* where each thread is
  arg,      \* the job a worker has taken off the list and not yet run
  jobs,     \* pool->jobs
  qlock,    \* owner of pool->qlock
  lock,     \* owner of pool->lock
  val,      \* sem->val
  alive,    \* pool->alive_threads
  active,   \* pool->active_threads
  todo,     \* jobs no client has enqueued yet
  runs,     \* how many times each job's callback has run (history)
  waited    \* has mboxWorkerPoolWait returned since the last enqueue? (history)

vars == <<pc, arg, jobs, qlock, lock, val, alive, active, todo, runs, waited>>

(* The pcs between which a worker counts as active, those in which it owns  *)
(* a job, and those in which Main is inside one of the pool's operations.   *)
ActivePcs  == {"dequeue", "resignal", "call", "deactivate"}
HoldingPcs == {"resignal", "call"}
ParkedPcs  == {"semSleep", "semWoken"}
WorkerPcs  == {"unborn", "start", "top", "activate"} \union ActivePcs \union ParkedPcs
WaitPcs    == {"waitLock", "waitActive", "waitSleep"}
StopPcs    == {"stopLock", "stopSleep", "join", "released"}
ClientPcs  == {"idle", "enqSignal"}
MainPcs    == {"spawn"} \union ClientPcs \union WaitPcs \union StopPcs

Queued == {jobs[i] : i \in DOMAIN jobs}
Held   == {arg[w] : w \in {x \in Workers : pc[x] \in HoldingPcs}}
Ran    == {j \in Jobs : runs[j] > 0}

Released == pc[Main] = "released"
Sleeping == {w \in Workers : pc[w] = "semSleep"}
Active   == {w \in Workers : pc[w] \in ActivePcs}
Registered == {w \in Workers : pc[w] \notin {"unborn", "start"}}

Goto(t, to) == pc' = [pc EXCEPT ![t] = to]

(* mboxSemaphoreWait: a worker that comes from the top of the loop reads    *)
(* pool->sem, one woken inside the wait only touches the semaphore.         *)
AtSemaphore(w) ==
  \/ pc[w] = "top" /\ ~Released
  \/ pc[w] = "semWoken"

-----------------------------------------------------------------------------
Init ==
  /\ pc = [t \in Threads |-> IF t \in Workers THEN "unborn"
                             ELSE IF t = Main THEN "spawn" ELSE "idle"]
  /\ arg = [w \in Workers |-> NoJob]
  /\ jobs = << >>
  /\ qlock = Nobody
  /\ lock = Nobody
  /\ val = 0
  /\ alive = 0
  /\ active = 0
  /\ todo = Jobs
  /\ runs = [j \in Jobs |-> 0]
  /\ waited = FALSE

(* workerSpawn: the threads are created one at a time and run at once.      *)
Spawn(w) ==
  /\ pc[Main] = "spawn"
  /\ pc[w] = "unborn"
  /\ Goto(w, "start")
  /\ UNCHANGED <<arg, jobs, qlock, lock, val, alive, active, todo, runs, waited>>

(* mboxWorkerPoolNew leaves its spin loop when every worker has registered. *)
SpinDone ==
  /\ pc[Main] = "spawn"
  /\ alive = Cardinality(Workers)
  /\ Goto(Main, "idle")
  /\ UNCHANGED <<arg, jobs, qlock, lock, val, alive, active, todo, runs, waited>>

-----------------------------------------------------------------------------
(* Faulty variants of the steps below: what each property is there to tell  *)
(* from the code.  They are not part of the specification.                  *)

(* The posts add up. *)
SemaphoreSignalCounts(t, next) ==
  /\ val' = val + 1
  /\ IF Sleeping = {}
       THEN Goto(t, next)
       ELSE \E w \in Sleeping : pc' = [pc EXCEPT ![t] = next, ![w] = "semWoken"]

(* The post stays pending after it was taken. *)
SemaphoreTakeKeeps(w) ==
  /\ AtSemaphore(w)
  /\ val = 1
  /\ Goto(w, "activate")
  /\ UNCHANGED <<arg, jobs, qlock, lock, val, alive, active, todo, runs, waited>>

(* The job stays in the list while it runs. *)
DequeueJobPeeks(w) ==
  /\ pc[w] = "dequeue"
  /\ ~Released
  /\ qlock = Nobody
  /\ jobs # << >>
  /\ qlock' = w
  /\ arg' = [arg EXCEPT ![w] = Head(jobs)]
  /\ Goto(w, "resignal")
  /\ UNCHANGED <<jobs, lock, val, alive, active, todo, runs, waited>>

(* A worker that found no job skips the second critical section. *)
DequeueNoneSkips(w) ==
  /\ pc[w] = "dequeue"
  /\ ~Released
  /\ qlock = Nobody
  /\ jobs = << >>
  /\ Goto(w, "top")
  /\ UNCHANGED <<arg, jobs, qlock, lock, val, alive, active, todo, runs, waited>>

(* The rest of the list is not handed on. *)
ResignalNever(w) ==
  /\ pc[w] = "resignal"
  /\ ~Released
  /\ qlock' = Nobody
  /\ Goto(w, "call")
  /\ UNCHANGED <<arg, jobs, lock, val, alive, active, todo, runs, waited>>

(* active_threads is compared before it is decremented. *)
DeactivateComparesFirst(w) ==
  /\ pc[w] = "deactivate"
  /\ ~Released
  /\ lock = Nobody
  /\ active' = active - 1
  /\ IF active = 0 /\ pc[Main] = "waitSleep"
       THEN pc' = [pc EXCEPT ![w] = "top", ![Main] = "waitLock"]
       ELSE Goto(w, "top")
  /\ UNCHANGED <<arg, jobs, qlock, lock, val, alive, todo, runs, waited>>

(* The wait looks at the list only. *)
WaitReadActiveIgnores ==
  /\ pc[Main] = "waitActive"
  /\ lock' = Nobody
  /\ waited' = TRUE
  /\ Goto(Main, "idle")
  /\ UNCHANGED <<arg, jobs, qlock, val, alive, active, todo, runs>>

-----------------------------------------------------------------------------
(* mboxSemaphoreSignal, called by t, which goes on at `next': pending posts *)
(* do not add up, and one sleeping worker, if there is one, is woken.       *)
SemaphoreSignal(t, next) ==
  /\ val' = 1
  /\ IF Sleeping = {}
       THEN Goto(t, next)
       ELSE \E w \in Sleeping : pc' = [pc EXCEPT ![t] = next, ![w] = "semWoken"]

(* mboxWorkerPoolEnqueue up to the signal: qlock is kept.                   *)
EnqueueAdd(c, j) ==
  /\ pc[c] = "idle"
  /\ pc[Main] \in ClientPcs
  /\ qlock = Nobody
  /\ j \in todo
  /\ qlock' = c
  /\ jobs' = Append(jobs, j)
  /\ todo' = todo \ {j}
  /\ waited' = FALSE
  /\ Goto(c, "enqSignal")
  /\ UNCHANGED <<arg, lock, val, alive, active, runs>>

EnqueueSignal(c) ==
  /\ pc[c] = "enqSignal"
  /\ SemaphoreSignal(c, "idle")
  /\ qlock' = Nobody
  /\ UNCHANGED <<arg, jobs, lock, alive, active, todo, runs, waited>>

-----------------------------------------------------------------------------
(* The worker registers itself before its loop.                             *)
WorkerStart(w) ==
  /\ pc[w] = "start"
  /\ lock = Nobody
  /\ alive' = alive + 1
  /\ Goto(w, "top")
  /\ UNCHANGED <<arg, jobs, qlock, lock, val, active, todo, runs, waited>>

(* mboxSemaphoreWait, with a post pending and without.                      *)
SemaphoreTake(w) ==
  /\ AtSemaphore(w)
  /\ val = 1
  /\ val' = 0
  /\ Goto(w, "activate")
  /\ UNCHANGED <<arg, jobs, qlock, lock, alive, active, todo, runs, waited>>

SemaphoreBlock(w) ==
  /\ AtSemaphore(w)
  /\ val # 1
  /\ Goto(w, "semSleep")
  /\ UNCHANGED <<arg, jobs, qlock, lock, val, alive, active, todo, runs, waited>>

Activate(w) ==
  /\ pc[w] = "activate"
  /\ ~Released
  /\ lock = Nobody
  /\ active' = active + 1
  /\ Goto(w, "dequeue")
  /\ UNCHANGED <<arg, jobs, qlock, lock, val, alive, todo, runs, waited>>

(* mboxWorkerPoolDequeue with a job: qlock is kept for the signal that      *)
(* hands the rest of the list to another worker.                            *)
DequeueJob(w) ==
  /\ pc[w] = "dequeue"
  /\ ~Released
  /\ qlock = Nobody
  /\ jobs # << >>
  /\ qlock' = w
  /\ arg' = [arg EXCEPT ![w] = Head(jobs)]
  /\ jobs' = Tail(jobs)
  /\ Goto(w, "resignal")
  /\ UNCHANGED <<lock, val, alive, active, todo, runs, waited>>

DequeueNone(w) ==
  /\ pc[w] = "dequeue"
  /\ ~Released
  /\ qlock = Nobody
  /\ jobs = << >>
  /\ Goto(w, "deactivate")
  /\ UNCHANGED <<arg, jobs, qlock, lock, val, alive, active, todo, runs, waited>>

Resignal(w) ==
  /\ pc[w] = "resignal"
  /\ ~Released
  /\ SemaphoreSignal(w, "call")
  /\ qlock' = Nobody
  /\ UNCHANGED <<arg, jobs, lock, alive, active, todo, runs, waited>>

(* The callback, which is assumed to return.                                *)
Call(w) ==
  /\ pc[w] = "call"
  /\ ~Released
  /\ runs' = [runs EXCEPT ![arg[w]] = @ + 1]
  /\ arg' = [arg EXCEPT ![w] = NoJob]
  /\ Goto(w, "deactivate")
  /\ UNCHANGED <<jobs, qlock, lock, val, alive, active, todo, waited>>

(* The last active worker signals no_work, on which only Main sleeps.       *)
Deactivate(w) ==
  /\ pc[w] = "deactivate"
  /\ ~Released
  /\ lock = Nobody
  /\ active' = active - 1
  /\ IF active = 1 /\ pc[Main] = "waitSleep"
       THEN pc' = [pc EXCEPT ![w] = "top", ![Main] = "waitLock"]
       ELSE Goto(w, "top")
  /\ UNCHANGED <<arg, jobs, qlock, lock, val, alive, todo, runs, waited>>

WorkerStep(w) ==
  \/ WorkerStart(w)
  \/ SemaphoreTake(w) \/ SemaphoreBlock(w)
  \/ Activate(w)
  \/ DequeueJob(w) \/ DequeueNone(w)
  \/ Resignal(w)
  \/ Call(w)
  \/ Deactivate(w)

-----------------------------------------------------------------------------
(* mboxWorkerPoolWait.  jobs->len is read without qlock: a stale non-zero   *)
(* value is possible only while the worker that emptied the list is still   *)
(* active, which sends Main to sleep by the other operand as well.  Main     *)
(* waits at most once after the last enqueue.                               *)
WaitCall ==
  /\ pc[Main] = "idle"
  /\ ~waited
  /\ \A p \in Producers : pc[p] = "idle"
  /\ Goto(Main, "waitLock")
  /\ UNCHANGED <<arg, jobs, qlock, lock, val, alive, active, todo, runs, waited>>

WaitReadLen ==
  /\ pc[Main] = "waitLock"
  /\ lock = Nobody
  /\ IF jobs # << >>
       THEN Goto(Main, "waitSleep") /\ UNCHANGED lock
       ELSE Goto(Main, "waitActive") /\ lock' = Main
  /\ UNCHANGED <<arg, jobs, qlock, val, alive, active, todo, runs, waited>>

WaitReadActive ==
  /\ pc[Main] = "waitActive"
  /\ lock' = Nobody
  /\ IF active # 0
       THEN Goto(Main, "waitSleep") /\ UNCHANGED waited
       ELSE Goto(Main, "idle") /\ waited' = TRUE
  /\ UNCHANGED <<arg, jobs, qlock, val, alive, active, todo, runs>>

(* mboxWorkerPoolRelease and mboxWorkerPoolStop.  The wait is on has_work,  *)
(* which no thread signals.  pthread_join on the detached workers returns   *)
(* an error at once, and a worker never reads pool->run, which Stop clears. *)
StopCall ==
  /\ pc[Main] = "idle"
  /\ \A p \in Producers : pc[p] = "idle"
  /\ waited \/ EagerRelease
  /\ Goto(Main, "stopLock")
  /\ UNCHANGED <<arg, jobs, qlock, lock, val, alive, active, todo, runs, waited>>

Stop ==
  /\ pc[Main] = "stopLock"
  /\ lock = Nobody
  /\ Goto(Main, IF active # 0 THEN "stopSleep" ELSE "join")
  /\ UNCHANGED <<arg, jobs, qlock, lock, val, alive, active, todo, runs, waited>>

(* The list and whatever it still holds are freed with the pool; the        *)
(* semaphore is not.                                                        *)
Free ==
  /\ pc[Main] = "join"
  /\ jobs' = << >>
  /\ Goto(Main, "released")
  /\ UNCHANGED <<arg, qlock, lock, val, alive, active, todo, runs, waited>>

(* pthread_cond_wait may return without a signal; every caller re-checks.   *)
SpuriousWake(t) ==
  /\ SpuriousWakeups
  /\ \/ pc[t] = "semSleep"  /\ Goto(t, "semWoken")
     \/ pc[t] = "waitSleep" /\ Goto(t, "waitLock")
     \/ pc[t] = "stopSleep" /\ Goto(t, "stopLock")
  /\ UNCHANGED <<arg, jobs, qlock, lock, val, alive, active, todo, runs, waited>>

(* The clients are done with the pool: the state in which it may rest.      *)
Rest ==
  /\ \/ pc[Main] = "idle" /\ todo = {} /\ waited
     \/ Released
  /\ UNCHANGED vars

MainStep == SpinDone \/ WaitReadLen \/ WaitReadActive \/ Stop \/ Free

Next ==
  \/ \E w \in Workers : Spawn(w) \/ WorkerStep(w)
  \/ \E c \in Clients, j \in Jobs : EnqueueAdd(c, j)
  \/ \E c \in Clients : EnqueueSignal(c)
  \/ WaitCall \/ StopCall \/ MainStep
  \/ \E t \in Threads : SpuriousWake(t)
  \/ Rest

Spec == Init /\ [][Next]_vars

(* Every thread that can run does; a client is never forced to make a call. *)
(* A thread that woke for nothing without end could keep a mutex from the   *)
(* others, so these wake-ups stop some time.                                *)
Fairness ==
  /\ \A w \in Workers : WF_vars(Spawn(w)) /\ WF_vars(WorkerStep(w))
  /\ \A c \in Clients : WF_vars(EnqueueSignal(c))
  /\ WF_vars(MainStep)
  /\ <>[][\A t \in Threads : ~SpuriousWake(t)]_vars

FairSpec == Spec /\ Fairness
-----------------------------------------------------------------------------
TypeOK ==
  /\ pc \in [Threads -> WorkerPcs \union MainPcs]
  /\ \A w \in Workers : pc[w] \in WorkerPcs
  /\ \A p \in Producers : pc[p] \in ClientPcs
  /\ pc[Main] \in MainPcs
  /\ arg \in [Workers -> Jobs \union {NoJob}]
  /\ jobs \in Seq(Jobs)
  /\ qlock \in Threads \union {Nobody}
  /\ lock \in {Main, Nobody}
  /\ val \in {0, 1}
  /\ alive \in Nat
  /\ active \in Nat
  /\ todo \subseteq Jobs
  /\ runs \in [Jobs -> Nat]
  /\ waited \in BOOLEAN

(* A job the clients have handed over is in one place: once in the list,    *)
(* with one worker, or it has run, once.  Two workers that race for the     *)
(* list, a list emptied under a worker's feet or a job freed with the list  *)
(* would show here.                                                         *)
JobPlaces ==
  /\ \A j \in Jobs : runs[j] <= 1
  /\ \A a, b \in DOMAIN jobs : jobs[a] = jobs[b] => a = b
  /\ \A v, w \in Workers :
       pc[v] \in HoldingPcs /\ pc[w] \in HoldingPcs /\ arg[v] = arg[w] => v = w
  /\ todo \intersect (Queued \union Held \union Ran) = {}
  /\ Queued \intersect (Held \union Ran) = {}
  /\ Held \intersect Ran = {}
  /\ todo \union Queued \union Held \union Ran = Jobs

(* active_threads, a size_t that every worker moves up and down, is exactly *)
(* the number of workers between their two critical sections: it cannot     *)
(* wrap below zero, and it cannot keep mboxWorkerPoolWait from returning.   *)
(* alive_threads, which New spins on, is the number that have registered.   *)
CountersExact ==
  /\ active = Cardinality(Active)
  /\ alive = Cardinality(Registered)

(* The semaphore is binary, so posts merge.  Still, while a job is queued   *)
(* there is a post pending, a worker that took one and has yet to look at   *)
(* the list, or a thread about to post with qlock in its hand.              *)
QueueWatched ==
  jobs # << >> =>
    \/ val = 1
    \/ \E w \in Workers : pc[w] \in {"activate", "dequeue"}
    \/ \E t \in Threads : pc[t] \in {"enqSignal", "resignal"}

(* A pending post never finds all the workers asleep: the wake-up that goes *)
(* with it is not lost.                                                     *)
PostSeen == val = 1 => Sleeping # Workers

(* While mboxWorkerPoolWait sleeps on no_work there is something left that  *)
(* ends in a signal of no_work, although the length of the list is read     *)
(* without the mutex that protects it.                                      *)
WaitNotForgotten ==
  pc[Main] = "waitSleep" => jobs # << >> \/ active # 0

(* No wake-up is lost, with a semaphore that merges posts, a dequeue that    *)
(* posts again and a wait that reads the length of the list without the     *)
(* mutex that protects it.                                                  *)
NoWakeupLost == QueueWatched /\ PostSeen /\ WaitNotForgotten

(* mboxWorkerPoolWait returns only when every job handed over has run, with *)
(* workers still between the semaphore and active_threads++ not counted.    *)
WaitSound == waited => todo \union Ran = Jobs

(* What is true of a wait under way, one that has returned and a release:   *)
(* the facts that make JobPlaces and WaitSound inductive.  The list is      *)
(* empty from the moment Wait reads its length, nobody holds a job once the *)
(* wait is over, and with a wait before every release Free drops no job.    *)
HoldersHold == \A w \in Workers : pc[w] \in HoldingPcs => arg[w] \in Jobs

WaitFindsNothing ==
  /\ pc[Main] = "waitActive" => jobs = << >>
  /\ waited => jobs = << >> /\ Held = {}

StopAfterWait == pc[Main] \in StopPcs => waited

IInv ==
  /\ TypeOK
  /\ CountersExact
  /\ HoldersHold
  /\ WaitFindsNothing
  /\ StopAfterWait
  /\ JobPlaces

-----------------------------------------------------------------------------
(* With nothing left to do the workers all park: the posts made on behalf   *)
(* of an empty list die out instead of waking one worker after another.     *)
PoolQuiesces ==
  (\A j \in Jobs : runs[j] = 1) ~> (Sleeping = Workers \/ Released)

(* The detailed pool implements the abstract one: with the fairness of      *)
(* TaskPool a wait returns, and every job handed over runs in its turn.     *)
Tasks == INSTANCE TaskPool WITH
  Tasks <- Jobs,
  fresh <- todo,
  pending <- jobs,
  running <- Held,
  finished <- Ran,
  waiting <- pc[Main] \in WaitPcs

(* TaskPool with its fairness, for the checker to name.                     *)
ImplementsTaskPool == Tasks!FairSpec

-----------------------------------------------------------------------------
(* What the comment above mboxWorkerPoolStop says, that it destroys the      *)
(* workers once the jobs are done: the call returns from its wait for the   *)
(* active ones.                                                             *)
StopReturns == pc[Main] = "stopSleep" ~> Released
=============================================================================
