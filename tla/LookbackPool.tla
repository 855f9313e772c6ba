---------------------------- MODULE LookbackPool ----------------------------
(***************************************************************************)
(* The pool of src/lookback-algorithm/workers.c, from which the library's  *)
(* own grew: one mutex, one list, a count of unfinished jobs, and workers   *)
(* that are joined when the pool is released.                               *)
(*                                                                         *)
(* Every critical section is one step, but for the last of a worker, whose *)
(* count of workers Main reads without the mutex.  has_work has idle       *)
(* workers asleep on it, and Main inside a release; no_work has Main inside *)
(* a wait.  The only client is Main, as in main.c.                          *)
(***************************************************************************)
EXTENDS Integers, Sequences, FiniteSets

CONSTANTS
  NumWorkers,       \* worker_count as given to workerPoolNew
  Jobs,             \* the jobs Main may enqueue, each once
  NoJob,            \* a NULL workerJob pointer
  EagerRelease,     \* may Main release the pool without a wait before it?
  SpuriousWakeups   \* may pthread_cond_wait return without a signal?

ASSUME WorkersAssumption == NumWorkers \in Nat \ {0}

ASSUME JobsAssumption == NoJob \notin Jobs

ASSUME SwitchAssumption == {EagerRelease, SpuriousWakeups} \subseteq BOOLEAN

Workers == 0 .. NumWorkers - 1

VARIABLES
  pc,             \* where each worker is
  main,           \* where Main is
  arg,            \* the job a worker has taken off the list and not yet run
  jobs,           \* pool->jobs
  job_count,      \* pool->job_count
  worker_count,   \* pool->worker_count
  run,            \* pool->run
  joined,         \* the index of the join loop
  todo,           \* jobs Main has not enqueued yet
  runs,           \* how many times each job's callback has run (history)
  waited          \* has workerPoolWait returned since the last enqueue? (history)

vars == <<pc, main, arg, jobs, job_count, worker_count, run, joined, todo, runs, waited>>

WorkerPcs == {"unborn", "top", "asleep", "woken", "call", "complete", "exiting", "exited"}
WaitPcs   == {"waitLock", "waitSleep"}
PastStop  == {"join", "joining", "stopped", "released"}
StopPcs   == {"stopLock", "stopSleep"} \union PastStop
MainPcs   == {"spawn", "idle"} \union WaitPcs \union StopPcs

Queued == {jobs[i] : i \in DOMAIN jobs}
Held   == {arg[w] : w \in {x \in Workers : pc[x] = "call"}}
Ran    == {j \in Jobs : runs[j] > 0}
Busy   == {w \in Workers : pc[w] \in {"call", "complete"}}
Gone   == {w \in Workers : pc[w] \in {"exiting", "exited"}}
Exited == {w \in Workers : pc[w] = "exited"}

Released == main = "released"

(* A worker that exits holds the mutex, which is gone once the pool is; by  *)
(* then Main takes it no more.                                              *)
CanLock == ~Released /\ \A w \in Workers : pc[w] # "exiting"

(* At the top of its loop a worker looks at run first; one that comes back  *)
(* from pthread_cond_wait re-checks only the condition of that wait.        *)
AtList(w) ==
  /\ CanLock
  /\ pc[w] \in {"top", "woken"}
  /\ pc[w] = "top" => run

-----------------------------------------------------------------------------
Init ==
  /\ pc = [w \in Workers |-> "unborn"]
  /\ main = "spawn"
  /\ arg = [w \in Workers |-> NoJob]
  /\ jobs = << >>
  /\ job_count = 0
  /\ worker_count = NumWorkers
  /\ run = TRUE
  /\ joined = 0
  /\ todo = Jobs
  /\ runs = [j \in Jobs |-> 0]
  /\ waited = FALSE

(* workerSpawn: the threads are created in order and run at once.           *)
Spawn(w) ==
  /\ main = "spawn"
  /\ pc[w] = "unborn"
  /\ \A v \in Workers : v < w => pc[v] # "unborn"
  /\ pc' = [pc EXCEPT ![w] = "top"]
  /\ main' = IF w = NumWorkers - 1 THEN "idle" ELSE "spawn"
  /\ UNCHANGED <<arg, jobs, job_count, worker_count, run, joined, todo, runs, waited>>

(* pthread_cond_broadcast on has_work, as far as the workers go.            *)
WokenAll == [w \in Workers |-> IF pc[w] = "asleep" THEN "woken" ELSE pc[w]]

(* pthread_cond_signal on no_work when `cond' holds: only Main sleeps there. *)
SignalNoWork(cond) ==
  main' = IF cond /\ main = "waitSleep" THEN "waitLock" ELSE main

-----------------------------------------------------------------------------
(* Faulty variants of the steps below: what each property is there to tell  *)
(* from the code.  They are not part of the specification.                  *)

(* The count of jobs is moved by a worker that had none, too. *)
TakeNoneCounts(w) ==
  /\ AtList(w)
  /\ ~(job_count = 0 /\ run)
  /\ jobs = << >>
  /\ pc' = [pc EXCEPT ![w] = "complete"]
  /\ UNCHANGED <<main, arg, jobs, job_count, worker_count, run, joined, todo, runs, waited>>

(* The count is decremented when the job is taken, not when it is done. *)
TakeCounts(w) ==
  /\ AtList(w)
  /\ ~(job_count = 0 /\ run)
  /\ jobs # << >>
  /\ arg' = [arg EXCEPT ![w] = Head(jobs)]
  /\ jobs' = Tail(jobs)
  /\ job_count' = job_count - 1
  /\ pc' = [pc EXCEPT ![w] = "call"]
  /\ UNCHANGED <<main, worker_count, run, joined, todo, runs, waited>>

(* A release does not wait for the jobs that are left. *)
StopAtOnce ==
  /\ main = "stopLock"
  /\ run' = FALSE
  /\ pc' = WokenAll
  /\ main' = "join"
  /\ UNCHANGED <<arg, jobs, job_count, worker_count, joined, todo, runs, waited>>

(* The sleepers are not told that the pool stops. *)
StopSilent ==
  /\ main = "stopLock"
  /\ job_count = 0
  /\ run' = FALSE
  /\ main' = "join"
  /\ UNCHANGED <<pc, arg, jobs, job_count, worker_count, joined, todo, runs, waited>>

-----------------------------------------------------------------------------
Enqueue(j) ==
  /\ main = "idle"
  /\ j \in todo
  /\ job_count' = job_count + 1
  /\ jobs' = Append(jobs, j)
  /\ todo' = todo \ {j}
  /\ pc' = WokenAll
  /\ waited' = FALSE
  /\ UNCHANGED <<main, arg, worker_count, run, joined, runs>>

-----------------------------------------------------------------------------
(* workerMain: the wait for work, and the three ways out of it.             *)
Sleep(w) ==
  /\ AtList(w)
  /\ job_count = 0 /\ run
  /\ pc' = [pc EXCEPT ![w] = "asleep"]
  /\ UNCHANGED <<main, arg, jobs, job_count, worker_count, run, joined, todo, runs, waited>>

Take(w) ==
  /\ AtList(w)
  /\ ~(job_count = 0 /\ run)
  /\ jobs # << >>
  /\ arg' = [arg EXCEPT ![w] = Head(jobs)]
  /\ jobs' = Tail(jobs)
  /\ pc' = [pc EXCEPT ![w] = "call"]
  /\ UNCHANGED <<main, job_count, worker_count, run, joined, todo, runs, waited>>

(* The list is empty while others still run its last jobs, or the pool has  *)
(* stopped: the worker goes round.                                          *)
TakeNone(w) ==
  /\ AtList(w)
  /\ ~(job_count = 0 /\ run)
  /\ jobs = << >>
  /\ pc' = [pc EXCEPT ![w] = "top"]
  /\ UNCHANGED <<main, arg, jobs, job_count, worker_count, run, joined, todo, runs, waited>>

(* The callback and onComplete, which are assumed to return.                *)
Call(w) ==
  /\ pc[w] = "call"
  /\ runs' = [runs EXCEPT ![arg[w]] = @ + 1]
  /\ arg' = [arg EXCEPT ![w] = NoJob]
  /\ pc' = [pc EXCEPT ![w] = "complete"]
  /\ UNCHANGED <<main, jobs, job_count, worker_count, run, joined, todo, waited>>

Complete(w) ==
  /\ pc[w] = "complete"
  /\ CanLock
  /\ job_count' = job_count - 1
  /\ SignalNoWork(run /\ job_count = 1)
  /\ pc' = [pc EXCEPT ![w] = "top"]
  /\ UNCHANGED <<arg, jobs, worker_count, run, joined, todo, runs, waited>>

(* From here to the unlock the worker holds the mutex.                      *)
Exit(w) ==
  /\ CanLock
  /\ pc[w] = "top"
  /\ ~run
  /\ worker_count' = worker_count - 1
  /\ SignalNoWork(job_count = 0)
  /\ pc' = [pc EXCEPT ![w] = "exiting"]
  /\ UNCHANGED <<arg, jobs, job_count, run, joined, todo, runs, waited>>

Unlock(w) ==
  /\ ~Released
  /\ pc[w] = "exiting"
  /\ pc' = [pc EXCEPT ![w] = "exited"]
  /\ UNCHANGED <<main, arg, jobs, job_count, worker_count, run, joined, todo, runs, waited>>

WorkerStep(w) ==
  \/ Sleep(w) \/ Take(w) \/ TakeNone(w)
  \/ Call(w) \/ Complete(w)
  \/ Exit(w) \/ Unlock(w)

-----------------------------------------------------------------------------
(* workerPoolWait.  Main waits at most once after its last enqueue.         *)
WaitCall ==
  /\ main = "idle"
  /\ ~waited
  /\ main' = "waitLock"
  /\ UNCHANGED <<pc, arg, jobs, job_count, worker_count, run, joined, todo, runs, waited>>

WaitTest ==
  /\ main = "waitLock"
  /\ main' = IF job_count # 0 THEN "waitSleep" ELSE "idle"
  /\ waited' = (job_count = 0)
  /\ UNCHANGED <<pc, arg, jobs, job_count, worker_count, run, joined, todo, runs>>

(* workerPoolRelease and workerPoolStop.  The wait is on has_work, which    *)
(* only an enqueue signals, and Main is the one that enqueues.              *)
StopCall ==
  /\ main = "idle"
  /\ waited \/ EagerRelease
  /\ main' = "stopLock"
  /\ UNCHANGED <<pc, arg, jobs, job_count, worker_count, run, joined, todo, runs, waited>>

StopBlock ==
  /\ main = "stopLock"
  /\ job_count # 0
  /\ main' = "stopSleep"
  /\ UNCHANGED <<pc, arg, jobs, job_count, worker_count, run, joined, todo, runs, waited>>

Stop ==
  /\ main = "stopLock"
  /\ job_count = 0
  /\ run' = FALSE
  /\ pc' = WokenAll
  /\ main' = "join"
  /\ UNCHANGED <<arg, jobs, job_count, worker_count, joined, todo, runs, waited>>

(* The loop reads worker_count, without the lock, before each join; when it *)
(* ends the count is 0, from which a worker that is not out takes one more  *)
(* (the size_t wraps: here below zero, and nobody reads it again).          *)
JoinTest ==
  /\ main = "join"
  /\ main' = IF joined < worker_count THEN "joining" ELSE "stopped"
  /\ worker_count' = IF joined < worker_count THEN worker_count ELSE 0
  /\ UNCHANGED <<pc, arg, jobs, job_count, run, joined, todo, runs, waited>>

(* The rest of workerPoolRelease: the mutex, the list and the pool go.      *)
Free ==
  /\ main = "stopped"
  /\ main' = "released"
  /\ UNCHANGED <<pc, arg, jobs, job_count, worker_count, run, joined, todo, runs, waited>>

Join ==
  /\ main = "joining"
  /\ pc[joined] = "exited"
  /\ joined' = joined + 1
  /\ main' = "join"
  /\ UNCHANGED <<pc, arg, jobs, job_count, worker_count, run, todo, runs, waited>>

(* pthread_cond_wait may return without a signal; every caller re-checks.   *)
SpuriousWake ==
  /\ SpuriousWakeups
  /\ \/ \E w \in Workers :
          /\ pc[w] = "asleep"
          /\ pc' = [pc EXCEPT ![w] = "woken"]
          /\ UNCHANGED main
     \/ /\ main = "waitSleep" /\ main' = "waitLock"
        /\ UNCHANGED pc
     \/ /\ main = "stopSleep" /\ main' = "stopLock"
        /\ UNCHANGED pc
  /\ UNCHANGED <<arg, jobs, job_count, worker_count, run, joined, todo, runs, waited>>

MainStep == WaitTest \/ StopBlock \/ Stop \/ JoinTest \/ Join \/ Free

Next ==
  \/ \E w \in Workers : Spawn(w) \/ WorkerStep(w)
  \/ \E j \in Jobs : Enqueue(j)
  \/ WaitCall \/ StopCall \/ MainStep
  \/ SpuriousWake

Spec == Init /\ [][Next]_vars

(* Every thread that can run does; Main is never forced to make a call.     *)
Fairness ==
  /\ \A w \in Workers : WF_vars(Spawn(w)) /\ WF_vars(WorkerStep(w))
  /\ WF_vars(MainStep)

FairSpec == Spec /\ Fairness
-----------------------------------------------------------------------------
TypeOK ==
  /\ pc \in [Workers -> WorkerPcs]
  /\ main \in MainPcs
  /\ arg \in [Workers -> Jobs \union {NoJob}]
  /\ jobs \in Seq(Jobs)
  /\ job_count \in Nat
  /\ worker_count \in Int
  /\ run \in BOOLEAN
  /\ joined \in Nat
  /\ todo \subseteq Jobs
  /\ runs \in [Jobs -> Nat]
  /\ waited \in BOOLEAN

(* job_count, a size_t moved up by Main and down by every worker, is the    *)
(* number of jobs in the list and in a worker's hands until it has told so: *)
(* workers that come for nothing must not touch it, or it wraps and no wait *)
(* returns.  Until the joins are over worker_count is the number of workers *)
(* that have not left their loop.                                           *)
CountsExact ==
  /\ job_count = Len(jobs) + Cardinality(Busy)
  /\ main \notin {"stopped", "released"} => worker_count + Cardinality(Gone) = NumWorkers

(* workerPoolWait returns only when every job handed over has run.          *)
WaitSound == waited => todo \union Ran = Jobs

(* workerPoolStop waits "for all jobs to complete" (workers.c:136): once it *)
(* has stopped the workers no job that was handed over is left in the list, *)
(* at work or lost, also in a release without a wait.                       *)
StopSound ==
  ~run => jobs = << >> /\ Busy = {} /\ todo \union Ran = Jobs

(* "and then destroy all of the workers in the pool" (workers.c:136-137):   *)
(* when the pool is freed every worker is out of it.  worker_count falls    *)
(* while the index of the join loop rises, and workers past the place where *)
(* they meet are not waited for.                                            *)
WorkersDestroyed == Released => Exited = Workers

(* The facts that make WaitSound and StopSound inductive: where each job    *)
(* is, what a finished wait and a stop leave, and how far the join loop has *)
(* come.                                                                    *)
JobPlaces ==
  /\ \A w \in Workers : pc[w] = "call" => arg[w] \in Jobs
  /\ \A j \in Jobs : runs[j] <= 1
  /\ \A a, b \in DOMAIN jobs : jobs[a] = jobs[b] => a = b
  /\ \A v, w \in Workers :
       pc[v] = "call" /\ pc[w] = "call" /\ arg[v] = arg[w] => v = w
  /\ todo \intersect (Queued \union Held \union Ran) = {}
  /\ Queued \intersect (Held \union Ran) = {}
  /\ Held \intersect Ran = {}
  /\ todo \union Queued \union Held \union Ran = Jobs

WaitFinds == waited \/ ~run => job_count = 0

StopPlace == run <=> main \notin PastStop

JoinLoop ==
  /\ joined <= NumWorkers
  /\ main = "joining" => joined < NumWorkers
  /\ \A w \in Workers : w < joined => pc[w] = "exited"

IInv ==
  /\ TypeOK
  /\ CountsExact
  /\ JobPlaces
  /\ WaitFinds
  /\ StopPlace
  /\ JoinLoop

(* A release after a wait returns: no worker sleeps through the broadcast.  *)
ReleaseReturns == main \in StopPcs /\ waited ~> Released

(* The prototype's pool implements the abstract one, too.                   *)
Tasks == INSTANCE TaskPool WITH
  Tasks <- Jobs,
  fresh <- todo,
  pending <- jobs,
  running <- Held,
  finished <- Ran,
  waiting <- main \in WaitPcs

ImplementsTaskPool == Tasks!FairSpec
=============================================================================
