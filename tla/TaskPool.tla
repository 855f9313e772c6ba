------------------------------ MODULE TaskPool ------------------------------
(***************************************************************************)
(* What a client of src/mbox-worker.h may rely on, with no thread, lock or *)
(* semaphore in it: submitted tasks are begun in order, each is run once,  *)
(* and a wait returns only when none is pending or running.                *)
(***************************************************************************)
EXTENDS Sequences

CONSTANT Tasks        \* what a client may submit

VARIABLES
  fresh,              \* tasks no client has submitted yet
  pending,            \* tasks submitted and not begun, oldest first
  running,            \* tasks begun and not finished
  finished,           \* tasks that have run to their end
  waiting             \* is the owner of the pool inside a wait?

vars == <<fresh, pending, running, finished, waiting>>

Init ==
  /\ fresh = Tasks
  /\ pending = << >>
  /\ running = {}
  /\ finished = {}
  /\ waiting = FALSE

(* mboxWorkerPoolEnqueue *)
Submit(t) ==
  /\ t \in fresh
  /\ ~waiting
  /\ fresh' = fresh \ {t}
  /\ pending' = Append(pending, t)
  /\ UNCHANGED <<running, finished, waiting>>

(* some worker takes the oldest task *)
Begin ==
  /\ pending # << >>
  /\ running' = running \union {Head(pending)}
  /\ pending' = Tail(pending)
  /\ UNCHANGED <<fresh, finished, waiting>>

(* the callback has returned *)
Complete(t) ==
  /\ t \in running
  /\ running' = running \ {t}
  /\ finished' = finished \union {t}
  /\ UNCHANGED <<fresh, pending, waiting>>

(* mboxWorkerPoolWait *)
WaitCall ==
  /\ ~waiting
  /\ waiting' = TRUE
  /\ UNCHANGED <<fresh, pending, running, finished>>

WaitReturn ==
  /\ waiting
  /\ pending = << >>
  /\ running = {}
  /\ waiting' = FALSE
  /\ UNCHANGED <<fresh, pending, running, finished>>

Next ==
  \/ \E t \in Tasks : Submit(t) \/ Complete(t)
  \/ Begin
  \/ WaitCall \/ WaitReturn

Spec == Init /\ [][Next]_vars

FairSpec ==
  /\ Spec
  /\ WF_vars(Begin)
  /\ \A t \in Tasks : WF_vars(Complete(t))
  /\ WF_vars(WaitReturn)
=============================================================================
