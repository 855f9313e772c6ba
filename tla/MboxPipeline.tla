---------------------------- MODULE MboxPipeline ----------------------------
(***************************************************************************)
(* mboxParse and mboxRelease of src/mbox.c: the thread of the caller splits *)
(* the file among the contexts, the workers of io_pool scan them, and hand *)
(* every message they find to parse_pool, whose workers add it to           *)
(* completed_parse.                                                        *)
(*                                                                         *)
(* Both pools are instances of TaskPool, which WorkerPool implements when   *)
(* nobody enqueues during a wait; that, and that the pools are idle when    *)
(* they are released, is for this module to show.  A position in the file   *)
(* is the number of the message that begins there, and the scan of a        *)
(* context finds those from its offset to its end_offset, which MboxScan    *)
(* shows of the code under the conditions it names.                         *)
(***************************************************************************)
EXTENDS Naturals, Sequences, FiniteSets

CONSTANTS
  Contexts,       \* io_pool->worker_count, one context each
  ParseThreads,   \* parse_pool->worker_count
  Messages        \* how many messages the file holds

ASSUME CountsAssumption ==
  /\ Contexts \in Nat \ {0}
  /\ ParseThreads \in Nat \ {0}
  /\ Messages \in Nat \ {0}

EndOfFile  == Messages + 1
Unset      == 0
Positions  == 1 .. EndOfFile
IoTasks    == {"seek", "scan"} \X (1 .. Contexts)
ParseTasks == (1 .. Contexts) \X (1 .. Messages)

VARIABLES
  pc,             \* where the caller's thread is
  next,           \* the context it enqueues next
  contexts,       \* m->contexts, the first context_len of them
  completed,      \* m->completed_parse: a task per message, by its position
  ioFresh, ioPending, ioRunning, ioFinished, ioWaiting,     \* io_pool
  fresh, pending, running, finished, waiting                \* parse_pool

caller == <<pc, next>>
io     == <<ioFresh, ioPending, ioRunning, ioFinished, ioWaiting>>
parse  == <<fresh, pending, running, finished, waiting>>
vars   == <<caller, contexts, completed, io, parse>>

IoPool == INSTANCE TaskPool WITH
  Tasks <- IoTasks, fresh <- ioFresh, pending <- ioPending,
  running <- ioRunning, finished <- ioFinished, waiting <- ioWaiting

ParsePool == INSTANCE TaskPool WITH Tasks <- ParseTasks

IoIdle    == ioPending = << >> /\ ioRunning = {}
ParseIdle == pending = << >> /\ running = {}

-----------------------------------------------------------------------------
Placed(k) == 1 + (k - 1) * (Messages \div Contexts)

(* The file may hold no From line that the seek of a context can meet on    *)
(* its way back, up to and in the first block, which it then reads again    *)
(* and again; the one of the context placed at 0 meets the first message.   *)
Init ==
  /\ pc = "seek"
  /\ next = 1
  /\ \E lost \in SUBSET (2 .. Contexts) :
       contexts = [k \in 1 .. Contexts |->
                     [start |-> Placed(k), end |-> Unset,
                      offset |-> Placed(k), done |-> FALSE, lost |-> k \in lost]]
  /\ completed = << >>
  /\ IoPool!Init
  /\ ParsePool!Init

-----------------------------------------------------------------------------
(* Faulty variants of the steps below, one for each property to detect.     *)

(* The offsets are set without a wait for the seeks. *)
SeekWaitReturnEarly ==
  /\ pc = "seekWait"
  /\ ioWaiting' = FALSE
  /\ pc' = "offsets"
  /\ UNCHANGED <<next, contexts, completed, parse>>
  /\ UNCHANGED <<ioFresh, ioPending, ioRunning, ioFinished>>

(* The offset of a context is not reset to where its seek ended. *)
WithEndsKeepsOffset(cs) ==
  [k \in 1 .. Len(cs) |->
     [cs[k] EXCEPT !.end = IF k = Len(cs) THEN EndOfFile ELSE cs[k + 1].start]]

(* mboxParse waits for the parsers alone. *)
IoWaitReturnEarly ==
  /\ pc = "ioWait"
  /\ ioWaiting' = FALSE
  /\ pc' = "drain"
  /\ UNCHANGED <<next, contexts, completed, parse>>
  /\ UNCHANGED <<ioFresh, ioPending, ioRunning, ioFinished>>

(* A scan never finds that it has reached its end. *)
ScanEndNever(k) ==
  /\ <<"scan", k>> \in ioRunning
  /\ contexts[k].done /\ contexts[k].offset > contexts[k].end
  /\ IoPool!Complete(<<"scan", k>>)
  /\ UNCHANGED <<caller, contexts, completed, parse>>

-----------------------------------------------------------------------------
(* mboxSetAllOffsets enqueues a seek for each context and waits for them.   *)
EnqueueSeek ==
  /\ pc = "seek"
  /\ next <= Contexts
  /\ IoPool!Submit(<<"seek", next>>)
  /\ next' = next + 1
  /\ UNCHANGED <<pc, contexts, completed, parse>>

SeekWait ==
  /\ pc = "seek"
  /\ next > Contexts
  /\ IoPool!WaitCall
  /\ pc' = "seekWait"
  /\ UNCHANGED <<next, contexts, completed, parse>>

SeekWaitReturn ==
  /\ pc = "seekWait"
  /\ IoPool!WaitReturn
  /\ pc' = "offsets"
  /\ UNCHANGED <<next, contexts, completed, parse>>

(* Then each context ends where the next one starts, and those that would   *)
(* parse nothing are filtered out of the array.  The offset of the first    *)
(* context is left as it was, unless it is the last one too.                *)
WithEnds(cs) ==
  [k \in 1 .. Len(cs) |->
     [cs[k] EXCEPT
        !.end    = IF k = Len(cs) THEN EndOfFile ELSE cs[k + 1].start,
        !.offset = IF k = 1 /\ k # Len(cs) THEN @ ELSE cs[k].start]]

ParsesSomething(c) == c.start < c.end

(* The context that has k - 1 such before it is moved to be the kth.        *)
Kept(cs) ==
  LET kept   == {i \in 1 .. Len(cs) : ParsesSomething(cs[i])}
      nth(k) == CHOOSE i \in kept : Cardinality({j \in kept : j <= i}) = k
  IN  [k \in 1 .. Cardinality(kept) |-> cs[nth(k)]]

SetOffsets ==
  /\ pc = "offsets"
  /\ contexts' = Kept(WithEnds(contexts))
  /\ next' = 1
  /\ pc' = "scan"
  /\ UNCHANGED <<completed, io, parse>>

(* mboxParseAllMessages *)
EnqueueScan ==
  /\ pc = "scan"
  /\ next <= Len(contexts)
  /\ IoPool!Submit(<<"scan", next>>)
  /\ next' = next + 1
  /\ UNCHANGED <<pc, contexts, completed, parse>>

IoWait ==
  /\ pc = "scan"
  /\ next > Len(contexts)
  /\ IoPool!WaitCall
  /\ pc' = "ioWait"
  /\ UNCHANGED <<next, contexts, completed, parse>>

IoWaitReturn ==
  /\ pc = "ioWait"
  /\ IoPool!WaitReturn
  /\ pc' = "drain"
  /\ UNCHANGED <<next, contexts, completed, parse>>

ParseWait ==
  /\ pc = "drain"
  /\ ParsePool!WaitCall
  /\ pc' = "parseWait"
  /\ UNCHANGED <<next, contexts, completed, io>>

ParseWaitReturn ==
  /\ pc = "parseWait"
  /\ ParsePool!WaitReturn
  /\ pc' = "parsed"
  /\ UNCHANGED <<next, contexts, completed, io>>

(* mboxRelease frees the list, the pools and the contexts. *)
Release ==
  /\ pc = "parsed"
  /\ pc' = "released"
  /\ completed' = << >>
  /\ contexts' = << >>
  /\ UNCHANGED <<next, io, parse>>

-----------------------------------------------------------------------------
(* A worker of io_pool takes a job: at most one for each worker runs.       *)
IoBegin ==
  /\ Cardinality(ioRunning) < Contexts
  /\ IoPool!Begin
  /\ UNCHANGED <<caller, contexts, completed, parse>>

(* mboxParserCtxSeekStartCallback leaves the context at some From line; the *)
(* one of the context placed at 0 is that of the first message.  The job of *)
(* a context that meets none runs on for ever.                              *)
Seek(k) ==
  /\ <<"seek", k>> \in ioRunning
  /\ ~contexts[k].lost
  /\ \E p \in 1 .. Messages :
       /\ k = 1 => p = 1
       /\ contexts' = [contexts EXCEPT ![k].start = p]
  /\ IoPool!Complete(<<"seek", k>>)
  /\ UNCHANGED <<caller, completed, parse>>

SeekOn(k) ==
  /\ <<"seek", k>> \in ioRunning
  /\ contexts[k].lost
  /\ UNCHANGED vars

(* mboxParserCtxGetNextMessageCallback enqueues one message after another,  *)
(* and the one at which a context finds that it has reached its end too.    *)
ScanNext(k) ==
  /\ <<"scan", k>> \in ioRunning
  /\ ~contexts[k].done /\ contexts[k].offset <= Messages
  /\ ParsePool!Submit(<<k, contexts[k].offset>>)
  /\ contexts' = [contexts EXCEPT ![k].offset = @ + 1,
                                 ![k].done = contexts[k].offset + 1 >= contexts[k].end]
  /\ UNCHANGED <<caller, completed, io>>

ScanEnd(k) ==
  /\ <<"scan", k>> \in ioRunning
  /\ contexts[k].done \/ contexts[k].offset > Messages
  /\ IoPool!Complete(<<"scan", k>>)
  /\ UNCHANGED <<caller, contexts, completed, parse>>

ParseBegin ==
  /\ Cardinality(running) < ParseThreads
  /\ ParsePool!Begin
  /\ UNCHANGED <<caller, contexts, completed, io>>

(* mboxIOMsgParseCallback adds the message under the lock of the list. *)
Parse(t) ==
  /\ ParsePool!Complete(t)
  /\ completed' = Append(completed, t)
  /\ UNCHANGED <<caller, contexts, io>>

CallerStep ==
  \/ EnqueueSeek \/ SeekWait \/ SeekWaitReturn
  \/ SetOffsets
  \/ EnqueueScan \/ IoWait \/ IoWaitReturn
  \/ ParseWait \/ ParseWaitReturn

IoStep(k) == Seek(k) \/ ScanNext(k) \/ ScanEnd(k)

Next ==
  \/ CallerStep \/ Release
  \/ IoBegin \/ \E k \in 1 .. Contexts : IoStep(k) \/ SeekOn(k)
  \/ ParseBegin \/ \E t \in ParseTasks : Parse(t)
  \/ pc = "released" /\ UNCHANGED vars

Spec == Init /\ [][Next]_vars

(* Fairness of the caller's thread until mboxParse returns, and of the      *)
(* workers; the pools' own fairness is what the run Pool shows of them.     *)
FairSpec ==
  /\ Spec
  /\ WF_vars(CallerStep)
  /\ WF_vars(IoBegin)
  /\ \A k \in 1 .. Contexts : WF_vars(IoStep(k))
  /\ WF_vars(ParseBegin)
  /\ \A t \in ParseTasks : WF_vars(Parse(t))
-----------------------------------------------------------------------------
Context == [start : 1 .. Messages, end : Positions \union {Unset},
            offset : Positions, done : BOOLEAN, lost : BOOLEAN]

TypeOK ==
  /\ pc \in {"seek", "seekWait", "offsets", "scan", "ioWait", "drain",
             "parseWait", "parsed", "released"}
  /\ next \in 1 .. Contexts + 1
  /\ contexts \in Seq(Context)
  /\ Len(contexts) <= Contexts
  /\ completed \in Seq(ParseTasks)
  /\ ioFresh \union ioRunning \union ioFinished \subseteq IoTasks
  /\ ioPending \in Seq(IoTasks)
  /\ fresh \union running \union finished \subseteq ParseTasks
  /\ pending \in Seq(ParseTasks)
  /\ {ioWaiting, waiting} \subseteq BOOLEAN

(* What WorkerPool takes for granted of its clients.  While the caller      *)
(* waits for the parse pool and from then on no io worker is left that      *)
(* could enqueue to it; when mboxRelease frees the pools, both are idle.    *)
ClientsKeepOff ==
  /\ pc \in {"parseWait", "parsed", "released"} => IoIdle
  /\ pc \in {"parsed", "released"} => ParseIdle

(* The inductive invariant.  The io workers have nothing left from the      *)
(* return of the caller's wait for them on, and while it sets the offsets.  *)
WorkersDone == ClientsKeepOff /\ (pc \in {"offsets", "drain"} => IoIdle)

Elements(s) == {s[i] : i \in DOMAIN s}
IoLeft      == Elements(ioPending) \union ioRunning

Seeking  == pc \in {"seek", "seekWait", "offsets"}
Scanning == pc \in {"scan", "ioWait", "drain", "parseWait", "parsed"}

(* A job is of the caller's phase, and points into the array.               *)
JobsOfPhase ==
  /\ Seeking  => IoLeft \subseteq {"seek"} \X (1 .. Contexts)
  /\ Scanning => IoLeft \subseteq {"scan"} \X (1 .. Len(contexts))

(* Until the offsets are set the whole array is there, the first context    *)
(* begins with the first message, and no message has been handed on.        *)
SeekState ==
  Seeking =>
    /\ Len(contexts) = Contexts
    /\ contexts[1].start = 1 /\ contexts[1].offset = 1
    /\ \A k \in 1 .. Contexts : ~contexts[k].done
    /\ fresh = ParseTasks

(* Then each context has handed on what lies between its start and its      *)
(* offset, and is done when that is all up to its end.                      *)
HandedOn(k) ==
  /\ contexts[k].start < contexts[k].end
  /\ contexts[k].start <= contexts[k].offset /\ contexts[k].offset <= contexts[k].end
  /\ contexts[k].done <=> contexts[k].offset = contexts[k].end
  /\ \A p \in 1 .. Messages :
       <<k, p>> \notin fresh <=> contexts[k].start <= p /\ p < contexts[k].offset

ScanState ==
  Scanning =>
    /\ \A k \in 1 .. Len(contexts) : HandedOn(k)
    /\ \A t \in ParseTasks : t[1] > Len(contexts) => t \in fresh

(* A context whose scan was enqueued has it before it, or is done.          *)
ScansLeft ==
  Scanning => \A k \in 1 .. Len(contexts) :
                (pc = "scan" => k < next) => contexts[k].done \/ <<"scan", k>> \in IoLeft

(* The contexts that are kept have every message between them.              *)
Covered ==
  Scanning => \A m \in 1 .. Messages : \E k \in 1 .. Len(contexts) :
                contexts[k].start <= m /\ m < contexts[k].end

(* A message is in one place of the parse pool, and in completed_parse when *)
(* its parser has ended.                                                    *)
MessagePlaces ==
  /\ fresh \union Elements(pending) \union running \union finished = ParseTasks
  /\ fresh \intersect (Elements(pending) \union running \union finished) = {}
  /\ Elements(pending) \intersect (running \union finished) = {}
  /\ running \intersect finished = {}
  /\ \A i, j \in DOMAIN pending : pending[i] = pending[j] => i = j
  /\ pc # "released" =>
       /\ Elements(completed) = finished
       /\ \A i, j \in DOMAIN completed : completed[i] = completed[j] => i = j

IInv ==
  /\ TypeOK
  /\ WorkersDone
  /\ JobsOfPhase
  /\ SeekState
  /\ ScanState
  /\ ScansLeft
  /\ Covered
  /\ MessagePlaces

(* The array of contexts, into whose elements the queued jobs point, is cut *)
(* and its elements moved and given their ends only while no job that was   *)
(* handed one of them is left.                                              *)
ArrayMovedAlone ==
  [][(\/ Len(contexts') # Len(contexts)
      \/ \E k \in 1 .. Len(contexts) : contexts'[k].end # contexts[k].end)
     => IoIdle]_vars

EachOnce ==
  /\ Len(completed) = Messages
  /\ {completed[i][2] : i \in DOMAIN completed} = 1 .. Messages

(* Seeks that end out of order leave contexts that overlap.                 *)
Disjoint == \A k \in 2 .. Len(contexts) : contexts[k - 1].end <= contexts[k].start

(* Otherwise mboxParse returns with every message of the file in            *)
(* completed_parse, once, although contexts that had nothing to parse were  *)
(* dropped and their neighbours' ends were taken from them.                 *)
ParsedOnce == pc = "parsed" /\ Disjoint => EachOnce

(* In any order of the seeks no message goes missing, and no context hands  *)
(* on one of its messages twice.                                            *)
ParsedAll ==
  pc = "parsed" =>
    /\ {completed[i][2] : i \in DOMAIN completed} = 1 .. Messages
    /\ \A i, j \in DOMAIN completed : completed[i] = completed[j] => i = j

(* The state keeps its types, and what is returned is that.                 *)
ParsedRight == TypeOK /\ ParsedOnce /\ ParsedAll

(* mboxParse returns when every seek meets a From line: the one that does   *)
(* not reads the first block for ever.                                      *)
ParseReturns == (\A k \in DOMAIN contexts : ~contexts[k].lost) => <>(pc = "parsed")
=============================================================================
