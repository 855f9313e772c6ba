------------------------------ MODULE MboxIndex ------------------------------
(***************************************************************************)
(* The index of src/mbox-index.c: a list of messages is saved as one line   *)
(* of offsets for each, and loaded again in batches by the workers of a     *)
(* pool.                                                                    *)
(*                                                                         *)
(* A line, "start end\n" in the file, is four tokens: a number, a blank, a  *)
(* number and a newline.  A write can be cut between two tokens or within a *)
(* number, fail, or be followed by an fsync that fails, and the process     *)
(* that saves can die.  What a short write leaves of a line runs into the   *)
(* next one: the load makes of the two the numbers that their digits spell, *)
(* or runs past a buffer, which may end the process.                        *)
(***************************************************************************)
EXTENDS Integers, Sequences, FiniteSets, SequencesExt, Functions

CONSTANTS
  Lists,         \* the lists of messages that may be saved
  ReadSize,      \* MBOX_IO_READ_SIZE
  BufSiz,        \* BUFSIZ, in tokens
  Workers,       \* thread_count
  ShortWrites,   \* may pwrite write less than it was asked to?
  MaxDigits,     \* no offset has more digits
  LongMax,       \* LONG_MAX, which atol makes of every greater number
  Spelled(_),    \* the number whose digits are those of a sequence of numbers
  NoFile         \* there is no index file

Messages == UNION {ToSet(l) : l \in Lists}

(* Two messages of a list do not contain one another, unless they end alike; *)
(* those that begin alike are one message, found twice.                     *)
ASSUME ListsAssumption ==
  /\ Lists \subseteq Seq([start : Nat, end : Nat])
  /\ \A l \in Lists : \A i \in DOMAIN l :
       /\ l[i].start < l[i].end
       /\ \A j \in DOMAIN l : l[i].start <= l[j].start => l[i].end <= l[j].end

ASSUME NumbersAssumption ==
  /\ ReadSize \in Nat \ {0} /\ BufSiz \in Nat \ {0}
  /\ Workers \in Nat \ {0}
  /\ ShortWrites \in BOOLEAN
  /\ MaxDigits \in Nat /\ LongMax \in Nat
  /\ \A m \in Messages : \A n \in {m.start, m.end} : n <= LongMax /\ Spelled(<<n>>) = n

VARIABLES
  pc,            \* where the thread of the caller is
  list,          \* the list it saves
  node,          \* the index in it of the next line
  out,           \* ioctx->buf of the save
  file,          \* the index file
  fileOff,       \* ioctx->file_offset
  cut,           \* has a write been short? (history)
  result,        \* what mboxIdxSave returned
  readOff,       \* ioctx->buf->offset of the load
  entries,       \* the offsets read from the file (history)
  indexes,       \* those of them not yet in a batch
  batch,         \* the batch that is filled
  batchBytes,    \* batch_bytes
  batches,       \* the batches enqueued, each with what is left of it
  ranges,        \* the part of the mailbox read for a batch that is running
  msgs,          \* the list of messages loaded
  fresh, pending, running, finished, waiting   \* the pool

save == <<list, node, out, file, fileOff, cut, result>>
read == <<readOff, entries>>
fill == <<indexes, batch, batchBytes>>
pool == <<fresh, pending, running, finished, waiting>>
vars == <<pc, save, read, fill, batches, ranges, msgs, pool>>

MaxLen  == CHOOSE n \in {Len(l) : l \in Lists} : \A l \in Lists : Len(l) <= n
Batches == 1 .. MaxLen
Pool    == INSTANCE TaskPool WITH Tasks <- Batches

Arrangements(l) ==
  {[i \in DOMAIN l |-> l[p[i]]] : p \in Bijection(DOMAIN l, DOMAIN l)}

(* A faulty variant of Sorted: the list is written in the order it is in.   *)
Unsorted(l) == {l}

(* The list l in an order in which the starts do not decrease; the quick    *)
(* sort leaves equal ones in any order.                                     *)
Sorted(l) ==
  {s \in Arrangements(l) : \A i \in 2 .. Len(s) : s[i - 1].start <= s[i].start}

Number(n) == <<"number", n>>
Blank     == <<"blank", 0>>
NewLine   == <<"newline", 0>>
Tokens    == {"number", "blank", "newline"} \X Nat
LineOf(m) == <<Number(m.start), Blank, Number(m.end), NewLine>>

(* What a write that is cut leaves of the tokens t: the first of them, and   *)
(* of the last one perhaps only the first digits.                            *)
FirstDigits(n) == {d \in 1 .. n : \E k \in 1 .. MaxDigits : d = n \div 10 ^ k}
Pieces(t) ==
  {SubSeq(t, 1, n) : n \in 1 .. Len(t)}
  \union UNION {{Append(SubSeq(t, 1, n - 1), Number(d)) : d \in FirstDigits(t[n][2])} :
                  n \in 1 .. Len(t)}

(* The first of the tokens S in the file after place o, if there is one, and *)
(* what atol makes of the digits there.                                      *)
NextOf(S, o) == {i \in o + 1 .. Len(file) : file[i] \in S /\ \A j \in o + 1 .. i - 1 : file[j] \notin S}
Written(o)   == LET z == CHOOSE i \in NextOf({Blank, NewLine}, o) : TRUE
                IN  [k \in 1 .. z - o - 1 |-> file[o + k][2]]
Atol(o)      == LET n == Spelled(Written(o)) IN IF n \in 0 .. LongMax THEN n ELSE LongMax

Bytes(m)      == m.end - m.start
ReadOf(b)     == [diff |-> Head(b).start, end |-> Last(b).end]
Outside(m, r) == m.start < r.diff \/ m.end < m.start \/ r.end < m.end

-----------------------------------------------------------------------------
Init ==
  /\ pc = "save"
  /\ list \in Lists
  /\ node = 1
  /\ out = << >>
  /\ file = NoFile
  /\ fileOff = 0
  /\ cut = FALSE
  /\ result = "none"
  /\ readOff = 0
  /\ entries = << >>
  /\ indexes = << >>
  /\ batch = << >>
  /\ batchBytes = 0
  /\ batches = << >>
  /\ ranges = << >>
  /\ msgs = << >>
  /\ Pool!Init

-----------------------------------------------------------------------------
(* Faulty variants of the steps below, one for each property to detect.     *)

(* The buffer is not emptied by a write. *)
AfterWriteKeeps(p) ==
  /\ file' = SubSeq(file, 1, fileOff) \o p
  /\ fileOff' = fileOff + Len(p)
  /\ UNCHANGED out

(* The last batch is enqueued only if it has several messages. *)
LastBatchMissed ==
  /\ pc = "last"
  /\ IF Len(batch) > 1
       THEN Pool!Submit(Len(batches) + 1) /\ batches' = Append(batches, batch) /\ batch' = << >>
       ELSE UNCHANGED <<pool, batch, batches>>
  /\ pc' = "call"
  /\ UNCHANGED <<save, read, indexes, batchBytes, ranges, msgs>>

-----------------------------------------------------------------------------
(* mboxIdxSave returns MBOX_IO_OK when there is nothing to save, and also   *)
(* when it cannot open the file.                                            *)
SaveNothing ==
  /\ pc = "save"
  /\ pc' = "saved"
  /\ result' = "ok"
  /\ UNCHANGED <<list, node, out, file, fileOff, cut, read, fill, batches, ranges, msgs, pool>>

SaveOpen ==
  /\ pc = "save"
  /\ list # << >>
  /\ list' \in Sorted(list)
  /\ file' = << >>
  /\ pc' = "line"
  /\ UNCHANGED <<node, out, fileOff, cut, result, read, fill, batches, ranges, msgs, pool>>

(* One turn of the loop: a write follows when the length of the buffer is a *)
(* multiple of BUFSIZ, and after the last line.                             *)
SaveLine ==
  /\ pc = "line"
  /\ out' = out \o LineOf(list[node])
  /\ node' = node + 1
  /\ pc' = IF Len(out') % BufSiz = 0 \/ node' > Len(list) THEN "write" ELSE "line"
  /\ UNCHANGED <<list, file, fileOff, cut, result, read, fill, batches, ranges, msgs, pool>>

(* mboxIdxTryWrite, when the piece p has been written and synced: whatever   *)
(* it is, the buffer is emptied.                                             *)
AfterWrite(p) ==
  /\ file' = SubSeq(file, 1, fileOff) \o p
  /\ fileOff' = fileOff + Len(p)
  /\ out' = << >>

Write ==
  /\ pc = "write"
  /\ \E p \in Pieces(out) :
       /\ p = out \/ ShortWrites
       /\ AfterWrite(p)
       /\ cut' = (cut \/ p # out)
  /\ IF node > Len(list)
       THEN pc' = "saved" /\ result' = "ok"
       ELSE pc' = "line" /\ UNCHANGED result
  /\ UNCHANGED <<list, node, read, fill, batches, ranges, msgs, pool>>

(* The write fails, or it succeeds and the fsync fails.                     *)
WriteFails ==
  /\ pc = "write"
  /\ file' \in {file, SubSeq(file, 1, fileOff) \o out}
  /\ pc' = "saved"
  /\ result' = "failed"
  /\ UNCHANGED <<list, node, out, fileOff, cut, read, fill, batches, ranges, msgs, pool>>

(* The process dies while it saves; another one may load the file.          *)
Crash ==
  /\ pc \in {"line", "write"}
  /\ pc' = "saved"
  /\ result' = "crashed"
  /\ UNCHANGED <<list, node, out, file, fileOff, cut, read, fill, batches, ranges, msgs, pool>>

-----------------------------------------------------------------------------
(* loadIndexes returns NULL when the file cannot be opened or read at once. *)
LoadNothing ==
  /\ pc = "saved"
  /\ pc' = "null"
  /\ UNCHANGED <<save, read, fill, batches, ranges, msgs, pool>>

LoadOpen ==
  /\ pc = "saved"
  /\ file # NoFile
  /\ pc' = "read"
  /\ UNCHANGED <<save, read, fill, batches, ranges, msgs, pool>>

(* One turn of the loop of indexesToList: the digits up to the next blank    *)
(* are the start of a message, and those from there to the next newline its  *)
(* end; atol stops at a blank.                                               *)
ReadLine ==
  /\ pc = "read"
  /\ \E b \in NextOf({Blank}, readOff) : \E e \in NextOf({NewLine}, b) :
       /\ entries' = Append(entries, [start |-> Atol(readOff), end |-> Atol(b)])
       /\ readOff' = e
  /\ UNCHANGED <<pc, save, fill, batches, ranges, msgs, pool>>

(* Without a blank or a newline the loop leaves the buffer; and several      *)
(* numbers together may be more than tmpstart or tmpend holds, which is not  *)
(* less than one.                                                            *)
ReadFault ==
  /\ pc = "read" /\ readOff < Len(file)
  /\ \A b \in NextOf({Blank}, readOff) : \A e \in NextOf({NewLine}, b) :
       b > readOff + 2 \/ e > b + 2
  /\ pc' = "fault"
  /\ UNCHANGED <<save, read, fill, batches, ranges, msgs, pool>>

(* The list is read.  When it is empty, mboxListRemoveHead gives NULL to     *)
(* mboxIdxBatchLoad, which uses it.                                          *)
ReadEnd ==
  /\ pc = "read" /\ readOff = Len(file)
  /\ indexes' = entries
  /\ pc' = IF entries = << >> THEN "fault" ELSE "batch"
  /\ UNCHANGED <<save, read, batch, batchBytes, batches, ranges, msgs, pool>>

(* The batch b goes to the pool and a new one is begun.                     *)
Enqueue(b) ==
  /\ Pool!Submit(Len(batches) + 1)
  /\ batches' = Append(batches, b)
  /\ batch' = << >>
  /\ batchBytes' = 0

(* One turn of the loop: the message that makes a batch large enough is in  *)
(* it.  The sizes are unsigned, a sum below zero is a very large one.       *)
TakeOffsets ==
  /\ pc = "batch"
  /\ indexes' = Tail(indexes)
  /\ IF batchBytes + Bytes(Head(indexes)) \in 0 .. ReadSize - 1
       THEN /\ batch' = Append(batch, Head(indexes))
            /\ batchBytes' = batchBytes + Bytes(Head(indexes))
            /\ UNCHANGED <<batches, pool>>
       ELSE Enqueue(Append(batch, Head(indexes)))
  /\ pc' = IF indexes' = << >> THEN "last" ELSE "batch"
  /\ UNCHANGED <<save, read, ranges, msgs>>

LastBatch ==
  /\ pc = "last"
  /\ IF batch # << >>
       THEN Pool!Submit(Len(batches) + 1) /\ batches' = Append(batches, batch) /\ batch' = << >>
       ELSE UNCHANGED <<pool, batch, batches>>
  /\ pc' = "call"
  /\ UNCHANGED <<save, read, indexes, batchBytes, ranges, msgs>>

Wait ==
  /\ pc = "call"
  /\ Pool!WaitCall
  /\ pc' = "wait"
  /\ UNCHANGED <<save, read, fill, batches, ranges, msgs>>

WaitReturn ==
  /\ pc = "wait"
  /\ Pool!WaitReturn
  /\ pc' = "loaded"
  /\ UNCHANGED <<save, read, fill, batches, ranges, msgs>>

-----------------------------------------------------------------------------
(* mboxIdxGetMessages reads the mailbox from the start of its first message *)
(* to the end of its last one ...                                           *)
BeginBatch ==
  /\ pc # "outside"
  /\ Cardinality(running) < Workers
  /\ Pool!Begin
  /\ LET r == ReadOf(batches[Head(pending)]) IN r.end - r.diff + 10 >= 0
  /\ ranges' = Append(ranges, ReadOf(batches[Head(pending)]))
  /\ UNCHANGED <<pc, save, read, fill, batches, msgs>>

(* ... and adds them to the list under its lock, one by one.                *)
LoadMessage(b) ==
  /\ pc # "outside"
  /\ b \in running
  /\ batches[b] # << >>
  /\ msgs' = Append(msgs, Head(batches[b]))
  /\ batches' = [batches EXCEPT ![b] = Tail(@)]
  /\ UNCHANGED <<pc, save, read, fill, ranges, pool>>

EndBatch(b) ==
  /\ pc # "outside"
  /\ b \in running
  /\ batches[b] = << >>
  /\ Pool!Complete(b)
  /\ UNCHANGED <<pc, save, read, fill, batches, ranges, msgs>>

(* A range that ends before it starts makes pread fail and the byte before   *)
(* the buffer be written; with more than the ten bytes to spare missing,     *)
(* there is no buffer.                                                       *)
BeginOutside ==
  /\ pc # "outside"
  /\ Cardinality(running) < Workers /\ pending # << >>
  /\ LET r == ReadOf(batches[Head(pending)]) IN r.end < r.diff
  /\ pc' = "outside"
  /\ UNCHANGED <<save, read, fill, batches, ranges, msgs, pool>>

(* A message that lies outside of what was read is looked for there, in      *)
(* memory that is not the buffer's.                                          *)
LoadOutside(b) ==
  /\ pc # "outside"
  /\ b \in running
  /\ batches[b] # << >> /\ Outside(Head(batches[b]), ranges[b])
  /\ pc' = "outside"
  /\ UNCHANGED <<save, read, fill, batches, ranges, msgs, pool>>

Ended == pc \in {"null", "fault", "outside", "loaded"}

CallerStep == TakeOffsets \/ LastBatch \/ Wait \/ WaitReturn

Next ==
  \/ SaveNothing \/ SaveOpen \/ SaveLine \/ Write \/ WriteFails \/ Crash
  \/ LoadNothing \/ LoadOpen \/ ReadLine \/ ReadFault \/ ReadEnd
  \/ CallerStep
  \/ BeginBatch \/ BeginOutside
  \/ \E b \in Batches : LoadMessage(b) \/ EndBatch(b) \/ LoadOutside(b)
  \/ Ended /\ UNCHANGED vars

(* The caller of a load and the workers are fair; see WorkerPool.           *)
Spec ==
  /\ Init /\ [][Next]_vars
  /\ WF_vars(CallerStep)
  /\ WF_vars(BeginBatch)
  /\ \A b \in Batches : WF_vars(LoadMessage(b) \/ EndBatch(b))
-----------------------------------------------------------------------------
Offsets == [start : 0 .. LongMax, end : 0 .. LongMax]

TypeOK ==
  /\ pc \in {"save", "line", "write", "saved", "read", "batch", "last", "call", "wait",
             "loaded", "null", "fault", "outside"}
  /\ list \in Seq(Messages)
  /\ node \in 1 .. Len(list) + 1
  /\ out \in Seq(Tokens)
  /\ file = NoFile \/ file \in Seq(Tokens)
  /\ {fileOff, readOff} \subseteq Nat
  /\ cut \in BOOLEAN
  /\ result \in {"none", "ok", "failed", "crashed"}
  /\ {entries, indexes, batch, msgs} \subseteq Seq(Offsets)
  /\ batchBytes \in 0 .. ReadSize - 1
  /\ batches \in Seq(Seq(Offsets))
  /\ ranges \in Seq([diff : 0 .. LongMax, end : 0 .. LongMax])

(* The same messages, each as many times. *)
Places(s, m)       == {i \in DOMAIN s : s[i] = m}
SameMessages(s, t) ==
  \A m \in ToSet(s) \union ToSet(t) : Cardinality(Places(s, m)) = Cardinality(Places(t, m))

(* t is the lines of the list, one after another.                           *)
Line(i)  == ((i - 1) \div 4) + 1
Lines(t) ==
  \A i \in DOMAIN t : Line(i) \in DOMAIN list /\ t[i] = LineOf(list[Line(i)])[((i - 1) % 4) + 1]

(* Whatever fails and whenever the process dies, the index consists of      *)
(* whole lines, those of the first messages of the sorted list, as long as  *)
(* no write is short; then only an empty index is read beyond its end.      *)
WholeLines ==
  file # NoFile /\ ~cut =>
    /\ Lines(file) /\ Len(file) % 4 = 0
    /\ pc = "fault" => file = << >>

(* A load returns every entry read from the index, once, however the entries *)
(* are cut into batches and whichever worker loads them.                    *)
LoadsAll == pc = "loaded" => SameMessages(msgs, entries)

(* When the save said it succeeded and no write was short, what is loaded   *)
(* is what was saved.                                                       *)
RoundTrip == pc = "loaded" /\ result = "ok" /\ ~cut => SameMessages(msgs, list)

LoadRight == LoadsAll /\ RoundTrip

(* A worker reads one range of the mailbox for its batch, from the first    *)
(* start to the last end: when no write was short every message of the      *)
(* batch lies in it, because the list was sorted before it was saved, and   *)
(* no worker leaves its buffer.                                             *)
InsideRead ==
  /\ TypeOK
  /\ ~cut =>
       /\ pc # "outside"
       /\ \A b \in running : \A i \in DOMAIN batches[b] : ~Outside(batches[b][i], ranges[b])

-----------------------------------------------------------------------------
(* The inductive invariant.                                                 *)
Below(m, n) == m.start <= n.start /\ m.end <= n.end
Ascends(s)  == /\ \A i \in DOMAIN s : s[i].start < s[i].end
               /\ \A i, j \in DOMAIN s : i <= j => Below(s[i], s[j])

(* Until the file is opened there is none; without a short write, the lines *)
(* written and those in the buffer are the first ones of the list.          *)
SaveState ==
  /\ pc = "save" => /\ list \in Lists /\ file = NoFile /\ fileOff = 0 /\ result = "none"
                    /\ out = << >> /\ node = 1 /\ ~cut
  /\ pc = "line" => node <= Len(list)
  /\ pc \in {"line", "write"} =>
       /\ file \in Seq(Tokens) /\ Len(file) = fileOff
       /\ result = "none" /\ Ascends(list)
       /\ ~cut => Lines(file \o out) /\ Len(file \o out) = 4 * (node - 1)

FileState ==
  file # NoFile =>
    /\ Ascends(list)
    /\ ~cut => Lines(file) /\ Len(file) % 4 = 0
    /\ ~cut /\ result = "ok" => Len(file) = 4 * Len(list)

(* What is read of such lines are the messages of the list.                 *)
ReadState ==
  /\ pc \in {"save", "line", "write", "saved"} => readOff = 0 /\ entries = << >>
  /\ pc \notin {"save", "line", "write", "saved", "null"} => file # NoFile
  /\ ~cut => /\ readOff = 4 * Len(entries) /\ Len(entries) <= Len(list)
             /\ \A i \in DOMAIN entries : entries[i] = list[i]
             /\ pc = "fault" => file = << >>

Loading == pc \in {"batch", "last", "call", "wait", "loaded", "outside"}

(* The stages of a load.                                                    *)
LoadState ==
  /\ Loading => readOff = Len(file)
  /\ ~Loading => {indexes, batch, batches, msgs, ranges, pending} = {<< >>}
  /\ ~Loading => running = {} /\ finished = {}
  /\ pc = "batch" => indexes # << >>
  /\ pc \in {"last", "call", "wait", "loaded"} => indexes = << >>
  /\ pc \in {"call", "wait", "loaded"} => batch = << >>
  /\ pc = "loaded" => pending = << >> /\ running = {}
  /\ pc = "outside" => cut

(* The batches are begun in the order in which they were made.              *)
BatchQueue ==
  /\ pending \in Seq(Nat)
  /\ Len(ranges) + Len(pending) = Len(batches)
  /\ \A i \in DOMAIN pending : pending[i] = Len(ranges) + i
  /\ running \union finished = DOMAIN ranges
  /\ \A b \in finished : batches[b] = << >>
  /\ \A b \in DOMAIN batches \ DOMAIN ranges : batches[b] # << >>

(* Without a short write, one that is not begun is in order, and one that   *)
(* is begun has nothing left that lies outside of what was read for it.     *)
BatchesInOrder ==
  ~cut =>
    /\ Ascends(batch \o indexes)
    /\ \A b \in DOMAIN batches \ DOMAIN ranges : Ascends(batches[b])
    /\ \A b \in DOMAIN ranges : \A i \in DOMAIN batches[b] : ~Outside(batches[b][i], ranges[b])

(* Each entry of the index is in as many places as it is in the index.      *)
Cells(bs, m) ==
  {c \in UNION {{b} \X DOMAIN bs[b] : b \in DOMAIN bs} : bs[c[1]][c[2]] = m}

EntriesKept ==
  Loading => \A m \in Offsets :
    /\ IsFiniteSet(Cells(batches, m))
    /\ Cardinality(Places(msgs, m)) + Cardinality(Cells(batches, m))
         + Cardinality(Places(batch, m)) + Cardinality(Places(indexes, m))
       = Cardinality(Places(entries, m))

IInv ==
  /\ TypeOK
  /\ SaveState
  /\ FileState
  /\ ReadState
  /\ LoadState
  /\ BatchQueue
  /\ BatchesInOrder
  /\ EntriesKept
=============================================================================
