------------------------------ MODULE MboxScan ------------------------------
(***************************************************************************)
(* How src/mbox.c splits a file among the io contexts and how each context *)
(* finds its messages (src/mbox-parser.c, from mboxParserCtxSeekStart on,  *)
(* over the reads of src/mbox-io.c).                                       *)
(*                                                                         *)
(* A file is a sequence of symbols: "F" stands for `From ', "n" for \n,    *)
(* "r" for \r and "x" for anything else, so the 6 bytes the code matches   *)
(* at the start of a message are two symbols here, and can be cut by a     *)
(* read.  Offsets count from 0 as in the code.                             *)
(*                                                                         *)
(* The contexts share nothing but the descriptor, which they pread, so     *)
(* what each finds does not depend on the others: they are run in turn     *)
(* here, and concurrently in MboxPipeline.                                 *)
(***************************************************************************)
EXTENDS Naturals, Sequences, FiniteSets, FiniteSetsExt

CONSTANTS
  Files,       \* the files considered
  ReadSize,    \* MBOX_IO_READ_SIZE
  Margin,      \* how far from the end of its buffer the scan asks for more
  Contexts     \* io_pool->worker_count, one context each

ASSUME SizesAssumption ==
  /\ ReadSize \in Nat \ {0} /\ Margin \in Nat \ {0} /\ Margin < ReadSize
  /\ Contexts \in Nat \ {0}

Symbols == {"F", "n", "r", "x"}

ASSUME FilesAssumption == Files \subseteq Seq(Symbols)

Ids  == 0 .. Contexts - 1
Last == Contexts - 1

VARIABLES
  file,        \* the file being parsed
  pc,          \* what the current context is doing
  starts,      \* start_offset of each context after its seek
  block,       \* the offset a seek has come to
  cur,         \* the context that seeks or scans
  off,         \* ioctx->offset
  fileOff,     \* ioctx->file_offset
  buf,         \* ioctx->buf
  bufOff,      \* ioctx->buf->offset
  msgs         \* the messages handed to the parse pool, in this order

vars == <<file, pc, starts, block, cur, off, fileOff, buf, bufOff, msgs>>

Size == Len(file)

-----------------------------------------------------------------------------
(* mboxIORead: the bytes a pread of ReadSize bytes at offset o returns.     *)
Read(o) == SubSeq(file, o + 1, Min({o + ReadSize, Size}))

(* mboxIsFromLine at index i of a buffer; beyond its length there is a NUL. *)
IsFromLine(b, i) ==
  /\ i + 2 <= Len(b)
  /\ b[i + 1] = "n"
  /\ b[i + 2] = "F"

(* The offsets mboxSetAllOffsets gives the contexts before and after their  *)
(* seeks, and the contexts it keeps.                                        *)
Placed(i) == i * (Size \div Contexts)
End(i)    == IF i = Last THEN Size ELSE starts[i + 1]
Kept      == {i \in Ids : starts[i] < End(i)}

(* The contexts whose offset it then resets to where their seek ended: not  *)
(* the first, unless it is the last too, whose offset stays where it was    *)
(* placed, and so lags behind a seek that ended further on.                 *)
Reset(i)  == i # 0 \/ i = Last
Lag(i)    == IF Reset(i) THEN 0 ELSE starts[i] - Placed(i)
InStep(i) == Lag(i) = 0

(* What mboxParserCtxSeekStart looks for in the block at offset o: the     *)
(* newline of a From line, or `From ' for a context placed at 0.            *)
Matches(o) ==
  {i \in 0 .. Len(Read(o)) - 1 :
     IF Placed(cur) = 0 THEN Read(o)[i + 1] = "F" ELSE IsFromLine(Read(o), i)}

(* The block it turns to after the one at offset o; the first stays first.  *)
Before(o) == IF o < ReadSize THEN 0 ELSE o - ReadSize

-----------------------------------------------------------------------------
(* mboxBufCanParseHeaders from index o: where it finds the blank line that  *)
(* ends the headers, and where it stops when it finds none: on a newline    *)
(* that is the last byte of the buffer, or at the end.                      *)
BlankLines(b, o) ==
  {i \in o .. Len(b) - 2 :
     /\ b[i + 1] = "n"
     /\ \/ b[i + 2] = "n"
        \/ i + 3 <= Len(b) /\ b[i + 2] = "r" /\ b[i + 3] = "n"}

HasHeaders(b, o) == BlankLines(b, o) # {}

AfterHeaders(b, o) ==
  LET i == Min(BlankLines(b, o)) IN IF b[i + 2] = "n" THEN i + 2 ELSE i + 3

HeadersStop(b, o) ==
  IF o < Len(b) /\ b[Len(b)] = "n" THEN Len(b) - 1 ELSE Len(b)

(* The index at which the loop of mboxParserCtxSeekNextFromLine leaves its  *)
(* inner part: a From line, a newline too close to the end of the buffer,   *)
(* or the end.                                                              *)
FromStop(b, o) ==
  Min({Len(b)} \union
      {i \in o .. Len(b) - 1 :
         b[i + 1] = "n" /\ (IsFromLine(b, i) \/ i + Margin >= Len(b))})

-----------------------------------------------------------------------------
Init ==
  /\ file \in Files
  /\ pc = "seek"
  /\ starts = [i \in Ids |-> 0]
  /\ block = 0
  /\ cur = 0
  /\ off = 0
  /\ fileOff = 0
  /\ buf = << >>
  /\ bufOff = 0
  /\ msgs = << >>

-----------------------------------------------------------------------------
(* Faulty variants of the steps below, one for each property to detect.     *)

(* The block of a seek does not move. *)
SeekOnStays ==
  /\ pc = "seek"
  /\ Matches(Before(block)) = {}
  /\ UNCHANGED vars

(* What was parsed stays in the buffer. *)
NextMessageKeeps ==
  /\ pc = "next"
  /\ pc' = "headers"
  /\ UNCHANGED <<file, starts, block, cur, off, fileOff, buf, bufOff, msgs>>

(* A short read counts as a whole one. *)
ReadMoreWhole(o) ==
  /\ Read(fileOff) # << >>
  /\ buf' = buf \o Read(fileOff)
  /\ fileOff' = fileOff + ReadSize
  /\ bufOff' = o
  /\ UNCHANGED <<file, pc, starts, block, cur, off, msgs>>

-----------------------------------------------------------------------------
(* mboxParserCtxSeekStart goes back block by block, and takes the first     *)
(* match of the first block that has one.  At the start of the file it      *)
(* reads the same block again and again.  The other contexts wait.          *)
SeekOn ==
  /\ pc = "seek"
  /\ Matches(Before(block)) = {}
  /\ block' = Before(block)
  /\ UNCHANGED <<file, pc, starts, cur, off, fileOff, buf, bufOff, msgs>>

SeekFound ==
  /\ pc = "seek"
  /\ Matches(Before(block)) # {}
  /\ starts' = [starts EXCEPT ![cur] = Before(block) + Min(Matches(Before(block)))]
  /\ IF cur = Last
       THEN pc' = "open" /\ cur' = 0 /\ block' = 0
       ELSE cur' = cur + 1 /\ block' = Placed(cur + 1) /\ UNCHANGED pc
  /\ UNCHANGED <<file, off, fileOff, buf, bufOff, msgs>>

(* The next context: filtered out, or its file_offset, and its offset where *)
(* that is reset, at the start that the seek found, with an empty buffer.   *)
Skip ==
  /\ pc = "open"
  /\ cur \in Ids \ Kept
  /\ cur' = cur + 1
  /\ UNCHANGED <<file, pc, starts, block, off, fileOff, buf, bufOff, msgs>>

Open ==
  /\ pc = "open"
  /\ cur \in Kept
  /\ off' = IF Reset(cur) THEN starts[cur] ELSE Placed(cur)
  /\ fileOff' = starts[cur]
  /\ buf' = << >>
  /\ bufOff' = 0
  /\ pc' = "next"
  /\ UNCHANGED <<file, starts, block, cur, msgs>>

(* mboxParserCtxGetNextMessage moves what it has not parsed to the front.   *)
NextMessage ==
  /\ pc = "next"
  /\ buf' = SubSeq(buf, bufOff + 1, Len(buf))
  /\ bufOff' = 0
  /\ pc' = "headers"
  /\ UNCHANGED <<file, starts, block, cur, off, fileOff, msgs>>

(* Append the next block to the buffer and go on from index o. *)
ReadMore(o) ==
  /\ Read(fileOff) # << >>
  /\ buf' = buf \o Read(fileOff)
  /\ fileOff' = fileOff + Len(Read(fileOff))
  /\ bufOff' = o
  /\ UNCHANGED <<file, pc, starts, block, cur, off, msgs>>

(* mboxParserCtxGetNextMessage returns NULL, which ends the context. *)
GiveUp ==
  /\ pc' = "open"
  /\ cur' = cur + 1
  /\ UNCHANGED <<file, starts, block, off, fileOff, buf, bufOff, msgs>>

(* mboxParserCtxGetNextMessage returns the first o bytes of the buffer, and *)
(* the context ends with the message that reaches its end or the file's.    *)
Emit(o, eof) ==
  /\ off' = off + o
  /\ bufOff' = o
  /\ msgs' = Append(msgs, [ctx |-> cur, start |-> off, end |-> off + o,
                           text |-> SubSeq(buf, 1, o)])
  /\ IF off' >= End(cur) \/ eof
       THEN pc' = "open" /\ cur' = cur + 1
       ELSE pc' = "next" /\ UNCHANGED cur
  /\ UNCHANGED <<file, starts, block, fileOff, buf>>

(* mboxParserCtxSeekHeaders *)
HeadersFound ==
  /\ pc = "headers"
  /\ HasHeaders(buf, bufOff)
  /\ bufOff' = AfterHeaders(buf, bufOff)
  /\ pc' = "from"
  /\ UNCHANGED <<file, starts, block, cur, off, fileOff, buf, msgs>>

HeadersRead ==
  /\ pc = "headers"
  /\ ~HasHeaders(buf, bufOff)
  /\ ReadMore(HeadersStop(buf, bufOff))

HeadersEof ==
  /\ pc = "headers"
  /\ ~HasHeaders(buf, bufOff)
  /\ Read(fileOff) = << >>
  /\ GiveUp

(* A faulty variant of FromPastEnd: a context whose reads have come to its  *)
(* end exactly gives up.                                                    *)
FromPastEndEarly ==
  /\ pc = "from"
  /\ ~IsFromLine(buf, FromStop(buf, bufOff))
  /\ fileOff >= End(cur)
  /\ GiveUp

(* mboxParserCtxSeekNextFromLine *)
FromFound ==
  /\ pc = "from"
  /\ IsFromLine(buf, FromStop(buf, bufOff))
  /\ Emit(FromStop(buf, bufOff) + 1, FALSE)

FromPastEnd ==
  /\ pc = "from"
  /\ ~IsFromLine(buf, FromStop(buf, bufOff))
  /\ fileOff > End(cur)
  /\ GiveUp

FromRead ==
  /\ pc = "from"
  /\ ~IsFromLine(buf, FromStop(buf, bufOff))
  /\ fileOff <= End(cur)
  /\ ReadMore(FromStop(buf, bufOff))

FromEof ==
  /\ pc = "from"
  /\ ~IsFromLine(buf, FromStop(buf, bufOff))
  /\ fileOff <= End(cur)
  /\ Read(fileOff) = << >>
  /\ Emit(FromStop(buf, bufOff), TRUE)

Done == pc = "open" /\ cur = Contexts

Next ==
  \/ SeekOn \/ SeekFound
  \/ Skip \/ Open \/ NextMessage
  \/ HeadersFound \/ HeadersRead \/ HeadersEof
  \/ FromFound \/ FromPastEnd \/ FromRead \/ FromEof
  \/ Done /\ UNCHANGED vars

Spec == Init /\ [][Next]_vars /\ WF_vars(Next)
-----------------------------------------------------------------------------
TypeOK ==
  /\ file \in Files
  /\ pc \in {"seek", "open", "next", "headers", "from"}
  /\ starts \in [Ids -> 0 .. Size]
  /\ block \in 0 .. Size
  /\ cur \in 0 .. Contexts
  /\ off \in 0 .. Size
  /\ fileOff \in 0 .. Size
  /\ buf \in Seq(Symbols)
  /\ bufOff \in 0 .. Len(buf)
  /\ msgs \in Seq([ctx : Ids, start : 0 .. Size, end : 0 .. Size,
                   text : Seq(Symbols)])

(* Where the messages of the file begin, and where one that was found does: *)
(* the first of a context other than 0 carries the newline before it.       *)
FromLinesOf(f) == {i \in 0 .. Len(f) - 1 : f[i + 1] = "F" /\ (i = 0 \/ f[i] = "n")}
FromLines      == FromLinesOf(file)
FromOf(m) == IF m.text[1] = "n" THEN m.start + 1 ELSE m.start

(* The offsets a message is recorded with are those of its bytes, although  *)
(* they are counted apart from the buffer, which is cut, moved and refilled *)
(* between two messages.                                                    *)
RecordedRight(k) == msgs[k].text = SubSeq(file, msgs[k].start + 1, msgs[k].end)

Bookends == \A k \in DOMAIN msgs : InStep(msgs[k].ctx) => RecordedRight(k)

(* The buffer is the part of the file between the two offsets.              *)
BufferIsWindow ==
  pc \in {"headers", "from"} /\ InStep(cur) => buf = SubSeq(file, off + 1, fileOff)

(* Both hold of every context whose offset does not lag, in any file.       *)
OffsetsInStep == Bookends /\ BufferIsWindow

(* The inductive invariant: the buffer begins at the offset and its lag,    *)
(* between two messages the window is what is left of it beyond what was    *)
(* parsed, and only a context of the file seeks or scans.                   *)
Place == off + Lag(cur)

Window ==
  /\ pc \in {"headers", "from"} => buf = SubSeq(file, Place + 1, fileOff)
  /\ pc = "next" => SubSeq(buf, bufOff + 1, Len(buf)) = SubSeq(file, Place + 1, fileOff)
  /\ pc \in {"next", "headers", "from"} => Place <= fileOff
  /\ pc # "open" => cur \in Ids
  /\ pc = "seek" => msgs = << >>

IInv == TypeOK /\ Window /\ Bookends

(* Every message handed on begins at a From line, whole or with the newline *)
(* before it, and no context goes on to a message that begins in the next.  *)
Begins ==
  \A k \in DOMAIN msgs :
    /\ FromOf(msgs[k]) \in FromLines
    /\ msgs[k].start < End(msgs[k].ctx)

(* The conditions under which the split is sound.  The seeks are in order;  *)
(* no block of a context ends just after its part of the file; no block     *)
(* ends between the last two bytes of \n\r\n.                               *)
BlockEnds(i) == {starts[i] + k * ReadSize : k \in 1 .. Size}

Ordered == \A i \in Ids \ {0} : starts[i - 1] <= starts[i]

NoCutAtEnd ==
  \A i \in Kept \ {Last} : \A e \in BlockEnds(i) : e <= End(i) \/ e > End(i) + Margin

NoCutBlankLine ==
  \A i \in Kept : \A e \in BlockEnds(i) :
    1 < e /\ e < Size => ~(file[e - 1] = "n" /\ file[e] = "r" /\ file[e + 1] = "n")

(* Under those conditions each message of the file is found, by one         *)
(* context, once.                                                           *)
AllFound ==
  Done /\ Ordered /\ NoCutAtEnd /\ NoCutBlankLine =>
    /\ {FromOf(msgs[k]) : k \in DOMAIN msgs} = FromLines
    /\ Len(msgs) = Cardinality(FromLines)

(* A mailbox: it begins with a message, the headers of each message end     *)
(* before the next one begins, and no message is as short as the margin.    *)
Mailbox(f) ==
  /\ 0 \in FromLinesOf(f)
  /\ \A p \in FromLinesOf(f) :
       /\ HasHeaders(f, p)
       /\ p + Margin <= Len(f)
       /\ \A q \in FromLinesOf(f) : p < q => AfterHeaders(f, p) < q

(* What mboxParse promises of the split of a mailbox: nothing that is not a *)
(* message is handed on, and under the conditions above nothing is missed   *)
(* or repeated.                                                             *)
MessagesFound == Mailbox(file) => Begins /\ AllFound

(* What finding every message rests on.  A seek ends on a From line, at its *)
(* F at the start of the file and at the newline before it elsewhere; only  *)
(* a context placed at 0 has its block at 0.                                *)
Sound == Ordered /\ NoCutAtEnd /\ NoCutBlankLine

Sought(i) ==
  /\ starts[i] < Size
  /\ starts[i] # 0 => file[starts[i] + 1] = "n" /\ starts[i] + 1 \in FromLines
  /\ i = 0 => starts[i] = 0

SeekState ==
  /\ \A i \in Ids : (pc = "seek" => i < cur) => Sought(i)
  /\ pc = "seek" => msgs = << >> /\ (Placed(cur) = 0 => block = 0)

(* A context scans from one From line to the next: its offset is at one, in *)
(* its part of the file, and its reads have ended where a block does.       *)
FromAt(o) == IF file[o + 1] = "n" THEN o + 1 ELSE o

Scanning == pc \in {"next", "headers", "from"}

ScanState ==
  /\ Scanning => /\ starts[cur] <= off
                 /\ off < End(cur)
                 /\ FromAt(off) \in FromLines
                 /\ fileOff \in BlockEnds(cur) \union {starts[cur], Size}
  /\ pc = "from" => bufOff > 0

(* No search has passed what it looks for.                                  *)
NonePassed ==
  /\ pc = "headers" => \A i \in BlankLines(file, off) : off + bufOff <= i
  /\ pc = "from" => \A q \in FromLines : FromAt(off) < q => off + bufOff < q

(* The messages handed on are those that begin before the offset that was   *)
(* come to, each once.                                                      *)
Reached ==
  IF Scanning THEN off ELSE IF cur = Contexts THEN Size ELSE starts[cur]

FoundSoFar ==
  /\ {FromOf(msgs[k]) : k \in DOMAIN msgs} = {p \in FromLines : p < Reached}
  /\ \A k, l \in DOMAIN msgs : FromOf(msgs[k]) = FromOf(msgs[l]) => k = l

ScanInv ==
  /\ SeekState
  /\ ScanState
  /\ Begins
  /\ Sound /\ pc # "seek" => NonePassed /\ FoundSoFar

(* A seek comes to an end, and with it the parse, when the second message   *)
(* begins in the first block; the From line at the start of the file is one *)
(* that only the seek of a context placed there can see.                    *)
FirstInFirstBlock  == \E i \in DOMAIN file : file[i] = "F" /\ i <= ReadSize
SecondInFirstBlock == \E p \in FromLines : 0 < p /\ p < ReadSize

ScanEnds == (Contexts = 1 /\ FirstInFirstBlock) \/ SecondInFirstBlock => <>Done

=============================================================================
