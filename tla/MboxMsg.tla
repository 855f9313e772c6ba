------------------------------ MODULE MboxMsg ------------------------------
(***************************************************************************)
(* From the text of a message to the list a user filters: the header       *)
(* parser of src/mbox-parser.c, the tree of headers by what its comparison *)
(* lets in and finds, the short form of a message and the filter of        *)
(* src/mbox-msg.c.                                                          *)
(*                                                                         *)
(* A source says what its author wrote, the parser sees only its text.  A  *)
(* read beyond the text ends the model (`beyond').  Left out: NUL bytes    *)
(* and carriage returns, dates, message ids and previews.                  *)
(***************************************************************************)
EXTENDS MboxBuf, FiniteSets

CONSTANTS
  Sources,     \* the messages that arrive
  Patterns,    \* what a user filters by
  HeapBytes,   \* what memory beside a buffer may hold
  MaxMessages, \* bound: messages in the list
  None         \* a null pointer

NL  == "newline"
TAB == "tab"

FromLineName == <<"__FROM_LINE__">>
FromName     == <<"From">>
SubjectName  == <<"Subject", NUL>>   \* its length in the table is 8

(* The text of a source: its From line, headers of one or more lines, an    *)
(* empty line and the body.                                                 *)
FromLineText == <<"From", " ", "s">>

HeaderText(h) == h.name \o h.sep \o FoldLeft(LAMBDA t, l : t \o <<NL>> \o l, h.first, h.more) \o <<NL>>

TextOf(s) ==
  (IF s.fromline THEN FromLineText \o <<NL>> ELSE <<>>)
    \o FoldLeft(LAMBDA t, h : t \o HeaderText(h), <<>>, s.headers) \o <<NL>> \o s.body

VARIABLES
  source,      \* the message being parsed (history)
  text,        \* buf->data
  offset,      \* buf->offset
  key, value,  \* the two scratch buffers
  headers,     \* the tree, as the set of what it holds
  list,        \* the messages parsed, each with its source (history)
  pattern,     \* what the list is filtered by
  node,        \* the place of n in the list
  filtered,    \* the list being made, or None
  pc           \* where the caller is

parserVars == <<source, text, offset, key, value, headers>>
filterVars == <<pattern, node, filtered>>
vars == <<parserVars, list, filterVars, pc>>

At(i) == IF i < Len(text) THEN text[i + 1] ELSE NUL

(* The first place from i on with the symbol c, or one beyond the text's end. *)
Seek(c, i) ==
  LET places == {j \in i .. Len(text) - 1 : At(j) = c}
  IN  IF places = {} THEN Len(text) + 1 ELSE CHOOSE j \in places : \A k \in places : j <= k

SkipLines(i) == CHOOSE j \in i .. Len(text) : At(j) # NL /\ \A k \in i .. j - 1 : At(k) = NL

Between(i, j) == SubSeq(text, i + 1, j)

Without(s, dropped) == SelectSeq(s, LAMBDA c : c \notin dropped)

(* mboxRBTreeInsert and mboxRBTreeGet.  Keys in the tree differ under the   *)
(* comparison, and are in order by it; which of several keys that equal a   *)
(* shorter one is met first depends on the shape of the tree.               *)
Insert(k, v) ==
  IF \E h \in headers : CaseCmpEqual(k, h.key) THEN headers
  ELSE headers \union {[key |-> k, value |-> v]}

Get(k) ==
  LET found == {h.value : h \in {g \in headers : CaseCmpEqual(k, g.key)}}
  IN  IF found = {} THEN {None} ELSE found

(* A value of which the prefix and the suffix share a symbol is taken for   *)
(* encoded, and the size of what is between them is below zero.             *)
TooShort(buf) == IsMimeEncoded(buf) /\ Len(buf) < Len(Prefix) + Len(Suffix)

(* mboxBufDecodeMimeEncoded copies from ten buffers after its argument, not *)
(* from ten bytes into its text: as many as are between the two, up to the  *)
(* first NUL.                                                               *)
Decoded(buf) ==
  IF IsMimeEncoded(buf)
  THEN {b \in HeapBytes : Len(b) <= Len(buf) - Len(Prefix) - Len(Suffix)} ELSE {buf}

AtFromLine == At(offset) = "From" /\ At(offset + 1) = " "

(* Is the parser about to collect a name?                                   *)
AtName == ~(pc # "name" /\ ~(pc = "turn" /\ offset < Len(text) /\ ~AtFromLine))
-----------------------------------------------------------------------------
(* Faulty variants of the steps below: what each property is there to tell  *)
(* from the code.  They are not part of the specification.                  *)

(* The tree of a message is used again for the next one. *)
MessageKeepsHeaders ==
  /\ pc = "parsed"
  /\ \E f \in Get(FromName), s \in Get(SubjectName), l \in Get(FromLineName) :
       list' = Append(list, [from |-> f, subject |-> s, from_line |-> l, source |-> source])
  /\ source' = None /\ text' = <<>> /\ offset' = 0
  /\ pc' = "idle"
  /\ UNCHANGED <<key, value, headers, filterVars>>

(* A value ends with its first line. *)
ValueOneLine ==
  /\ pc = "value"
  /\ Seek(NL, offset) <= Len(text)
  /\ value' = value \o Without(Between(offset, Seek(NL, offset)), {TAB})
  /\ offset' = Seek(NL, offset) + 1
  /\ pc' = "header"
  /\ UNCHANGED <<source, text, key, headers, list, filterVars>>

(* A match in the second message is put at the end. *)
FilterNodeAtTail ==
  /\ pc = "node"
  /\ list[node].from # None
  /\ filtered' =
       IF ContainsCasePatternWithTable(list[node].from, ComputePrefixTable(pattern), pattern)
       THEN Append(filtered, node) ELSE filtered
  /\ node' = IF node = Len(list) THEN 1 ELSE node + 1
  /\ pc' = IF node = Len(list) THEN "filtered" ELSE "node"
  /\ UNCHANGED <<parserVars, list, pattern>>

-----------------------------------------------------------------------------
Init ==
  /\ source = None
  /\ text = <<>> /\ offset = 0
  /\ key = <<>> /\ value = <<>> /\ headers = {}
  /\ list = <<>>
  /\ pattern = <<>> /\ node = 1 /\ filtered = None
  /\ pc = "idle"

(* A message from a scan or an index reaches mboxMsgLiteFromBuffer; that of *)
(* a context's start has the newline before its From line.                  *)
Receive(s) ==
  /\ pc = "idle" /\ Len(list) < MaxMessages
  /\ source' = s
  /\ text' \in {TextOf(s), <<NL>> \o TextOf(s)}
  /\ offset' = 0
  /\ pc' = "newlines"
  /\ UNCHANGED <<key, value, headers, list, filterVars>>

SkipNewlines ==
  /\ pc = "newlines"
  /\ offset' = SkipLines(offset)
  /\ pc' = "turn"
  /\ UNCHANGED <<source, text, key, value, headers, list, filterVars>>

(* A turn of the parser's loop at the From line: its text stays in key.     *)
FromLine ==
  /\ pc = "turn" /\ offset < Len(text) /\ AtFromLine
  /\ Seek(NL, offset) <= Len(text)
  /\ key' = key \o Between(offset, Seek(NL, offset))
  /\ headers' = Insert(FromLineName, key')
  /\ offset' = Seek(NL, offset) + 1
  /\ pc' = "name"
  /\ UNCHANGED <<source, text, value, list, filterVars>>

Name ==
  /\ AtName
  /\ Seek(":", offset) <= Len(text)
  /\ key' = key \o Between(offset, Seek(":", offset))
  /\ offset' = Seek(":", offset) + 2
  /\ pc' = "value"
  /\ UNCHANGED <<source, text, value, headers, list, filterVars>>

(* A line of the value, and another if the next one is indented.            *)
ValueLine ==
  /\ pc = "value"
  /\ Seek(NL, offset) <= Len(text)
  /\ value' = value \o Without(Between(offset, Seek(NL, offset)), {TAB})
  /\ offset' = Seek(NL, offset) + 1
  /\ pc' = IF At(offset') \in {" ", TAB} THEN "value" ELSE "header"
  /\ UNCHANGED <<source, text, key, headers, list, filterVars>>

(* The header goes into the tree; an empty line ends the headers.           *)
Header ==
  /\ pc = "header" /\ ~TooShort(value)
  /\ \E v \in Decoded(value) : headers' = Insert(key, v)
  /\ key' = <<>> /\ value' = <<>>
  /\ offset' = IF At(offset) = NL THEN SkipLines(offset) ELSE offset
  /\ pc' = IF At(offset) = NL THEN "parsed" ELSE "turn"
  /\ UNCHANGED <<source, text, list, filterVars>>

(* The copy of what is between is of nearly 2^64 bytes.                     *)
DecodeFaults ==
  /\ pc = "header" /\ TooShort(value)
  /\ pc' = "fault"
  /\ UNCHANGED <<parserVars, list, filterVars>>

TextEnds ==
  /\ pc = "turn" /\ offset >= Len(text)
  /\ pc' = "parsed"
  /\ UNCHANGED <<parserVars, list, filterVars>>

(* None of the parser's loops looks at the length of the buffer.            *)
Beyond ==
  /\ \/ pc = "turn" /\ offset < Len(text) /\ AtFromLine /\ Seek(NL, offset) > Len(text)
     \/ AtName /\ Seek(":", offset) > Len(text)
     \/ pc = "value" /\ Seek(NL, offset) > Len(text)
  /\ pc' = "beyond"
  /\ UNCHANGED <<parserVars, list, filterVars>>

(* The rest of mboxMsgLiteFromBuffer: the tree and the buffer are freed.    *)
Message ==
  /\ pc = "parsed"
  /\ \E f \in Get(FromName), s \in Get(SubjectName), l \in Get(FromLineName) :
       list' = Append(list, [from |-> f, subject |-> s, from_line |-> l, source |-> source])
  /\ source' = None /\ text' = <<>> /\ offset' = 0 /\ headers' = {}
  /\ pc' = "idle"
  /\ UNCHANGED <<key, value, filterVars>>

(* mboxMsgListFilterBySender: nothing of an empty list, else node by node.  *)
FilterBySender(p) ==
  /\ pc \in {"idle", "filtered"}
  /\ pattern' = p
  /\ node' = 1
  /\ filtered' = IF list = <<>> THEN None ELSE <<>>
  /\ pc' = IF list = <<>> THEN "filtered" ELSE "node"
  /\ UNCHANGED <<parserVars, list>>

FilterNode ==
  /\ pc = "node"
  /\ list[node].from # None
  /\ filtered' =
       IF ContainsCasePatternWithTable(list[node].from, ComputePrefixTable(pattern), pattern)
       THEN <<node>> \o filtered ELSE filtered
  /\ node' = IF node = Len(list) THEN 1 ELSE node + 1
  /\ pc' = IF node = Len(list) THEN "filtered" ELSE "node"
  /\ UNCHANGED <<parserVars, list, pattern>>

(* The search reads the text of a sender that is not there.                 *)
FilterFaults ==
  /\ pc = "node"
  /\ list[node].from = None
  /\ pc' = "fault"
  /\ UNCHANGED <<parserVars, list, filterVars>>

Next ==
  \/ \E s \in Sources : Receive(s)
  \/ SkipNewlines \/ FromLine \/ Name \/ ValueLine \/ Header \/ DecodeFaults
  \/ TextEnds \/ Beyond
  \/ Message
  \/ \E p \in Patterns : FilterBySender(p)
  \/ FilterNode \/ FilterFaults

Spec == Init /\ [][Next]_vars
-----------------------------------------------------------------------------
Strings == Seq(STRING)

Messages == [from : Strings \union {None}, subject : Strings \union {None},
             from_line : Strings \union {None}, source : Sources]

TypeOK ==
  /\ source \in Sources \union {None}
  /\ text \in Strings /\ key \in Strings /\ value \in Strings
  /\ offset \in Nat
  /\ \A h \in headers : h.key \in Strings /\ h.value \in Strings
  /\ list \in Seq(Messages)
  /\ pattern \in Patterns \union {<<>>}
  /\ node \in 1 .. Len(list) \union {1}
  /\ filtered \in Seq(Nat) \union {None}
  /\ pc \in {"idle", "newlines", "turn", "name", "value", "header", "parsed",
             "beyond", "node", "filtered", "fault"}

(* What the author of a header meant by it.                                 *)
ValueOf(h) == Without(FoldLeft(LAMBDA t, l : t \o l, h.first, h.more), {TAB})

Plain(h) == h.sep = <<":", " ">> /\ ~IsMimeEncoded(ValueOf(h))

(* The key under which the i-th header of plain ones is inserted.           *)
KeyOf(s, i) ==
  IF i = 1 /\ s.fromline THEN FromLineText \o s.headers[1].name ELSE s.headers[i].name

(* A header is found by its name with all of its lines, whatever came       *)
(* before it, unless it is the one after the From line or an earlier one    *)
(* has a name that begins with this one's or that this one's begins with;   *)
(* and then it is the only one that can be found.  The parser leaves the    *)
(* buffer only over a message with a line of another form, or without any.  *)
HeadersFound ==
  /\ pc = "parsed" =>
       \A i \in 1 .. Len(source.headers) :
         LET h == source.headers[i]
         IN  /\ \A j \in 1 .. i : Plain(source.headers[j])
             /\ KeyOf(source, i) = h.name
             /\ \A j \in 1 .. i - 1 : ~CaseCmpEqual(h.name, KeyOf(source, j))
             => Get(h.name) = {ValueOf(h)}
  /\ pc = "beyond" =>
       \/ source.headers = <<>>
       \/ \E i \in 1 .. Len(source.headers) : source.headers[i].sep # <<":", " ">>

(* Who a message is from: the value of its From header when that is the     *)
(* first that a look for From meets, and nobody when none is met, whatever  *)
(* messages were parsed before it.                                          *)
SenderFound ==
  \A n \in 1 .. Len(list) :
    LET s == list[n].source
        met == {i \in 1 .. Len(s.headers) : CaseCmpEqual(FromName, KeyOf(s, i))}
        one == CHOOSE i \in met : \A j \in met : i <= j
    IN  s.headers # <<>> /\ (\A i \in 1 .. Len(s.headers) : Plain(s.headers[i])) =>
          /\ met = {} => list[n].from = None
          /\ met # {} /\ s.headers[one].name = FromName
               => list[n].from = ValueOf(s.headers[one])

(* from is "Who message is from" (include/libmbox2.h:59): what the From     *)
(* header of a message says, wherever among its headers that is.            *)
SenderIsFrom ==
  \A n \in 1 .. Len(list) :
    LET s == list[n].source
    IN  \A i \in 1 .. Len(s.headers) :
          /\ \A j \in 1 .. Len(s.headers) : Plain(s.headers[j])
          /\ \A j \in 1 .. Len(s.headers) : s.headers[j].name = FromName <=> j = i
          => list[n].from = ValueOf(s.headers[i])

OccursIn(p, s) ==
  \E k \in 0 .. Len(s) - Len(p) : \A i \in 1 .. Len(p) : p[i] = s[k + i]

OneCase(p) == \A i, j \in 1 .. Len(p) : SameLetter(p[i], p[j]) => p[i] = p[j]

(* The filter returns messages whose sender has the pattern, each once and  *)
(* the latest first; all of them if the pattern has no letter in two cases  *)
(* (the table of the search tells them apart, the search does not).  The    *)
(* search for the exact pattern is right for every one.                     *)
FilterRight ==
  /\ TypeOK
  /\ pc = "filtered" /\ filtered # None =>
       LET hits == {n \in 1 .. Len(list) :
                      pattern # <<>> /\ OccursIn(AllLower(pattern), AllLower(list[n].from))}
       IN  /\ \A i \in 1 .. Len(filtered) : filtered[i] \in hits
           /\ \A i \in 2 .. Len(filtered) : filtered[i] < filtered[i - 1]
           /\ OneCase(pattern) => \A n \in hits : \E i \in 1 .. Len(filtered) : filtered[i] = n
           /\ \A n \in 1 .. Len(list) :
                ContainsPatternWithTable(list[n].from, ComputePrefixTable(pattern), pattern)
                  <=> pattern # <<>> /\ OccursIn(pattern, list[n].from)
=============================================================================
