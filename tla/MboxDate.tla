------------------------------ MODULE MboxDate ------------------------------
(***************************************************************************)
(* src/mbox-date.c: a date is read by a format, turn by turn of one loop,   *)
(* and made a timestamp, as mboxMsgLiteFromBuffer does with the Date header *)
(* of a message (src/mbox-msg.c).                                           *)
(*                                                                         *)
(* A text is the sequence of its characters.  In a format a conversion is   *)
(* one symbol.  What was written is a function from conversions to parts,   *)
(* each with its text and its value.                                        *)
(*                                                                         *)
(* The names that every specification has begin with Date here, so that one *)
(* module can check this one and the messages.                              *)
(***************************************************************************)
EXTENDS MboxBuf, FiniteSets

CONSTANTS
  Cases,         \* what is read: a date, the shape it has, and a format
  LocalOffsets   \* seconds by which the local time may be ahead of UTC

Unset == -1

Days   == <<<<"S","u","n">>, <<"M","o","n">>, <<"T","u","e">>, <<"W","e","d">>,
            <<"T","h","u">>, <<"F","r","i">>, <<"S","a","t">>>>
Months == <<<<"J","a","n">>, <<"F","e","b">>, <<"M","a","r">>, <<"A","p","r">>,
            <<"M","a","y">>, <<"J","u","n">>, <<"J","u","l">>, <<"A","u","g">>,
            <<"S","e","p">>, <<"O","c","t">>, <<"N","o","v">>, <<"D","e","c">>>>

Fields == {"%a", "%b", "%d", "%Y", "%H", "%M", "%S", "%z"}

(* The letter of a conversion, at which *format is left by the switch.      *)
Letter(sym) ==
  CASE sym = "%a" -> "a" [] sym = "%b" -> "b" [] sym = "%d" -> "d" [] sym = "%Y" -> "Y"
    [] sym = "%H" -> "H" [] sym = "%M" -> "M" [] sym = "%S" -> "S" [] sym = "%z" -> "z"
    [] OTHER -> sym

Digits == <<"0", "1", "2", "3", "4", "5", "6", "7", "8", "9">>

IsDigit(c) == \E n \in 1 .. 10 : Digits[n] = c

DigitValue(c) == (CHOOSE n \in 1 .. 10 : Digits[n] = c) - 1

(* A date as it is written in a shape.                                      *)
Written(date, shape) ==
  FoldLeft(LAMBDA t, sym : t \o (IF sym \in Fields THEN date[sym].text ELSE <<sym>>),
           <<>>, shape)

VARIABLES
  case,        \* what is read (history)
  local,       \* how far the local time is ahead of UTC
  dateText,    \* the string
  str,         \* strdate, counted from 1
  endptr,      \* where the last number ended
  fmt,         \* format
  tm,          \* the fields of t
  timestamp,   \* msg->unix_timestamp
  datePc

dateVars == <<case, local, dateText, str, endptr, fmt, tm, timestamp, datePc>>

CharAt(i) == IF i <= Len(dateText) THEN dateText[i] ELSE NUL

Sym == case.format[fmt]

(* strncasecmp of the three letters at str with a word of a table.          *)
Matches(word) == \A k \in 1 .. 3 : SameLetter(CharAt(str + k - 1), word[k])

(* strtol at str: blanks, a sign, digits.  It ends where it began if there  *)
(* are no digits.                                                           *)
Strtol ==
  LET first(i, S) == CHOOSE j \in i .. Len(dateText) + 1 :
                       CharAt(j) \notin S /\ \A k \in i .. j - 1 : CharAt(k) \in S
      sign == first(str, {" "})
      from == IF CharAt(sign) \in {"+", "-"} THEN sign + 1 ELSE sign
      end  == first(from, {Digits[n] : n \in 1 .. 10})
      size == FoldLeft(LAMBDA v, c : 10 * v + DigitValue(c), 0, SubSeq(dateText, from, end - 1))
  IN  IF end = from THEN [value |-> 0, end |-> str]
      ELSE [value |-> IF CharAt(sign) = "-" THEN -size ELSE size, end |-> end]

-----------------------------------------------------------------------------
(* mktime of the C library, for dates from 1970 to 2099: minutes and        *)
(* seconds may be out of their ranges, and the fields are in local time.    *)
DaysBefore(mon) == <<0, 31, 59, 90, 120, 151, 181, 212, 243, 273, 304, 334>>[mon + 1]

DayNumber(year, mon, mday) ==
  365 * (year - 1970) + (year - 1969) \div 4 + DaysBefore(mon)
    + (IF year % 4 = 0 /\ mon > 1 THEN 1 ELSE 0) + mday - 1

Mktime(t) ==
  86400 * DayNumber(t["%Y"], t["%b"], t["%d"])
    + 3600 * t["%H"] + 60 * t["%M"] + t["%S"] - local

-----------------------------------------------------------------------------
(* Faulty variants of the steps below: what each property is there to tell  *)
(* from the code.  They are not part of the specification.                  *)

(* The end of the string is not looked for after a number. *)
GoOnBlindly(s, e) ==
  /\ endptr' = e
  /\ str' = IF Letter(Sym) = CharAt(s) THEN s + 1 ELSE s
  /\ fmt' = fmt + 1
  /\ UNCHANGED datePc

(* The weekday leaves its last letter in the string, as the month does. *)
WeekdayLeavesLetter ==
  /\ datePc = "turn" /\ str <= Len(dateText) /\ fmt <= Len(case.format)
  /\ Sym = "%a"
  /\ \E n \in 1 .. 7 : Matches(Days[n]) /\ tm' = [tm EXCEPT !["%a"] = n - 1]
  /\ str' = str + 2 /\ fmt' = fmt + 1
  /\ UNCHANGED <<case, local, dateText, endptr, timestamp, datePc>>


-----------------------------------------------------------------------------
(* mboxDateStructToUnix: a zone of 0 or -1 is none.                         *)
StructToUnix(t) ==
  LET zone == t["%z"]
      size == IF zone < 0 THEN -zone ELSE zone
      diff == 3600 * (size \div 100) + 60 * (size % 100)
  IN  IF zone \in {0, Unset} THEN Mktime(t)
      ELSE IF zone < Unset THEN Mktime(t) + diff ELSE Mktime(t) - diff

-----------------------------------------------------------------------------
DateInit ==
  /\ case \in Cases
  /\ local \in LocalOffsets
  /\ dateText = Written(case.date, case.shape)
  /\ str = 1 /\ endptr = 1 /\ fmt = 1
  /\ tm = [f \in Fields |-> Unset]
  /\ timestamp = 0
  /\ datePc = "turn"

(* The loop goes on while there is something of both.                       *)
Turn(sym) ==
  /\ datePc = "turn"
  /\ str <= Len(dateText) /\ fmt <= Len(case.format)
  /\ Sym = sym

(* The end of a turn, with strdate at s and endptr at e: a number that ends *)
(* the string ends the parse; otherwise the format goes on, and the string  *)
(* only past a character that is the one in the format.  After a conversion *)
(* that is its letter.                                                      *)
GoOn(s, e) ==
  /\ endptr' = e
  /\ IF CharAt(e) = NUL
     THEN datePc' = "parsed" /\ UNCHANGED <<str, fmt>>
     ELSE /\ str' = IF Letter(Sym) = CharAt(s) THEN s + 1 ELSE s
          /\ fmt' = fmt + 1
          /\ UNCHANGED datePc

Weekday ==
  /\ Turn("%a")
  /\ \E n \in 1 .. 7 : Matches(Days[n]) /\ tm' = [tm EXCEPT !["%a"] = n - 1]
  /\ GoOn(str + 3, endptr)
  /\ UNCHANGED <<case, local, dateText, timestamp>>

Month ==
  /\ Turn("%b")
  /\ \E n \in 1 .. 12 : Matches(Months[n]) /\ tm' = [tm EXCEPT !["%b"] = n - 1]
  /\ GoOn(str + 2, endptr)
  /\ UNCHANGED <<case, local, dateText, timestamp>>

Day ==
  /\ Turn("%d")
  /\ Strtol.end # str
  /\ tm' = [tm EXCEPT !["%d"] = Strtol.value]
  /\ GoOn(str + 2, Strtol.end)
  /\ UNCHANGED <<case, local, dateText, timestamp>>

Number(field) ==
  /\ Turn(field)
  /\ Strtol.end # str
  /\ tm' = [tm EXCEPT ![field] = Strtol.value]
  /\ GoOn(Strtol.end + 1, Strtol.end)
  /\ UNCHANGED <<case, local, dateText, timestamp>>

(* mboxDateStringToStruct returns 0, which its caller does not look at: no  *)
(* name of the table, or no number, when strtol has set the field to 0.     *)
NameFails ==
  /\ \/ Turn("%a") /\ \A n \in 1 .. 7 : ~Matches(Days[n])
     \/ Turn("%b") /\ \A n \in 1 .. 12 : ~Matches(Months[n])
  /\ datePc' = "parsed"
  /\ UNCHANGED <<case, local, dateText, str, endptr, fmt, tm, timestamp>>

NumberFails(field) ==
  /\ Turn(field)
  /\ Strtol.end = str
  /\ tm' = [tm EXCEPT ![field] = 0]
  /\ datePc' = "parsed"
  /\ UNCHANGED <<case, local, dateText, str, endptr, fmt, timestamp>>

Literal ==
  /\ \E c \in {" ", ",", ":"} : Turn(c)
  /\ GoOn(str, endptr)
  /\ UNCHANGED <<case, local, dateText, tm, timestamp>>

LoopEnds ==
  /\ datePc = "turn"
  /\ ~(str <= Len(dateText) /\ fmt <= Len(case.format))
  /\ datePc' = "parsed"
  /\ UNCHANGED <<case, local, dateText, str, endptr, fmt, tm, timestamp>>

(* mboxMsgLiteFromBuffer asks whether the hour was read.                    *)
Timestamp ==
  /\ datePc = "parsed"
  /\ timestamp' = IF tm["%H"] # Unset THEN StructToUnix(tm) ELSE 0
  /\ datePc' = "done"
  /\ UNCHANGED <<case, local, dateText, str, endptr, fmt, tm>>

DateNext ==
  \/ Weekday \/ Month \/ Day
  \/ \E f \in {"%Y", "%H", "%M", "%S", "%z"} : Number(f)
  \/ NameFails \/ \E f \in Fields \ {"%a", "%b"} : NumberFails(f)
  \/ Literal \/ LoopEnds
  \/ Timestamp
  \/ datePc = "done" /\ UNCHANGED dateVars

DateSpec == DateInit /\ [][DateNext]_dateVars
-----------------------------------------------------------------------------
(* The parser steps over two or three characters, or one beyond a number,   *)
(* without a look at them, and compares the next one: all that it compares  *)
(* is in the string or the NUL at its end.                                  *)
InText ==
  /\ str \in 1 .. Len(dateText) + 1 /\ endptr \in 1 .. Len(dateText) + 1
  /\ fmt \in 1 .. Len(case.format) + 1

(* A date in the shape that the format asks for, up to where one of them    *)
(* ends.                                                                    *)
ShapeFits == IsPrefix(case.shape, case.format) \/ IsPrefix(case.format, case.shape)

(* The month whose last letter, which %b leaves in the string, is the       *)
(* letter of its conversion.                                                *)
MonthFits ==
  LET name == case.date["%b"].text IN Len(name) = 3 /\ name[3] = Letter("%b")

Has(f) == \E i \in 1 .. Len(case.shape) : case.shape[i] = f

ReadTo(n) == \A i \in 1 .. n : case.format[i] \in Fields =>
               tm[case.format[i]] = case.date[case.format[i]].value

(* A date of this shape is parsed, as by strptime, of which the parser is a  *)
(* "home rolled version" (src/mbox-date.c:19-20): each field that is in it  *)
(* is read as it was written.                                               *)
FieldsRead ==
  datePc = "done" /\ ShapeFits =>
    ReadTo(IF Len(case.shape) < Len(case.format) THEN Len(case.shape) ELSE Len(case.format))

(* The fields before the month are read as they were written, however many  *)
(* digits a day has; so are the month and all after it, for the month that  *)
(* fits; and a field that the date does not have is not made up.            *)
FieldsRight ==
  datePc = "done" /\ ShapeFits =>
    /\ MonthFits => FieldsRead
    /\ \A n \in 1 .. Len(case.format) :
         n <= Len(case.shape) /\ (\A i \in 1 .. n : case.format[i] # "%b") => ReadTo(n)
    /\ \A f \in Fields : ~Has(f) => tm[f] \in {Unset, 0}

(* The moment a date names, in seconds.                                     *)
Instant ==
  LET d == case.date
  IN  86400 * DayNumber(d["%Y"].value, d["%b"].value, d["%d"].value)
        + 3600 * d["%H"].value + 60 * d["%M"].value + d["%S"].value
        - (IF Has("%z") THEN 60 * d["%z"].minutes ELSE 0)

(* A message has in unix_timestamp the time at which it was sent            *)
(* (include/libmbox2.h:64-65), if its date has that in full.                *)
SentWhen ==
  datePc = "done" /\ ShapeFits /\ Has("%S") => timestamp = Instant

=============================================================================
