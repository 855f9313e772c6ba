----------------------------- MODULE MCMboxDate -----------------------------
(* Dates of every month, with days of one and two digits, in the formats of *)
(* the library and of its tests, whole and with parts left out.             *)
EXTENDS MboxDate

Small == <<"a","b","c","d","e","f","g","j","l","m","n","o","p","r","s","t","u","v","w","y">>
Large == <<"A","B","C","D","E","F","G","J","L","M","N","O","P","R","S","T","U","V","W","Y">>

MCLetters == [c \in {Large[i] : i \in DOMAIN Large} |->
                  Small[CHOOSE i \in DOMAIN Large : Large[i] = c]]

Part(chars, value) == [text |-> chars, value |-> value]

MonthParts == {Part(Months[n], n - 1) : n \in 1 .. 12}
                \union {Part(<<"F","E","B">>, 1), Part(<<"f","e","b">>, 1),
                        Part(<<"F","e","b","r","u","a","r","y">>, 1)}

DayParts == {Part(<<"5">>, 5), Part(<<"0","9">>, 9), Part(<<"2","8">>, 28)}

YearParts == {Part(<<"2","0","2","3">>, 2023), Part(<<"2","0","2","4">>, 2024)}

Zone(chars, value, minutes) == [text |-> chars, value |-> value, minutes |-> minutes]

ZoneParts == {Zone(<<"+","0","0","0","0">>, 0, 0), Zone(<<"-","0","8","0","0">>, -800, -480),
              Zone(<<"+","0","5","3","0">>, 530, 330), Zone(<<"-","0","0","3","0">>, -30, -30),
              Zone(<<"-","0","0","0","1">>, -1, -1)}

MCDates ==
  {[f \in Fields |->
      CASE f = "%a" -> Part(<<"F","r","i">>, 5)
        [] f = "%b" -> b [] f = "%d" -> d [] f = "%Y" -> y [] f = "%z" -> z
        [] f = "%H" -> Part(<<"0","7">>, 7)
        [] f = "%M" -> Part(<<"3","0">>, 30)
        [] f = "%S" -> Part(<<"0","0">>, 0)] :
    b \in MonthParts, d \in DayParts, y \in YearParts, z \in ZoneParts}

Hour == <<"%H", ":", "%M">>
Time == Hour \o <<":", "%S">>

Mail     == <<"%d", " ", "%b", " ", "%Y", " ">> \o Time \o <<" ", "%z">>
Dated    == <<"%a", ",", " ">> \o Mail
FromShape == <<"%a", " ", "%b", " ", "%d", " ">> \o Time \o <<" ", "%z", " ", "%Y">>
Note     == <<" ", "(">>

Shapes == {<<Mail, Mail>>, <<Mail \o Note, Mail>>, <<SubSeq(Mail, 1, Len(Mail) - 2), Mail>>,
           <<SubSeq(Mail, 1, 9), Mail>>, <<Dated, Mail>>, <<Dated, Dated>>, <<FromShape, FromShape>>,
           <<SubSeq(Mail, 1, 9) \o <<" ", "%z">>, Mail>>, <<Mail, FromShape>>,
           <<Dated, FromShape>>}

MCCases == {[date |-> d, shape |-> s[1], format |-> s[2]] : d \in MCDates, s \in Shapes}

(* Whole dates of the form of the library.                                  *)
WholeCases == {c \in MCCases : c.shape = Mail /\ c.format = Mail}
=============================================================================
