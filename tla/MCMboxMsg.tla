----------------------------- MODULE MCMboxMsg -----------------------------
(* Messages whose headers have names that clash and do not, values of one   *)
(* line and of three, an encoded one, and lines without a colon or a blank; *)
(* and senders to search in, alone and in twos.                             *)
EXTENDS MboxMsg

MCLowerCase == [c \in {"A", "B"} |-> IF c = "A" THEN "a" ELSE "b"]

H(name, sep, first, more) == [name |-> name, sep |-> sep, first |-> first, more |-> more]

Sep == <<":", " ">>

From     == H(<<"From">>, Sep, <<"a", "b">>, <<>>)
LongFrom == H(<<"From">>, Sep, <<"b">>, <<<<TAB, "A">>, <<" ", "a">>>>)

Others == {H(<<"Subject">>, Sep, <<"b", ":", " ", "b">>, <<>>),
           H(<<"Date">>, Sep, <<"b">>, <<>>),
           H(<<"Date", "-Received">>, Sep, <<"a">>, <<>>)}

(* An encoded value, one with nothing in it, one whose prefix and suffix    *)
(* overlap; no value and no blank, no blank, no colon.                      *)
Odd == {H(<<"Subject">>, Sep, Prefix \o <<"a", "b">> \o Suffix, <<>>),
        H(<<"Subject">>, Sep, Prefix \o Suffix, <<>>),
        H(<<"Subject">>, Sep, Prefix \o Tail(Suffix), <<>>),
        H(<<"Subject">>, <<":">>, <<>>, <<>>),
        H(<<"Subject">>, <<":">>, <<"b", "b">>, <<>>),
        H(<<"Subject">>, <<>>, <<"b">>, <<>>)}

Regular == {<<>>, <<From>>, <<LongFrom>>}
             \union {<<o, LongFrom>> : o \in Others} \union {<<From, o>> : o \in Others}
             \union {<<o, From, d>> : o, d \in Others}

Irregular == {<<o>> : o \in Odd} \union {<<o, From>> : o \in Odd} \union {<<From, o>> : o \in Odd}

(* Senders of at most two letters and some of more, with borders.           *)
Letters(n) == [1 .. n -> {"a", "A", "b"}]

Senders == Letters(0) \union Letters(1) \union Letters(2)
             \union {<<"a", "a", "a", "b">>, <<"a", "A", "a", "b">>, <<"a", "b", "A", "b", "a">>,
                     <<"b", "a", "b", "a", "a">>, <<"a", "b", "a", "a", "b", "a", "b">>}

MCSources ==
  [fromline : BOOLEAN, headers : Regular, body : {<<>>}]
    \union [fromline : BOOLEAN, headers : Irregular, body : {<<>>, <<"b", ":", NL>>}]
    \union {[fromline |-> FALSE, headers |-> <<H(<<"From">>, Sep, s, <<>>)>>, body |-> <<>>] : s \in Senders}

MCPatterns == {<<>>, <<"b">>, <<"A">>, <<"a", "a">>, <<"a", "B">>, <<"a", "a", "b">>, <<"a", "A", "b">>,
               <<"a", "b", "a">>, <<"b", "a", "a">>, <<"a", "b", "a", "b">>}

MCHeapBytes == {<<>>, <<"b", "a">>}
=============================================================================
