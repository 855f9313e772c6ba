------------------------------ MODULE MboxBuf ------------------------------
(***************************************************************************)
(* What the messages need of the buffers of src/mbox-buf.c: the comparison *)
(* of names, the search by Knuth, Morris and Pratt in both of its forms,   *)
(* and the test for an encoded value.  A buffer is the sequence of its     *)
(* symbols; a symbol is a letter, or a word that is never taken apart.     *)
(***************************************************************************)
EXTENDS Integers, Sequences, SequencesExt

CONSTANT LowerCase   \* the small letter of each capital

NUL == "nul"   \* at the end of a string

Lower(c) == IF c \in DOMAIN LowerCase THEN LowerCase[c] ELSE c

AllLower(s) == [i \in DOMAIN s |-> Lower(s[i])]

SameLetter(c, d) == Lower(c) = Lower(d)

-----------------------------------------------------------------------------
(* mboxBufCaseCmp answers 0: it looks at as many letters as the shorter     *)
(* buffer has.                                                              *)
CaseCmpEqual(b1, b2) ==
  \A i \in 1 .. (IF Len(b1) < Len(b2) THEN Len(b1) ELSE Len(b2)) :
    SameLetter(b1[i], b2[i])

(* The next number of matched symbols, when the pattern's first q are       *)
(* matched and c comes next.  The same loop is in the three operators below *)
(* (a table's index is one more than in C).                                 *)
Advance(pattern, table, q, c) ==
  LET fallback[k \in 0 .. Len(pattern)] ==
        IF k > 0 /\ pattern[k + 1] # c THEN fallback[table[k]] ELSE k
      k0 == fallback[q]
  IN  IF pattern[k0 + 1] = c THEN k0 + 1 ELSE k0

(* For each place the length of the longest border that ends there, always  *)
(* with the letters as they are written.                                    *)
ComputePrefixTable(pattern) ==
  LET extend(table, c) == Append(table, Advance(pattern, table, Last(table), c))
  IN  FoldLeft(extend, <<0>>, SubSeq(pattern, 2, Len(pattern)))

(* How much of the pattern is matched after each symbol of the text; a full *)
(* match ends the search.                                                   *)
Matching(text, table, pattern) ==
  LET step(q, c) == IF q = Len(pattern) THEN q ELSE Advance(pattern, table, q, c)
  IN  FoldLeft(step, 0, text)

ContainsPatternWithTable(text, table, pattern) ==
  pattern # <<>> /\ Matching(text, table, pattern) = Len(pattern)

ContainsCasePatternWithTable(text, table, pattern) ==
  pattern # <<>> /\ Matching(AllLower(text), table, AllLower(pattern)) = Len(pattern)

-----------------------------------------------------------------------------
Prefix == <<"=?utf-8?Q", "?">>
Suffix == <<"?", "=">>

IsMimeEncoded(buf) == IsPrefix(Prefix, buf) /\ IsSuffix(Suffix, buf)
=============================================================================
