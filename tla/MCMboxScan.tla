----------------------------- MODULE MCMboxScan -----------------------------
(* Files of one to three short messages, in both styles of line ends, of    *)
(* two short messages before one of several blocks, and files that do not   *)
(* begin with a message.                                                    *)
EXTENDS MboxScan

X(k) == [i \in 1 .. k |-> "x"]

Message(eol, header, body) ==
  <<"F">> \o X(header) \o eol \o eol \o X(body) \o eol

Join(A, B) == {m \o n : m \in A, n \in B}

Short(eol) == {Message(eol, header, body) : header \in {0, 1}, body \in {0, 1, 5, 9}}
Long(eol)  == {Message(eol, 0, body) : body \in 36 .. 40}

Style(eol) ==
  LET one == Short(eol)
      two == Join(one, one)
  IN  one \union two \union Join(two, one)

Preambles == {<<"x">>, <<"n">>, <<"x", "x", "n">>, <<"x", "F", "n">>, X(7)}

Mailboxes ==
  Style(<<"n">>) \union Style(<<"r", "n">>)
    \union Join(Join(Short(<<"n">>), Short(<<"n">>)), Long(<<"n">>))

MCFiles ==
  Mailboxes \union Join(Preambles, Short(<<"n">>) \union Join(Short(<<"n">>), Short(<<"n">>)))

ASSUME MailboxesAssumption == \A f \in Mailboxes : Mailbox(f)
=============================================================================
