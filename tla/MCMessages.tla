----------------------------- MODULE MCMessages -----------------------------
(* What a short message is made of: `reads' says whether the header parser  *)
(* and the filter of MboxMsg run, or the date parser of MboxDate, which     *)
(* share no state; the other one stays as it began.                         *)
EXTENDS MCMboxMsg, MCMboxDate

VARIABLE reads

AnyCase == CHOOSE c \in Cases : TRUE

MessagesInit ==
  \/ reads = "date" /\ Init /\ DateInit
  \/ reads = "headers" /\ Init /\ case = AnyCase /\ local = 0 /\ DateInit

HeadersRead == reads = "headers" /\ Next /\ UNCHANGED <<dateVars, reads>>

DateRead == reads = "date" /\ DateNext /\ UNCHANGED <<vars, reads>>

MessagesNext == HeadersRead \/ DateRead

MessagesSpec == MessagesInit /\ [][MessagesNext]_<<vars, dateVars, reads>>
=============================================================================
