--------------------------- MODULE MCLookbackPool ---------------------------
(* Small instances of LookbackPool.  Jobs are interchangeable model values; *)
(* workers are numbers, since they are joined in order.                     *)
EXTENDS LookbackPool
=============================================================================
