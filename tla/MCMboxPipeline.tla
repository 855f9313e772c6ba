--------------------------- MODULE MCMboxPipeline ---------------------------
(* A small instance of MboxPipeline. *)
EXTENDS MboxPipeline
=============================================================================
