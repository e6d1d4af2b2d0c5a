--------------------------- MODULE MCCheckpointing ---------------------------
(* Two deposits, over any number of lives. *)
EXTENDS Checkpointing
=============================================================================
