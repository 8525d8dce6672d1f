--------------------------- MODULE MCBlockQueue ---------------------------
(* Instances of BlockQueue for TLC. *)
EXTENDS BlockQueue
=============================================================================
