------------------------------ MODULE MCCard ------------------------------
(* An instance of Card for TLC *)
EXTENDS Card
=============================================================================
