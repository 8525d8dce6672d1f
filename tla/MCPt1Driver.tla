---------------------------- MODULE MCPt1Driver ----------------------------
(* Instances of Pt1Driver for TLC: which devices the programs try. *)
EXTENDS Pt1Driver

\* Two programs that look for a satellite tuner in the same order, and one
\* that looks for the terrestrial one.
Rivals == [a \in Apps |-> IF a = "C" THEN <<"T0">> ELSE <<"S0", "S1">>]

\* A program for each of two terrestrial channels.
OneEach == [a \in Apps |-> IF a = "A" THEN <<"T0">> ELSE <<"T1">>]
=============================================================================
