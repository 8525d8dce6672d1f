--------------------------- MODULE MCChannelRing ---------------------------
(* Instances of ChannelRing for TLC. *)
EXTENDS ChannelRing
=============================================================================
