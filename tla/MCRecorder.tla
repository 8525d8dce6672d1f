---------------------------- MODULE MCRecorder ----------------------------
(* Instances of Recorder for TLC: the messages recpt1ctl sends in each run. *)
EXTENDS Recorder

\* recpt1ctl without --channel sends a channel that does not exist.
NoChannel == "(null)"

NoMessages == {}
ExtendMessages == {[ch |-> NoChannel, t |-> 0, e |-> 1]}
TimeMessages == {[ch |-> NoChannel, t |-> 2, e |-> 0]}
RetuneMessages == {[ch |-> "27", t |-> 0, e |-> 0]}
ChannelMessages == RetuneMessages \cup {[ch |-> "BS3", t |-> 0, e |-> 0]}

\* A recording of a second, and one with "-".
ShortOrEndless == {1, -1}
=============================================================================
