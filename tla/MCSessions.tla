---------------------------- MODULE MCSessions ----------------------------
(* An instance of Sessions for TLC. *)
EXTENDS Sessions

\* Every name of the channel tables for checksignal, one of each kind for the others.
Few == {<<"BS", 9, 1>>, <<Plain, 27>>, <<Plain, 999>>}
MCNamesOf(p) ==
  IF p = "checksignal" THEN BsNames \cup CsNames \cup GroundNames \cup {<<Plain, 999>>} ELSE Few

TwoDevices == <<"s0", "s1">>
OneDevice == <<"t0">>

Letter(minus, parts) == [kind |-> "letters", minus |-> minus, parts |-> parts]
Numbers(n) == [kind |-> "colon", n |-> n]
MCTexts ==
  { Dash, Numbers(<<1, 30>>), Numbers(<<0, 1, 30>>), Numbers(<<20, 0>>),
    Letter(FALSE, <<<<90, "S">>>>), Letter(FALSE, <<<<1, "H">>, <<30, "M">>>>),
    Letter(FALSE, <<<<1, "H">>, <<5, "S">>>>), Letter(FALSE, <<<<2, "M">>, <<7, "S">>>>),
    Letter(FALSE, <<<<5, "M">>, <<1, "H">>>>), Letter(FALSE, <<<<9, "H">>, <<8, "M">>, <<7, "S">>>>),
    Letter(FALSE, <<<<20, "H">>>>), Letter(TRUE, <<<<1, "S">>>>), Letter(TRUE, <<<<1, "M">>>>) }
=============================================================================
