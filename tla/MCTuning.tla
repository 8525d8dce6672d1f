----------------------------- MODULE MCTuning -----------------------------
(* An instance of Tuning for TLC: a satellite and a terrestrial channel of one card. *)
EXTENDS Tuning, TLC

MCCardOf == ("s" :> "card0" @@ "t" :> "card0")
MCKindOf == ("s" :> "S" @@ "t" :> "T")
MCAddrOf == ("s" :> 27 @@ "t" :> 26)
MCRequests ==
  ("s" :> {searchrecoff(<<"BS", 9, 0>>), searchrecoff(<<"CS", 8>>)}
   @@ "t" :> {searchrecoff(<<Plain, 27>>)})

\* BS-9 has two TS; nothing is received on CS-8.
MCTsOnAir ==
  (Tuned(searchrecoff(<<"BS", 9, 0>>)) :> <<16528, 16529>> @@ Tuned(searchrecoff(<<Plain, 27>>)) :> <<>>)

\* What BlocksAssumption asks of Blocks holds of every transfer for every name of the
\* channel table, and every TS-ID of 16 bits at the bounds of its bytes.
ASSUME TableAssumption ==
  \A name \in BsNames \cup CsNames \cup GroundNames :
    LET r == searchrecoff(name) IN
    \A what \in Steps(r.type) : \A n \in 1 .. 4 : \A id \in KnownTs \cup {255, 256, 65535} :
      LET order == Order(r.type, r, what, n, id) IN
      order[1] \in Seq(0 .. 255) /\ 66 + (27 * Len(order[1])) + (35 * order[2]) <= ProgramWords
=============================================================================
