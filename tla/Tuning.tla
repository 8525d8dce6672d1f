------------------------------ MODULE Tuning ------------------------------
(***************************************************************************)
(* SET_CHANNEL and GET_SIGNAL_STRENGTH: the transfers of module I2cBus in     *)
(* the order in which pt1_tuner.c makes them, what each answer makes it do,   *)
(* and the chips at the other end.  Each caller has a channel, with a chip     *)
(* of its own; the channels of a card share the card's FIFO.                   *)
(***************************************************************************)
EXTENDS I2cBus, Channels

CONSTANTS
  KindOf, AddrOf,   \* per caller: "S" or "T"; the chip's address on the bus
  Requests,         \* per caller: the entries of the channel table it is asked for
  MAX_BS_TS_ID,     \* 8 in the code; each of the four bs_get_ts_id reads two
  MaxTries,         \* the loops' 100, 200 and 1000 reads
  TsOnAir           \* per MHz that can be received: its TS-IDs (none: of a T channel)

ASSUME TuningAssumption ==
  /\ MAX_BS_TS_ID \in {2, 4, 6, 8} /\ MaxTries \in Nat \ {0}
  /\ \A c, d \in Callers : c # d /\ CardOf[c] = CardOf[d] => AddrOf[c] # AddrOf[d]
  /\ \A c \in Callers : \A r \in Requests[c] :
       /\ r \in [freq : Nat, slot : Nat, type : {"S", "T"}]
       /\ KindOf[c] = "S" =>    \* numbers of the table, with TS for each slot on the air
            LET mhz == BsMHz(bs_pll[r.freq + 1]) IN
            /\ r.freq < MAX_BS_CHANNEL /\ r.slot < MAX_BS_TS_ID
            /\ mhz \in DOMAIN TsOnAir => TsOnAir[mhz] \in [1 .. MAX_BS_TS_ID -> Nat]

NoTs == 65535

VARIABLES
  req,        \* per caller: the request in work, or the last one
  step,       \* "idle", or the transfer that comes next
  try, lp,    \* the loop variables
  ts_id,      \* tmcc.ts_id, as far as it is filled
  final,      \* the last ts_lock, the one of SetFreq
  outcome,    \* of the last SET_CHANNEL: "none", "ok", "error"
  chip,       \* per caller: [mhz, ts] of its chip
  short       \* history: the reads of the TS-IDs ran out

jobVars == <<req, step, try, lp, ts_id, final, outcome, short>>
tuningVars == <<vars, jobVars, chip>>

-----------------------------------------------------------------------------
(* pt1_tuner_data.c: the transfers by name *)

bs_get_ts_id == <<<<206>>, <<210>>, <<214>>, <<218>>>>
bs_set_ts_lock(id) == <<143>> \o Bytes2(id)

\* The steps of bs_tune and of isdb_t_frequency, and what each sends for request r and
\* how many bytes it reads back: n counts the loop's rounds, id is the TS to lock.
TsSteps == {"ids", "agc", "slot", "set", "get", "clock", "carrier"}
BsSteps == {"pll1", "pll2", "pll3", "pll", "tmcc1", "tmcc"} \cup TsSteps
GroundSteps == {"base", "lock", "check", "tune"}
Steps(kind) == {"signal1", "signal2"} \cup (IF kind = "S" THEN BsSteps ELSE GroundSteps)

Order(kind, r, what, n, id) ==
  LET commands == BsCommands(r.freq) IN
  CASE what = "pll1" -> <<commands[1], 0>>    [] what = "pll2" -> <<commands[2], 0>>
    [] what = "pll3" -> <<commands[3], 0>>    [] what = "pll" -> <<<<254, 193>>, 1>>
    [] what = "tmcc1" -> <<<<3, 1>>, 0>>      [] what = "tmcc" -> <<<<195>>, 1>>
    [] what = "ids" -> <<bs_get_ts_id[n], 4>>
    [] what = "agc" -> <<<<186>>, 1>>         [] what = "slot" -> <<<<232>>, 3>>
    [] what = "set" -> <<bs_set_ts_lock(id), 0>>
    [] what = "get" -> <<<<230>>, 2>>
    [] what = "clock" -> <<<<190>>, 1>>       [] what = "carrier" -> <<<<187>>, 1>>
    [] what = "signal1" -> <<<<IF kind = "S" THEN 188 ELSE 140>>, 1>>
    [] what = "signal2" -> <<<<IF kind = "S" THEN 189 ELSE 141>>, 1>>
    [] what = "base" -> <<TCommand(r.freq, r.slot), 0>>
    [] what = "lock" -> <<<<254, 195>>, 1>>
    [] what = "check" -> <<<<1, 64>>, 0>>     [] what = "tune" -> <<<<128>>, 1>>

Sent(c) == Order(KindOf[c], req[c], step[c], lp[c], ts_id[c][lp[c]])

\* Every transfer that the requests can lead to; an answer that is not the chip's may
\* name TS 1.
KnownTs == {0, 1, NoTs} \cup UNION {ToSet(TsOnAir[mhz]) : mhz \in DOMAIN TsOnAir}
Transfers ==
  UNION {UNION {{[addr |-> AddrOf[c], value |-> order[1], read |-> order[2]] :
                   order \in {Order(KindOf[c], r, what, n, id) :
                                r \in Requests[c], n \in 1 .. MAX_BS_TS_ID \div 2, id \in KnownTs}} :
                what \in Steps(KindOf[c])} : c \in Callers}

ASSUME TransfersAssumption == Transfers \subseteq Blocks

-----------------------------------------------------------------------------
(* The chips *)

\* A program that has run whole is a write or a read; the PLL command sets the
\* frequency, 143 chooses the TS.
Off == [mhz |-> 0, ts |-> 0]
Word16(v, i) == (v[i] * 256) + v[i + 1]
Taken(old, kind, v) ==
  IF Len(v) = 6 /\ kind = "S" THEN [mhz |-> BsMHz(<<Word16(v, 3), v[6]>>), ts |-> 0]
  ELSE IF Len(v) = 6 THEN [mhz |-> TMHz(Word16(v, 3)), ts |-> 0]
  ELSE IF v[1] = 143 THEN [old EXCEPT !.ts = Word16(v, 2)]
  ELSE old

ChipsTake(k) ==
  LET w == fifo[k][2] IN
  chip' = [c \in Callers |->
    IF CardOf[c] = k /\ AddrOf[c] = w.addr THEN Taken(chip[c], KindOf[c], w.value) ELSE chip[c]]

\* An answer is the chip's if the program has run; else it is anything.
Sound(c) == ~hung[Card(c)] /\ Answer(c) = c
OnAirNow(c) == chip[c].mhz \in DOMAIN TsOnAir
Ids(c) == IF OnAirNow(c) THEN TsOnAir[chip[c].mhz] ELSE <<>>

-----------------------------------------------------------------------------
TuningInit ==
  /\ Init
  /\ req = [c \in Callers |-> CHOOSE r \in Requests[c] : TRUE]
  /\ step = [c \in Callers |-> "idle"]
  /\ try = [c \in Callers |-> 0] /\ lp = [c \in Callers |-> 0]
  /\ ts_id = [c \in Callers |-> <<>>] /\ final = [c \in Callers |-> FALSE]
  /\ outcome = [c \in Callers |-> "none"] /\ chip = [c \in Callers |-> Off]
  /\ short = [c \in Callers |-> FALSE]

\* SET_CHANNEL, and GET_SIGNAL_STRENGTH
SetFreq(c) ==
  /\ step[c] = "idle" /\ pc[c] = "idle"
  /\ \E r \in Requests[c] : req' = [req EXCEPT ![c] = r]
  /\ step' = [step EXCEPT ![c] = IF KindOf[c] = "S" THEN "pll1" ELSE "base"]
  /\ outcome' = [outcome EXCEPT ![c] = "none"]
  /\ UNCHANGED <<vars, chip, try, lp, ts_id, final, short>>

read_signal_strength(c) ==
  /\ step[c] = "idle" /\ pc[c] = "idle" /\ outcome[c] = "ok"
  /\ step' = [step EXCEPT ![c] = "signal1"]
  /\ outcome' = [outcome EXCEPT ![c] = "none"]
  /\ UNCHANGED <<vars, chip, req, try, lp, ts_id, final, short>>

Transmit(c) ==
  /\ step[c] # "idle" /\ pc[c] = "idle"
  /\ Call(c, [addr |-> AddrOf[c], value |-> Sent(c)[1], read |-> Sent(c)[2]])
  /\ UNCHANGED <<jobVars, chip>>

\* What follows a transfer: the next step of this caller, its loops afresh
Then(c, next) ==
  /\ step' = [step EXCEPT ![c] = next] /\ try' = [try EXCEPT ![c] = 0]
Done(c, what) ==
  /\ Then(c, "idle") /\ outcome' = [outcome EXCEPT ![c] = what]
  /\ lp' = [lp EXCEPT ![c] = 0] /\ ts_id' = [ts_id EXCEPT ![c] = <<>>]
  /\ final' = [final EXCEPT ![c] = FALSE] /\ short' = [short EXCEPT ![c] = FALSE]
On(c, next) == Then(c, next) /\ UNCHANGED <<outcome, ts_id, final, short>>

AfterWrite ==
  [pll1 |-> "pll2", pll2 |-> "pll3", pll3 |-> "pll", tmcc1 |-> "tmcc", set |-> "get",
   base |-> "lock", check |-> "tune"]
Wrote(c) ==
  /\ step[c] \in DOMAIN AfterWrite
  /\ Return(c)
  /\ Then(c, AfterWrite[step[c]])
  /\ UNCHANGED <<chip, req, lp, ts_id, final, outcome, short>>

\* The lock loops: a PLL locks sooner or later or never; TMCC and the terrestrial
\* demodulator only where there is a signal.
LastTry(c) == try[c] >= MaxTries - 1
NotYet(c) == ~LastTry(c) /\ try' = [try EXCEPT ![c] = @ + 1] /\ UNCHANGED step

AfterLock == [pll |-> "tmcc1", tmcc |-> "ids", lock |-> "check"]
CanLock(c) == Sound(c) /\ step[c] \in {"tmcc", "tune"} => OnAirNow(c)

Accepted(c) == CanLock(c)

Locked(c) ==
  /\ step[c] \in {"pll", "tmcc", "lock", "tune"} /\ Accepted(c)
  /\ Return(c)
  /\ IF step[c] = "tune" THEN Done(c, "ok")
     ELSE On(c, AfterLock[step[c]]) /\ lp' = [lp EXCEPT ![c] = IF step[c] = "tmcc" THEN 1 ELSE @]
  /\ UNCHANGED <<chip, req>>

NotLocked(c) ==
  /\ step[c] \in {"pll", "tmcc", "lock", "tune"}
  /\ Return(c)
  /\ \/ NotYet(c) /\ UNCHANGED <<outcome, lp, ts_id, final, short>>
     \/ LastTry(c) /\ Done(c, "error")
  /\ UNCHANGED <<chip, req>>

\* Two TS-IDs at a time, read again while one is zero
Swapped(pair) == <<pair[2], pair[1]>>                           \* mutant
InOrder(pair) == pair
PairsRead(c) ==
  LET right == <<Ids(c)[(2 * lp[c]) - 1], Ids(c)[2 * lp[c]]>>
  IN  {<<0, 0>>} \cup (IF Sound(c) THEN (IF OnAirNow(c) THEN {right} ELSE {}) ELSE {<<1, NoTs>>})

ReadIds(c) ==
  /\ step[c] = "ids"
  /\ Return(c)
  /\ \E pair \in PairsRead(c) :
       \/ /\ pair[1] = 0 /\ NotYet(c)
          /\ UNCHANGED <<lp, ts_id, short>>
       \/ /\ pair[1] # 0 \/ LastTry(c)
          /\ ts_id' = [ts_id EXCEPT ![c] = @ \o InOrder(pair)]
          /\ lp' = [lp EXCEPT ![c] = @ + 1]
          /\ short' = [short EXCEPT ![c] = @ \/ pair[1] = 0]
          /\ Then(c, IF 2 * lp[c] < MAX_BS_TS_ID THEN "ids" ELSE "agc")
  /\ UNCHANGED <<chip, req, final, outcome>>

\* Every TS of the channel is locked in turn for its slots, then the one asked for.
\* Whether the chip has locked is not looked at.
TsFrom(c, n) == {i \in n .. MAX_BS_TS_ID : ts_id[c][i] # NoTs}
GoTo(c, i) == lp' = [lp EXCEPT ![c] = i] /\ UNCHANGED final
NextTs(c, n) ==
  \/ TsFrom(c, n) = {} /\ Then(c, "clock") /\ UNCHANGED <<lp, final>>
  \/ /\ Then(c, "set")
     /\ \E i \in TsFrom(c, n) : (\A j \in TsFrom(c, n) : i <= j) /\ GoTo(c, i)

ts_locked(c) ==
  /\ step[c] = "get"
  /\ Return(c)
  /\ \/ NotYet(c) /\ UNCHANGED <<outcome, lp, ts_id, final, short>>
     \/ final[c] /\ Done(c, "ok")
     \/ ~final[c] /\ On(c, "slot") /\ UNCHANGED lp
  /\ UNCHANGED <<chip, req>>

Slot(c) == req[c].slot + 1
Measured(c) ==
  /\ step[c] \in {"agc", "slot", "clock", "carrier", "signal1", "signal2"}
  /\ Return(c)
  /\ CASE step[c] = "agc" -> NextTs(c, 1)
       [] step[c] = "slot" -> NextTs(c, lp[c] + 1)
       [] step[c] = "carrier" ->
            Then(c, "set") /\ lp' = [lp EXCEPT ![c] = Slot(c)] /\ final' = [final EXCEPT ![c] = TRUE]
       [] OTHER ->
            /\ Then(c, CASE step[c] = "clock" -> "carrier" [] step[c] = "signal1" -> "signal2"
                         [] step[c] = "signal2" -> "idle")
            /\ UNCHANGED <<lp, final>>
  /\ UNCHANGED <<chip, req, ts_id, outcome, short>>

Answered(c) == Wrote(c) \/ Locked(c) \/ NotLocked(c) \/ ReadIds(c) \/ ts_locked(c) \/ Measured(c)

\* The steps of the bus that neither begin nor end a transfer
Bus ==
  /\ (\E c \in Callers : Inside(c)) \/ (\E k \in Cards : HwHang(k))
  /\ UNCHANGED <<jobVars, chip>>
Runs(k) == HwDone(k) /\ ChipsTake(k) /\ UNCHANGED jobVars

Next ==
  \/ \E c \in Callers : SetFreq(c) \/ read_signal_strength(c) \/ Transmit(c) \/ Answered(c)
  \/ \E k \in Cards : Runs(k)
  \/ Bus

\* A thread in the driver runs on and gets a lock that is free again and again, a
\* sound FIFO finishes; nobody has to tune.
Fairness ==
  /\ \A c \in Callers :
       /\ WF_tuningVars(Transmit(c) \/ Answered(c))
       /\ WF_tuningVars((PollWrite(c) \/ PollRead(c)) /\ UNCHANGED <<jobVars, chip>>)
       /\ SF_tuningVars(Start(c) /\ UNCHANGED <<jobVars, chip>>)
  /\ \A k \in Cards : WF_tuningVars(Runs(k))

Spec == TuningInit /\ [][Next]_tuningVars /\ Fairness
-----------------------------------------------------------------------------
(* Properties *)

Asked(c) == Tuned([req[c] EXCEPT !.type = KindOf[c]])
Succeeds(c) == outcome[c] # "ok" /\ outcome'[c] = "ok" /\ ~hung[Card(c)]

\* SET_CHANNEL succeeds only with the chip on the frequency asked for and a signal
\* on it, whatever the other channels of the card do meanwhile, unless the FIFO
\* hangs.  And a satellite chip is left on the TS of the slot asked for, although
\* every TS of the channel was locked before; unless the TS-IDs could not be read.
TunedRight ==
  [][\A c \in Callers : Succeeds(c) =>
       /\ chip[c].mhz = Asked(c) /\ OnAirNow(c)
       /\ ~short[c] /\ KindOf[c] = "S" => chip[c].ts = Ids(c)[req[c].slot + 1]]_tuningVars

\* SET_CHANNEL comes back, with a dead FIFO and without a signal on the air as well.
SetFreqReturns == \A c \in Callers : step[c] # "idle" ~> step[c] = "idle"
=============================================================================
