--------------------------- MODULE TuningProofs ---------------------------
(***************************************************************************)
(* Proofs about Tuning for every number of callers and cards, every table    *)
(* of requests, every limit of the polling loops and every time the FIFO     *)
(* takes that is below that limit: i2c_read returns the answer to the        *)
(* caller's own transfer, SET_CHANNEL succeeds only with the chip on the      *)
(* frequency, and a satellite chip on the TS, that was asked for, and the     *)
(* chips on the bus see every transfer as it was meant, bit for bit.          *)
(***************************************************************************)
EXTENDS Tuning, SequenceTheorems, FiniteSetTheorems, WellFoundedInduction, TLAPS

Who == Callers \cup {None}
BusTypes ==
  /\ running \in [Cards -> Who] /\ result \in [Cards -> Who] /\ holder \in [Cards -> Who]
  /\ hung \in [Cards -> BOOLEAN] /\ pc \in [Callers -> {"idle", "lock", "poll", "return"}]
  /\ polls \in [Callers -> 0 .. MaxPolls]

\* Who polls or returns has the card's lock, and nobody else has slept yet.
Holds ==
  /\ \A c \in Callers : pc[c] \in {"poll", "return"} <=> holder[Card(c)] = c
  /\ \A c \in Callers : pc[c] \in {"idle", "lock"} => polls[c] = 0

\* Who has the lock of a sound card sees its own program run, and has slept no longer
\* than that takes; or it has run, and the answer is there.
Mine(c) == running[Card(c)] = None /\ result[Card(c)] = c
Served ==
  \A c \in Callers : ~hung[Card(c)] =>
    /\ pc[c] = "poll" => Mine(c) \/ (running[Card(c)] = c /\ polls[c] <= HwTime)
    /\ pc[c] = "return" => Mine(c)

BusInv == BusTypes /\ Holds /\ Served

-----------------------------------------------------------------------------
\* A caller's card is a card, and no caller is nobody.
LEMMA CardType == \A c \in Callers : Card(c) \in Cards /\ c # None
  BY I2cAssumption DEF Card

\* Of the bus, the tuning code takes the steps of I2cBus and no others.
LEMMA BusStep ==
  ASSUME [Next]_tuningVars
  PROVE  \/ \E c \in Callers : \E w : Call(c, w)
         \/ \E c \in Callers : Inside(c) \/ Return(c)
         \/ \E k \in Cards : HwDone(k) \/ HwHang(k)
         \/ UNCHANGED vars
<1>1. ASSUME NEW c \in Callers, SetFreq(c) \/ read_signal_strength(c) PROVE UNCHANGED vars
  BY <1>1 DEF SetFreq, read_signal_strength
<1>2. ASSUME NEW c \in Callers, Transmit(c) PROVE \E w : Call(c, w)
  BY <1>2 DEF Transmit
<1>3. ASSUME NEW c \in Callers, Answered(c) PROVE Return(c)
  BY <1>3 DEF Answered, Wrote, Locked, NotLocked, ReadIds, ts_locked, Measured
<1>4. ASSUME NEW k \in Cards, Runs(k) PROVE HwDone(k)  BY <1>4 DEF Runs
<1>5. CASE Bus  BY <1>5 DEF Bus
<1>6. CASE UNCHANGED tuningVars  BY <1>6 DEF tuningVars
<1> QED  BY <1>1, <1>2, <1>3, <1>4, <1>5, <1>6 DEF Next

LEMMA InitBus == TuningInit => BusInv
<1> SUFFICES ASSUME TuningInit PROVE BusInv  OBVIOUS
<1>1. BusTypes  BY I2cAssumption DEF TuningInit, Init, BusTypes, Who
<1>2. Holds  BY CardType DEF TuningInit, Init, Holds
<1>3. Served  BY DEF TuningInit, Init, Served
<1> QED  BY <1>1, <1>2, <1>3 DEF BusInv

-----------------------------------------------------------------------------
(* One lemma per step of the bus. *)

LEMMA CallInv == ASSUME BusInv, NEW c \in Callers, NEW w, Call(c, w) PROVE BusInv'
<1>1. BusTypes'  BY DEF BusInv, BusTypes, Call, hwVars
<1>2. \A d \in Callers : pc'[d] = IF d = c THEN "lock" ELSE pc[d]
  BY DEF BusInv, BusTypes, Call
<1>3. Holds'  BY <1>2 DEF BusInv, Holds, Call, hwVars, Card
<1>4. Served'  BY <1>2 DEF BusInv, Served, Mine, Call, hwVars, Card
<1> QED  BY <1>1, <1>3, <1>4 DEF BusInv

\* The lock was free, so that nobody on this card polls, and the FIFO is handed over.
LEMMA StartInv == ASSUME BusInv, NEW c \in Callers, Start(c) PROVE BusInv'
<1>0. Card(c) \in Cards /\ c # None  BY CardType
<1>1. /\ pc' = [pc EXCEPT ![c] = "poll"] /\ holder' = [holder EXCEPT ![Card(c)] = c]
      /\ running' = [running EXCEPT ![Card(c)] = c]
      /\ pc[c] = "lock" /\ holder[Card(c)] = None /\ UNCHANGED <<hung, result, polls>>
  BY DEF Start, MayLock
<1>2. BusTypes'  BY <1>0, <1>1 DEF BusInv, BusTypes, Who
<1>3. /\ \A d \in Callers : pc'[d] = IF d = c THEN "poll" ELSE pc[d]
      /\ \A k \in Cards : /\ holder'[k] = IF k = Card(c) THEN c ELSE holder[k]
                          /\ running'[k] = IF k = Card(c) THEN c ELSE running[k]
  BY <1>0, <1>1 DEF BusInv, BusTypes
<1>4. \A d \in Callers : pc[d] \in {"poll", "return"} => Card(d) # Card(c)
  BY <1>1, CardType DEF BusInv, Holds
<1>5. Holds'
  BY <1>0, <1>1, <1>3, <1>4, CardType DEF BusInv, Holds, Card
<1>6. polls[c] = 0 /\ 0 <= HwTime  BY <1>1, I2cAssumption DEF BusInv, Holds
<1>7. Served'
  <2> SUFFICES ASSUME NEW d \in Callers, ~hung[Card(d)]
               PROVE  /\ pc'[d] = "poll" =>
                           \/ running'[Card(d)] = None /\ result[Card(d)] = d
                           \/ running'[Card(d)] = d /\ polls[d] <= HwTime
                      /\ pc'[d] = "return" =>
                           running'[Card(d)] = None /\ result[Card(d)] = d
    BY <1>1 DEF Served, Mine, Card
  <2>1. CASE d = c  BY <1>0, <1>3, <1>6, <2>1
  <2>2. CASE d # c
    <3>1. pc'[d] = pc[d] /\ Card(d) \in Cards  BY <1>3, <2>2, CardType
    <3>2. CASE pc[d] \in {"poll", "return"}
      <4>1. running'[Card(d)] = running[Card(d)]  BY <1>3, <1>4, <3>1, <3>2
      <4> QED  BY <3>1, <4>1 DEF BusInv, Served, Mine
    <3> QED  BY <3>1, <3>2
  <2> QED  BY <2>1, <2>2
<1> QED  BY <1>2, <1>5, <1>7 DEF BusInv

\* A program that still runs on a sound card has not used up the polls.
LEMMA PollInv == ASSUME BusInv, NEW c \in Callers, PollWrite(c) \/ PollRead(c) PROVE BusInv'
<1> USE I2cAssumption
<1>0. Card(c) \in Cards /\ c # None /\ pc[c] = "poll"
  BY CardType DEF PollWrite, PollRead
<1>1. /\ pc' \in {pc, [pc EXCEPT ![c] = "return"]}
      /\ polls' \in {polls, [polls EXCEPT ![c] = IF @ = MaxPolls THEN @ ELSE @ + 1]}
      /\ UNCHANGED <<running, hung, result, holder>>
  <2>1. /\ [pc EXCEPT ![c] = pc[c]] = pc
        /\ UNCHANGED polls \/ CountPoll(c)
        /\ \E l \in {"return", pc[c]} : pc' = [pc EXCEPT ![c] = l]
    BY DEF PollWrite, PollRead, BusInv, BusTypes
  <2> QED  BY <2>1 DEF PollWrite, PollRead, CountPoll, hwVars
<1>2. /\ \A d \in Callers : d # c => pc'[d] = pc[d] /\ polls'[d] = polls[d]
      /\ pc'[c] \in {"poll", "return"}
      /\ pc' \in [Callers -> {"idle", "lock", "poll", "return"}]
      /\ polls' \in [Callers -> 0 .. MaxPolls]
  <2>0. /\ pc \in [Callers -> {"idle", "lock", "poll", "return"}]
        /\ polls \in [Callers -> 0 .. MaxPolls]
    BY DEF BusInv, BusTypes
  <2>1. (IF polls[c] = MaxPolls THEN polls[c] ELSE polls[c] + 1) \in 0 .. MaxPolls  BY <2>0
  <2>2. /\ polls' \in [Callers -> 0 .. MaxPolls]
        /\ \A d \in Callers : d # c => polls'[d] = polls[d]
    BY <1>1, <2>0, <2>1
  <2>3. /\ pc' \in [Callers -> {"idle", "lock", "poll", "return"}]
        /\ pc'[c] \in {"poll", "return"}
        /\ \A d \in Callers : d # c => pc'[d] = pc[d]
    BY <1>0, <1>1, <2>0
  <2> QED  BY <2>2, <2>3
<1>3. BusTypes'  BY <1>1, <1>2 DEF BusInv, BusTypes
<1>4. Holds'  BY <1>0, <1>1, <1>2 DEF BusInv, Holds, Card
<1>5. ASSUME ~hung[Card(c)], running[Card(c)] # None
      PROVE  pc'[c] = "poll" /\ polls'[c] <= HwTime
  <2>1. ~Finished(c) /\ polls[c] < HwTime /\ polls[c] \in 0 .. MaxPolls
    BY <1>0, <1>5 DEF PollWrite, PollRead, Finished, Sleeps, BusInv, BusTypes
  <2>2. ~OutOfPolls(c)  BY <2>1 DEF OutOfPolls
  <2>3. pc' = pc /\ polls' = [polls EXCEPT ![c] = IF @ = MaxPolls THEN @ ELSE @ + 1]
    BY <1>0, <2>1, <2>2 DEF PollWrite, PollRead, CountPoll, BusInv, BusTypes
  <2> QED  BY <1>0, <2>1, <2>3 DEF BusInv, BusTypes
<1>6. Served'
  <2> SUFFICES ASSUME NEW d \in Callers, ~hung[Card(d)]
               PROVE  /\ pc'[d] = "poll" =>
                           Mine(d) \/ (running[Card(d)] = d /\ polls'[d] <= HwTime)
                      /\ pc'[d] = "return" => Mine(d)
    BY <1>1 DEF Served, Mine, Card
  <2>1. CASE d # c  BY <1>2, <2>1 DEF BusInv, Served
  <2>2. CASE d = c /\ running[Card(c)] # None
    BY <1>0, <1>5, <2>2 DEF BusInv, Served, Mine
  <2>3. CASE d = c /\ running[Card(c)] = None
    BY <1>0, <2>3 DEF BusInv, Served, Mine
  <2> QED  BY <2>1, <2>2, <2>3
<1> QED  BY <1>3, <1>4, <1>6 DEF BusInv

LEMMA ReturnInv == ASSUME BusInv, NEW c \in Callers, Return(c) PROVE BusInv'
<1> USE I2cAssumption
<1>0. Card(c) \in Cards /\ c # None  BY CardType
<1>1. /\ pc[c] = "return" /\ pc' = [pc EXCEPT ![c] = "idle"]
      /\ holder' = [holder EXCEPT ![Card(c)] = None] /\ polls' = [polls EXCEPT ![c] = 0]
      /\ UNCHANGED <<running, hung, result>>
  BY DEF Return, hwVars
<1>2. BusTypes'  BY <1>0, <1>1 DEF BusInv, BusTypes, Who
<1>3. /\ \A d \in Callers : /\ pc'[d] = IF d = c THEN "idle" ELSE pc[d]
                            /\ polls'[d] = IF d = c THEN 0 ELSE polls[d]
      /\ \A k \in Cards : holder'[k] = IF k = Card(c) THEN None ELSE holder[k]
  BY <1>0, <1>1 DEF BusInv, BusTypes
<1>4. holder[Card(c)] = c  BY <1>1 DEF BusInv, Holds
<1>5. \A d \in Callers : (pc[d] \in {"poll", "return"} <=> holder[Card(d)] = d)
  BY DEF BusInv, Holds
<1>6. Holds'
  <2>1. ASSUME NEW d \in Callers PROVE pc'[d] \in {"poll", "return"} <=> holder'[Card(d)] = d
    <3>1. Card(d) \in Cards /\ d # None  BY CardType
    <3> QED  BY <1>3, <1>4, <1>5, <3>1
  <2>2. \A d \in Callers : pc'[d] \in {"idle", "lock"} => polls'[d] = 0
    BY <1>3 DEF BusInv, Holds
  <2> QED  BY <2>1, <2>2 DEF Holds, Card
<1>7. Served'  BY <1>1, <1>3 DEF BusInv, Served, Mine, Card
<1> QED  BY <1>2, <1>6, <1>7 DEF BusInv

\* What has run is the program of the one who holds the lock.
LEMMA HwInv == ASSUME BusInv, NEW k \in Cards, HwDone(k) \/ HwHang(k) PROVE BusInv'
<1>1. CASE HwDone(k)
  <2>1. /\ running[k] # None /\ ~hung[k] /\ result' = [result EXCEPT ![k] = running[k]]
        /\ running' = [running EXCEPT ![k] = None] /\ UNCHANGED <<hung, holder, pc, polls>>
    BY <1>1 DEF HwDone
  <2>2. BusTypes'  BY <2>1 DEF BusInv, BusTypes, Who
  <2>3. Holds'  BY <2>1 DEF BusInv, Holds, Card
  <2>4. \A j \in Cards : /\ running'[j] = IF j = k THEN None ELSE running[j]
                         /\ result'[j] = IF j = k THEN running[k] ELSE result[j]
    BY <2>1 DEF BusInv, BusTypes
  <2>5. Served'
    <3> SUFFICES ASSUME NEW d \in Callers, ~hung[Card(d)]
                 PROVE  /\ pc[d] = "poll" =>
                             \/ running'[Card(d)] = None /\ result'[Card(d)] = d
                             \/ running'[Card(d)] = d /\ polls[d] <= HwTime
                        /\ pc[d] = "return" =>
                             running'[Card(d)] = None /\ result'[Card(d)] = d
      BY <2>1 DEF Served, Mine, Card
    <3>1. Card(d) \in Cards  BY CardType
    <3> QED  BY <2>1, <2>4, <3>1 DEF BusInv, Served, Mine
  <2> QED  BY <2>2, <2>3, <2>5 DEF BusInv
<1>2. CASE HwHang(k)
  <2>1. hung' = [hung EXCEPT ![k] = TRUE] /\ UNCHANGED <<running, result, holder, pc, polls>>
    BY <1>2 DEF HwHang
  <2>2. BusTypes'  BY <2>1 DEF BusInv, BusTypes
  <2>3. Holds'  BY <2>1 DEF BusInv, Holds, Card
  <2>4. \A d \in Callers : ~hung'[Card(d)] => ~hung[Card(d)]
    BY <2>1, CardType DEF BusInv, BusTypes
  <2>5. Served'  BY <2>1, <2>4 DEF BusInv, Served, Mine, Card
  <2> QED  BY <2>2, <2>3, <2>5 DEF BusInv
<1> QED  BY <1>1, <1>2

-----------------------------------------------------------------------------
LEMMA NextBus == BusInv /\ [Next]_tuningVars => BusInv'
<1> SUFFICES ASSUME BusInv, [Next]_tuningVars PROVE BusInv'  OBVIOUS
<1>1. CASE UNCHANGED vars
  BY <1>1 DEF vars, BusInv, BusTypes, Holds, Served, Mine, Card
<1> QED  BY <1>1, BusStep, CallInv, StartInv, PollInv, ReturnInv, HwInv DEF Inside

\* OwnAnswer for every instance: the limit of polls is the only way out of the loop
\* before the FIFO is done, and a FIFO that does not hang is done before; the lock is
\* not given back in between.
THEOREM OwnAnswers == Spec => OwnAnswer
<1> DEFINE Right == \A c \in Callers :
                      pc[c] = "return" /\ pc'[c] = "idle" /\ block[c].read # 0 =>
                        Answer(c) = c \/ hung[Card(c)]
<1>1. Spec => []BusInv  BY InitBus, NextBus, PTL DEF Spec
<1>2. BusInv => Right  BY DEF BusInv, Served, Mine, Answer
<1>3. BusInv => [Right]_vars  BY <1>2
<1> HIDE DEF Right
<1>4. Spec => [][Right]_vars  BY <1>1, <1>3, PTL
<1> QED  BY <1>4 DEF OwnAnswer, Right

-----------------------------------------------------------------------------
(* What a chip is tuned to.  The steps of bs_tune and isdb_t_frequency:        *)

Quiet == {"idle", "signal1", "signal2"}
First == {"pll1", "base"}     \* its write sets the frequency

\* A transfer is the one of the caller's step, and the FIFO has it while the caller polls.
Sends(c) == [addr |-> AddrOf[c], value |-> Sent(c)[1], read |-> Sent(c)[2]]
Polling(c) == pc[c] \in {"poll", "return"}
Working(c) ==
  /\ step[c] \in Quiet \cup (IF KindOf[c] = "S" THEN BsSteps ELSE GroundSteps)
  /\ step[c] = "idle" => pc[c] = "idle"
  /\ step[c] \notin Quiet => req[c] \in Requests[c]
  /\ pc[c] # "idle" => block[c] = Sends(c)
  /\ Polling(c) => fifo[Card(c)][2] = block[c]

\* The chip is on the frequency once the FIFO has run the first write, and stays there.
Ran(c) == Polling(c) /\ running[Card(c)] = None
OnFrequency(c) ==
  /\ step[c] \notin Quiet /\ (step[c] \in First => Ran(c)) => chip[c].mhz = Asked(c)
  /\ step[c] \in TsSteps => OnAirNow(c)

\* The TS-IDs read so far are those on the air, unless the reads ran out.
Collected(c) ==
  /\ step[c] \notin TsSteps => ts_id[c] = <<>> /\ ~short[c] /\ ~final[c]
  /\ step[c] \in TsSteps =>
       /\ ts_id[c] \in Seq(Nat)
       /\ ~short[c] => \A i \in 1 .. Len(ts_id[c]) : ts_id[c][i] = Ids(c)[i]
       /\ IF step[c] = "ids"
          THEN /\ lp[c] \in Nat \ {0} /\ 2 * lp[c] <= MAX_BS_TS_ID
               /\ Len(ts_id[c]) = (2 * lp[c]) - 2
          ELSE Len(ts_id[c]) = MAX_BS_TS_ID
  /\ step[c] \in {"slot", "set", "get"} => lp[c] \in 1 .. MAX_BS_TS_ID
  /\ final[c] => step[c] \in {"set", "get"} /\ lp[c] = Slot(c)

\* The chip has the TS that was set last.
OnTs(c) == step[c] = "get" \/ (step[c] = "set" /\ Ran(c)) => chip[c].ts = ts_id[c][lp[c]]

Right(c) == Working(c) /\ (~hung[Card(c)] => OnFrequency(c) /\ Collected(c) /\ OnTs(c))

Domains ==
  /\ DOMAIN req = Callers /\ DOMAIN step = Callers /\ DOMAIN lp = Callers
  /\ DOMAIN ts_id = Callers /\ DOMAIN final = Callers /\ DOMAIN short = Callers
  /\ DOMAIN try = Callers /\ DOMAIN outcome = Callers
  /\ DOMAIN chip = Callers /\ DOMAIN block = Callers /\ DOMAIN fifo = Cards
  /\ \A c \in Callers : DOMAIN chip[c] = {"mhz", "ts"}
  /\ final \in [Callers -> BOOLEAN] /\ short \in [Callers -> BOOLEAN]

\* A FIFO that runs and does not hang runs the program of one that polls.
Running ==
  \A k \in Cards : running[k] # None /\ ~hung[k] =>
    Card(running[k]) = k /\ pc[running[k]] = "poll"

TuneInv == BusInv /\ Domains /\ Running /\ \A c \in Callers : Right(c)

-----------------------------------------------------------------------------
(* The words of the commands *)

\* A word comes back from its two bytes.
LEMMA WordOfBytes ==
  ASSUME NEW w \in Nat
  PROVE  /\ Bytes2(w) = <<w \div 256, w % 256>>
         /\ ((w \div 256) * 256) + (w % 256) = w /\ w \div 256 \in Nat /\ w % 256 \in Nat
BY DEF Bytes2

\* Three pieces in a row
LEMMA Joined ==
  ASSUME NEW S, NEW a \in Seq(S), NEW b \in Seq(S), NEW c \in Seq(S), NEW n \in Nat,
         Len(a) = n, Len(b) = n, Len(c) = n
  PROVE  /\ a \o b \o c \in Seq(S) /\ Len(a \o b \o c) = 3 * n
         /\ \A i \in 1 .. n : /\ (a \o b \o c)[i] = a[i] /\ (a \o b \o c)[n + i] = b[i]
                             /\ (a \o b \o c)[n + n + i] = c[i]
<1>1. a \o b \in Seq(S) /\ Len(a \o b) = n + n
  OBVIOUS
<1>2. a \o b \o c \in Seq(S) /\ Len(a \o b \o c) = n + n + n
  BY <1>1
<1>3. \A i \in 1 .. n : (a \o b)[i] = a[i] /\ (a \o b)[n + i] = b[i]
  OBVIOUS
<1>4. /\ \A i \in 1 .. n + n : (a \o b \o c)[i] = (a \o b)[i]
      /\ \A i \in 1 .. n : (a \o b \o c)[n + n + i] = c[i]
  BY <1>1
<1> QED
  BY <1>2, <1>3, <1>4

LEMMA PllTable ==
  ASSUME NEW n \in Nat, n < MAX_BS_CHANNEL
  PROVE  bs_pll[n + 1] \in Nat \X Nat
<1>1. BsWords \in Seq(Nat \X Nat) /\ Len(BsWords) = 12
  BY DEF BsWords
<1>2. NdEvenWords \in Seq(Nat \X Nat) /\ Len(NdEvenWords) = 12
  BY DEF NdEvenWords
<1>3. NdOddWords \in Seq(Nat \X Nat) /\ Len(NdOddWords) = 12
  BY DEF NdOddWords
<1> DEFINE W == Nat \X Nat
<1>4. \A a, b, c \in Seq(W) :
        Len(a) = 12 /\ Len(b) = 12 /\ Len(c) = 12 =>
          \A k \in 1 .. 36 : (a \o b \o c)[k] \in W
  <2> HIDE DEF W
  <2> SUFFICES ASSUME NEW a \in Seq(W), NEW b \in Seq(W), NEW c \in Seq(W),
                      Len(a) = 12, Len(b) = 12, Len(c) = 12,
                      NEW k \in 1 .. 36
               PROVE  (a \o b \o c)[k] \in W
    OBVIOUS
  <2>1. PICK m \in Nat : m = 12
    OBVIOUS
  <2>2. Len(a) = m /\ Len(b) = m /\ Len(c) = m
    BY <2>1
  <2>3. a \o b \o c \in Seq(W) /\ Len(a \o b \o c) = 3 * m
    BY <2>2, Joined
  <2> QED
    BY <2>1, <2>3
<1>5. PICK a \in Seq(W), b \in Seq(W), c \in Seq(W) :
        a = BsWords /\ b = NdEvenWords /\ c = NdOddWords
  BY ONLY <1>1, <1>2, <1>3, Zenon DEF W
<1>6. Len(a) = 12 /\ Len(b) = 12 /\ Len(c) = 12
  BY ONLY <1>1, <1>2, <1>3, <1>5, Zenon
<1> HIDE DEF W
<1>7. \A k \in 1 .. 36 : (a \o b \o c)[k] \in W
  BY ONLY <1>4, <1>6, a \in Seq(W), b \in Seq(W), c \in Seq(W), Zenon
<1>8. bs_pll = a \o b \o c
  BY ONLY <1>5, Zenon DEF bs_pll
<1>9. n + 1 \in 1 .. 36
  BY DEF MAX_BS_CHANNEL
<1>10. bs_pll[n + 1] \in W
  BY ONLY <1>7, <1>8, <1>9, Zenon
<1> QED
  BY ONLY <1>10 DEF W

\* The first command of a satellite channel carries its word and its band.
LEMMA BsCommand ==
  ASSUME NEW n \in Nat, n < MAX_BS_CHANNEL, NEW old
  PROVE  /\ Taken(old, "S", BsCommands(n)[1]) = [mhz |-> BsMHz(bs_pll[n + 1]), ts |-> 0]
         /\ Taken(old, "S", BsCommands(n)[2]) = old
         /\ Taken(old, "S", BsCommands(n)[3]) = old
<1>1. PICK w \in Nat, b \in Nat : bs_pll[n + 1] = <<w, b>>
  BY PllTable
<1>2. /\ Bytes2(w) = <<w \div 256, w % 256>>
      /\ ((w \div 256) * 256) + (w % 256) = w /\ w \div 256 \in Nat /\ w % 256 \in Nat
  BY WordOfBytes
<1>3. BsCommands(n)[1] = <<254, 192>> \o Bytes2(w) \o <<224, b>>
  BY <1>1 DEF BsCommands
<1>4. PICK hi \in Nat, lo \in Nat : Bytes2(w) = <<hi, lo>> /\ (hi * 256) + lo = w
  BY <1>2
<1>5. PICK v : v = BsCommands(n)[1] /\ Len(v) = 6 /\ v[3] = hi /\ v[4] = lo /\ v[6] = b
  <2>1. /\ <<254, 192>> \in Seq(Nat) /\ <<hi, lo>> \in Seq(Nat) /\ <<224, b>> \in Seq(Nat)
        /\ Len(<<254, 192>>) = 2 /\ Len(<<hi, lo>>) = 2 /\ Len(<<224, b>>) = 2
    OBVIOUS
  <2>2. PICK v : v = <<254, 192>> \o <<hi, lo>> \o <<224, b>>
    OBVIOUS
  <2>3. /\ Len(v) = 3 * 2 /\ v[2 + 1] = <<hi, lo>>[1] /\ v[2 + 2] = <<hi, lo>>[2]
        /\ v[2 + 2 + 2] = <<224, b>>[2]
    <3>1. 1 \in 1 .. 2 /\ 2 \in 1 .. 2 /\ 2 \in Nat
      OBVIOUS
    <3> QED
      BY ONLY <2>1, <2>2, <3>1, Joined
  <2> QED
    BY <1>3, <1>4, <2>2, <2>3
<1>6. Taken(old, "S", BsCommands(n)[1]) = [mhz |-> BsMHz(<<w, b>>), ts |-> 0]
  <2>1. Word16(v, 3) = w
    BY <1>4, <1>5 DEF Word16
  <2> QED
    BY <1>5, <2>1 DEF Taken
<1>7. BsCommands(n)[2] = <<254, 192, 228>> /\ BsCommands(n)[3] = <<254, 192, 244, b + 4>>
  BY <1>1 DEF BsCommands
<1>8. Taken(old, "S", <<254, 192, 228>>) = old
  BY DEF Taken
<1>9. Taken(old, "S", <<254, 192, 244, b + 4>>) = old
  BY DEF Taken
<1> QED
  BY <1>1, <1>6, <1>7, <1>8, <1>9

LEMMA GroundCommand ==
  ASSUME NEW n \in Nat, NEW s \in Nat, NEW kind, kind # "S", NEW old
  PROVE  Taken(old, kind, TCommand(n, s)) = [mhz |-> TMHz(getfrequency(n, s)), ts |-> 0]
<1>1. PICK w \in Nat : w = getfrequency(n, s)
  <2>1. getfrequency(n, s) \in Nat
    BY DEF getfrequency, FrequencyOffset
  <2> QED
    BY <2>1
<1>2. PICK hi \in Nat, lo \in Nat : Bytes2(w) = <<hi, lo>> /\ (hi * 256) + lo = w
  BY WordOfBytes
<1>3. PICK x, y : Bytes2(getfrequency_add(n)) = <<x, y>>
  BY DEF Bytes2
<1>4. PICK v : v = TCommand(n, s) /\ Len(v) = 6 /\ v[3] = hi /\ v[4] = lo
  <2>1. PICK S : S = {254, 194, hi, lo, x, y}
    OBVIOUS
  <2>2. /\ <<254, 194>> \in Seq(S) /\ <<hi, lo>> \in Seq(S) /\ <<x, y>> \in Seq(S)
        /\ Len(<<254, 194>>) = 2 /\ Len(<<hi, lo>>) = 2 /\ Len(<<x, y>>) = 2
    BY <2>1
  <2>3. PICK v : v = <<254, 194>> \o <<hi, lo>> \o <<x, y>>
    OBVIOUS
  <2>4. Len(v) = 3 * 2 /\ v[2 + 1] = <<hi, lo>>[1] /\ v[2 + 2] = <<hi, lo>>[2]
    <3>1. 1 \in 1 .. 2 /\ 2 \in 1 .. 2 /\ 2 \in Nat
      OBVIOUS
    <3> QED
      BY ONLY <2>2, <2>3, <3>1, Joined
  <2> QED
    BY <1>1, <1>2, <1>3, <2>3, <2>4 DEF TCommand
<1>5. Word16(v, 3) = w
  BY <1>2, <1>4 DEF Word16
<1> QED
  BY <1>1, <1>4, <1>5 DEF Taken

\* The command that sets the TS, and the commands that set nothing
LEMMA TsCommand ==
  ASSUME NEW id \in Nat, NEW kind, NEW old
  PROVE  Taken(old, kind, bs_set_ts_lock(id)) = [old EXCEPT !.ts = id]
<1>1. PICK hi \in Nat, lo \in Nat : Bytes2(id) = <<hi, lo>> /\ (hi * 256) + lo = id
  BY WordOfBytes
<1>2. PICK v : /\ v = bs_set_ts_lock(id)
               /\ Len(v) = 3 /\ v[1] = 143 /\ v[2] = hi /\ v[3] = lo
  <2>0. <<143>> \in Seq(Nat) /\ <<hi, lo>> \in Seq(Nat)
    OBVIOUS
  <2>1. PICK a \in Seq(Nat), b \in Seq(Nat) : a = <<143>> /\ b = <<hi, lo>>
    BY <2>0
  <2>2. /\ Len(a) = 1 /\ Len(b) = 2 /\ a[1] = 143 /\ b[1] = hi /\ b[2] = lo
        /\ 1 + 1 = 2 /\ 1 + 2 = 3 /\ 1 \in 1 .. 1 /\ 1 \in 1 .. 2 /\ 2 \in 1 .. 2
    BY <2>1
  <2>3. Len(a \o b) = 3 /\ (a \o b)[1] = 143 /\ (a \o b)[2] = hi /\ (a \o b)[3] = lo
    <3>1. /\ Len(a \o b) = Len(a) + Len(b) /\ \A i \in 1 .. Len(a) : (a \o b)[i] = a[i]
          /\ \A i \in 1 .. Len(b) : (a \o b)[Len(a) + i] = b[i]
      OBVIOUS
    <3> QED
      BY <2>2, <3>1
  <2> QED
    BY <1>1, <2>1, <2>3 DEF bs_set_ts_lock
<1>3. Word16(v, 2) = id
  BY <1>1, <1>2 DEF Word16
<1> QED
  BY <1>2, <1>3 DEF Taken

SetsNothing ==
  {<<254, 193>>, <<254, 195>>, <<3, 1>>, <<1, 64>>}
  \cup {<<195>>, <<186>>, <<232>>, <<230>>, <<190>>, <<187>>, <<128>>}
  \cup {<<206>>, <<210>>, <<214>>, <<218>>} \cup {<<188>>, <<140>>, <<189>>, <<141>>}
LEMMA OtherCommand ==
  ASSUME NEW old, NEW kind, NEW v \in SetsNothing
  PROVE  Taken(old, kind, v) = old
<1>1. Len(v) # 6 /\ v[1] # 143
  BY DEF SetsNothing
<1> QED
  BY <1>1 DEF Taken

-----------------------------------------------------------------------------
(* One lemma per step: first what leaves a caller and its chip alone *)

LEMMA RightKept ==
  ASSUME NEW c \in Callers, Right(c),
         step'[c] = step[c], req'[c] = req[c], lp'[c] = lp[c], ts_id'[c] = ts_id[c],
         final'[c] = final[c], short'[c] = short[c], chip'[c] = chip[c],
         pc'[c] = pc[c], block'[c] = block[c], hung[Card(c)] => hung'[Card(c)],
         Polling(c) => /\ fifo'[Card(c)] = fifo[Card(c)]
                       /\ running'[Card(c)] = None => running[Card(c)] = None
  PROVE  Right(c)'
<1>1. Sends(c)' = Sends(c)
  BY DEF Sends, Sent
<1>2. Working(c)'
  BY <1>1 DEF Right, Working, Polling, Card
<1>3. ASSUME ~hung[Card(c)]'  PROVE (OnFrequency(c) /\ Collected(c) /\ OnTs(c))'
  <2>1. OnFrequency(c) /\ Collected(c) /\ OnTs(c) /\ (Ran(c)' => Ran(c))
    BY <1>3 DEF Right, Ran, Polling, Card
  <2>2. Asked(c)' = Asked(c) /\ Ids(c)' = Ids(c) /\ Slot(c)' = Slot(c)
        /\ (OnAirNow(c)' <=> OnAirNow(c))
    BY DEF Asked, Ids, Slot, OnAirNow
  <2>3. OnFrequency(c)'
    BY <2>1, <2>2 DEF OnFrequency
  <2>4. Collected(c)'
    BY <2>1, <2>2 DEF Collected
  <2>5. OnTs(c)'
    BY <2>1 DEF OnTs
  <2> QED
    BY <2>3, <2>4, <2>5
<1> QED
  BY <1>2, <1>3 DEF Right

LEMMA InitTune == TuningInit => TuneInv
<1> SUFFICES ASSUME TuningInit  PROVE TuneInv
  OBVIOUS
<1>1. BusInv
  BY InitBus
<1>2. Domains
  BY DEF TuningInit, Init, Domains, Off
<1>3. Running
  BY DEF TuningInit, Init, Running
<1>4. ASSUME NEW c \in Callers  PROVE Right(c)
  <2>1. step[c] = "idle" /\ pc[c] = "idle" /\ ts_id[c] = <<>> /\ ~final[c] /\ ~short[c]
    BY DEF TuningInit, Init
  <2> QED
    BY <2>1 DEF Right, Working, OnFrequency, Collected, OnTs, Quiet, TsSteps, Polling
<1> QED
  BY <1>1, <1>2, <1>3, <1>4 DEF TuneInv

\* The bus takes a step of its own, or runs the program of another.
LEMMA SetFreqTune ==
  ASSUME TuneInv, NEW c \in Callers, SetFreq(c) \/ read_signal_strength(c)
  PROVE  TuneInv'
<1>1. /\ pc[c] = "idle" /\ step[c] = "idle" /\ UNCHANGED <<vars, chip, lp, ts_id, final, short>>
  BY DEF SetFreq, read_signal_strength
<1>2. UNCHANGED <<fifo, running, hung, result, holder, pc, block, polls>>
  BY <1>1 DEF vars
<1>3. BusInv' /\ Running'
  BY <1>2 DEF TuneInv, BusInv, BusTypes, Holds, Served, Mine, Running, Card
<1>4. Domains'
  BY <1>1, <1>2 DEF TuneInv, Domains, SetFreq, read_signal_strength
<1>5. \A d \in Callers : d # c => step'[d] = step[d] /\ req'[d] = req[d]
  BY DEF SetFreq, read_signal_strength, TuneInv, Domains
<1>6. /\ step'[c] = "signal1" \/ step'[c] = (IF KindOf[c] = "S" THEN "pll1" ELSE "base")
      /\ step'[c] # "signal1" => req'[c] \in Requests[c]
  BY DEF SetFreq, read_signal_strength, TuneInv, Domains
<1>7. Right(c)'
  <2>1. Right(c)
    BY DEF TuneInv
  <2>2. Working(c)'
    BY <1>1, <1>2, <1>6 DEF Working, Quiet, BsSteps, GroundSteps, Polling
  <2>3. OnFrequency(c)' /\ OnTs(c)'
    BY <1>1, <1>2, <1>6 DEF OnFrequency, OnTs, Quiet, First, TsSteps, Ran, Polling
  <2>4. Collected(c) => Collected(c)'
    BY <1>1, <1>6 DEF Collected, TsSteps
  <2> QED
    BY <1>2, <2>1, <2>2, <2>3, <2>4 DEF Right, Card
<1>8. ASSUME NEW d \in Callers, d # c  PROVE Right(d)'
  <2>1. Right(d)
    BY DEF TuneInv
  <2> QED
    BY <1>1, <1>2, <1>5, <1>8, <2>1, RightKept
<1> QED
  BY <1>3, <1>4, <1>7, <1>8 DEF TuneInv

LEMMA TransmitTune ==
  ASSUME TuneInv, NEW c \in Callers, Transmit(c)
  PROVE  TuneInv'
<1>1. /\ pc[c] = "idle" /\ step[c] # "idle" /\ UNCHANGED <<jobVars, chip>>
      /\ UNCHANGED <<fifo, running, hung, result, holder, polls>>
      /\ \A d \in Callers : pc'[d] = IF d = c THEN "lock" ELSE pc[d]
      /\ \A d \in Callers : block'[d] = IF d = c THEN Sends(c) ELSE block[d]
      /\ DOMAIN block' = DOMAIN block
  BY DEF Transmit, Call, hwVars, Sends, TuneInv, Domains, BusInv, BusTypes
<1>2. UNCHANGED <<req, step, try, lp, ts_id, final, outcome, short>>
  BY <1>1 DEF jobVars
<1>3. BusInv'
  BY CallInv DEF TuneInv, Transmit
<1>4. Domains'
  BY <1>1, <1>2 DEF TuneInv, Domains
<1>5. Running'
  <2> SUFFICES ASSUME NEW k \in Cards, running[k] # None, ~hung[k]
               PROVE  Card(running[k]) = k /\ pc'[running[k]] = "poll"
    BY <1>1 DEF Running, Card
  <2>1. Card(running[k]) = k /\ pc[running[k]] = "poll" /\ running[k] \in Callers
    BY DEF TuneInv, Running, BusInv, BusTypes, Who
  <2> QED
    BY <1>1, <2>1
<1>6. Right(c)'
  <2>1. Right(c)
    BY DEF TuneInv
  <2>2. Sends(c)' = Sends(c)
    BY <1>2 DEF Sends, Sent
  <2>3. Working(c)'
    BY <1>1, <1>2, <2>1, <2>2 DEF Right, Working, Polling
  <2>4. ASSUME ~hung[Card(c)]  PROVE (OnFrequency(c) /\ Collected(c) /\ OnTs(c))'
    <3>1. OnFrequency(c)'
      BY <1>1, <1>2, <2>1, <2>4
         DEF Right, OnFrequency, OnAirNow, Asked, Ran, Polling
    <3>2. Collected(c)'
      BY <1>1, <1>2, <2>1, <2>4 DEF Right, Collected, Ids, OnAirNow, Slot
    <3>3. OnTs(c)'
      BY <1>1, <1>2, <2>1, <2>4 DEF Right, OnTs, Ran, Polling
    <3> QED
      BY <3>1, <3>2, <3>3
  <2> QED
    BY <1>1, <2>3, <2>4 DEF Right, Card
<1>7. ASSUME NEW d \in Callers, d # c  PROVE Right(d)'
  <2>1. Right(d)
    BY DEF TuneInv
  <2> QED
    BY <1>1, <1>2, <1>7, <2>1, RightKept
<1> QED
  BY <1>3, <1>4, <1>5, <1>6, <1>7 DEF TuneInv

LEMMA StartTune ==
  ASSUME TuneInv, NEW c \in Callers, Start(c), UNCHANGED <<jobVars, chip>>
  PROVE  TuneInv'
<1>1. UNCHANGED <<req, step, try, lp, ts_id, final, outcome, short, chip, hung, block>>
  BY DEF Start, jobVars
<1>2. /\ Card(c) \in Cards /\ pc[c] = "lock" /\ holder[Card(c)] = None
      /\ \A d \in Callers : pc'[d] = IF d = c THEN "poll" ELSE pc[d]
      /\ DOMAIN fifo' = Cards /\ fifo'[Card(c)][2] = block[c] /\ running'[Card(c)] = c
      /\ \A k \in Cards : k # Card(c) => fifo'[k] = fifo[k] /\ running'[k] = running[k]
  BY CardType DEF Start, MayLock, TuneInv, Domains, BusInv, BusTypes
<1>3. BusInv'
  BY StartInv DEF TuneInv
<1>4. Domains'
  BY <1>1, <1>2 DEF TuneInv, Domains
<1>5. Running'
  <2> SUFFICES ASSUME NEW k \in Cards, running'[k] # None, ~hung[k]
               PROVE  Card(running'[k]) = k /\ pc'[running'[k]] = "poll"
    BY <1>1 DEF Running, Card
  <2>1. CASE k = Card(c)
    BY <1>2, <2>1
  <2>2. CASE k # Card(c)
    <3>1. /\ running'[k] = running[k] /\ running[k] \in Callers
          /\ Card(running[k]) = k /\ pc[running[k]] = "poll"
      BY <1>2, <2>2 DEF TuneInv, Running, BusInv, BusTypes, Who
    <3> QED
      BY <1>2, <2>2, <3>1
  <2> QED
    BY <2>1, <2>2
<1>6. Right(c)'
  <2>1. Right(c)
    BY DEF TuneInv
  <2>2. Sends(c)' = Sends(c)
    BY <1>1 DEF Sends, Sent
  <2>3. Working(c)'
    BY <1>1, <1>2, <2>1, <2>2 DEF Right, Working, Card
  <2>4. ~Ran(c)'
    BY <1>2, CardType DEF Ran, Card
  <2>5. ASSUME ~hung[Card(c)]  PROVE (OnFrequency(c) /\ Collected(c) /\ OnTs(c))'
    <3>1. OnFrequency(c)'
      BY <1>1, <2>1, <2>4, <2>5 DEF Right, OnFrequency, OnAirNow, Asked
    <3>2. Collected(c)'
      BY <1>1, <2>1, <2>5 DEF Right, Collected, Ids, OnAirNow, Slot
    <3>3. OnTs(c)'
      BY <1>1, <2>1, <2>4, <2>5 DEF Right, OnTs
    <3> QED
      BY <3>1, <3>2, <3>3
  <2> QED
    BY <1>1, <2>3, <2>5 DEF Right, Card
<1>7. ASSUME NEW d \in Callers, d # c  PROVE Right(d)'
  <2>1. Right(d) /\ Card(d) \in Cards
    BY CardType DEF TuneInv
  <2>2. Polling(d) => Card(d) # Card(c)
    BY <1>2, CardType DEF TuneInv, BusInv, Holds, Polling
  <2> QED
    BY <1>1, <1>2, <1>7, <2>1, <2>2, RightKept
<1> QED
  BY <1>3, <1>4, <1>5, <1>6, <1>7 DEF TuneInv

\* Who leaves the loop of a sound FIFO has its program run.
LEMMA PollTune ==
  ASSUME TuneInv, NEW c \in Callers, PollWrite(c) \/ PollRead(c), UNCHANGED <<jobVars, chip>>
  PROVE  TuneInv'
<1>1. /\ UNCHANGED <<req, step, try, lp, ts_id, final, outcome, short, chip>>
      /\ UNCHANGED <<fifo, running, hung, block>>
  BY DEF PollWrite, PollRead, hwVars, jobVars
<1>2. /\ pc[c] = "poll" /\ pc'[c] \in {"poll", "return"}
      /\ \A d \in Callers : d # c => pc'[d] = pc[d]
  BY DEF PollWrite, PollRead, TuneInv, BusInv, BusTypes
<1>3. BusInv'
  BY PollInv DEF TuneInv
<1>4. Domains'
  BY <1>1 DEF TuneInv, Domains
<1>5. Running'
  <2> SUFFICES ASSUME NEW k \in Cards, running[k] # None, ~hung[k]
               PROVE  Card(running[k]) = k /\ pc'[running[k]] = "poll"
    BY <1>1 DEF Running, Card
  <2>1. Card(running[k]) = k /\ pc[running[k]] = "poll" /\ running[k] \in Callers
    BY DEF TuneInv, Running, BusInv, BusTypes, Who
  <2>2. CASE running[k] = c
    <3>1. pc'[c] = "return" => Mine(c)'
      BY <1>1, <1>3, <2>1, <2>2 DEF BusInv, Served, Card
    <3> QED
      BY <1>1, <1>2, <2>1, <2>2, <3>1 DEF Mine, Card
  <2> QED
    BY <1>2, <2>1, <2>2
<1>6. Right(c)'
  <2>1. Right(c)
    BY DEF TuneInv
  <2>2. Sends(c)' = Sends(c)
    BY <1>1 DEF Sends, Sent
  <2>3. Working(c)'
    BY <1>1, <1>2, <2>1, <2>2 DEF Right, Working, Polling, Card
  <2>4. Ran(c)' => Ran(c)
    BY <1>1, <1>2 DEF Ran, Polling, Card
  <2>5. ASSUME ~hung[Card(c)]  PROVE (OnFrequency(c) /\ Collected(c) /\ OnTs(c))'
    <3>1. OnFrequency(c)'
      BY <1>1, <2>1, <2>4, <2>5 DEF Right, OnFrequency, OnAirNow, Asked
    <3>2. Collected(c)'
      BY <1>1, <2>1, <2>5 DEF Right, Collected, Ids, OnAirNow, Slot
    <3>3. OnTs(c)'
      BY <1>1, <2>1, <2>4, <2>5 DEF Right, OnTs
    <3> QED
      BY <3>1, <3>2, <3>3
  <2> QED
    BY <1>1, <2>3, <2>5 DEF Right, Card
<1>7. ASSUME NEW d \in Callers, d # c  PROVE Right(d)'
  <2>1. Right(d)
    BY DEF TuneInv
  <2> QED
    BY <1>1, <1>2, <1>7, <2>1, RightKept
<1> QED
  BY <1>3, <1>4, <1>5, <1>6, <1>7 DEF TuneInv

\* A FIFO that hangs is not to be relied on from then on.
LEMMA HangTune ==
  ASSUME TuneInv, NEW k \in Cards, HwHang(k), UNCHANGED <<jobVars, chip>>
  PROVE  TuneInv'
<1>1. /\ UNCHANGED <<req, step, try, lp, ts_id, final, outcome, short, chip>>
      /\ UNCHANGED <<fifo, running, pc, block>>
      /\ \A j \in Cards : hung[j] => hung'[j]
  BY DEF HwHang, jobVars, TuneInv, BusInv, BusTypes
<1>2. BusInv'
  BY HwInv DEF TuneInv
<1>3. Domains' /\ Running'
  BY <1>1 DEF TuneInv, Domains, Running, Card
<1>4. ASSUME NEW d \in Callers  PROVE Right(d)'
  <2>1. Right(d) /\ Card(d) \in Cards
    BY CardType DEF TuneInv
  <2> QED
    BY <1>1, <2>1, RightKept
<1> QED
  BY <1>2, <1>3, <1>4 DEF TuneInv

\* What the chip takes from the transfer of a step
LEMMA TakenByChip ==
  ASSUME TuneInv, NEW c \in Callers, step[c] # "idle", ~hung[Card(c)]
  PROVE  LET new == Taken(chip[c], KindOf[c], Sent(c)[1])
         IN  /\ DOMAIN new = {"mhz", "ts"}
             /\ step[c] \in First => new.mhz = Asked(c)
             /\ step[c] \notin First => new.mhz = chip[c].mhz
             /\ step[c] = "set" => new.ts = ts_id[c][lp[c]]
             /\ step[c] = "get" => new.ts = chip[c].ts
<1>1. Right(c) /\ Working(c) /\ Collected(c) /\ DOMAIN chip[c] = {"mhz", "ts"}
  BY DEF TuneInv, Right, Domains
<1>2. step[c] \notin Quiet =>
        /\ req[c] \in [freq : Nat, slot : Nat, type : {"S", "T"}]
        /\ KindOf[c] = "S" => req[c].freq < MAX_BS_CHANNEL
  BY <1>1, TuningAssumption DEF Working
<1>3. CASE step[c] \in {"pll1", "pll2", "pll3"}
  <2>1. KindOf[c] = "S" /\ req[c].freq \in Nat /\ req[c].freq < MAX_BS_CHANNEL
    BY <1>1, <1>2, <1>3 DEF Working, Quiet, GroundSteps
  <2>2. Sent(c)[1] = BsCommands(req[c].freq)[IF step[c] = "pll1" THEN 1
                                             ELSE IF step[c] = "pll2" THEN 2 ELSE 3]
    BY <1>3 DEF Sent, Order
  <2>3. Asked(c) = BsMHz(bs_pll[req[c].freq + 1])
    BY <1>2, <1>3, <2>1 DEF Asked, Tuned, Quiet
  <2>4. /\ Taken(chip[c], KindOf[c], BsCommands(req[c].freq)[1]) = [mhz |-> Asked(c), ts |-> 0]
        /\ Taken(chip[c], KindOf[c], BsCommands(req[c].freq)[2]) = chip[c]
        /\ Taken(chip[c], KindOf[c], BsCommands(req[c].freq)[3]) = chip[c]
    <3> DEFINE n == req[c].freq
               kind == KindOf[c]
               old == chip[c]
    <3>1. kind = "S" /\ n \in Nat /\ n < MAX_BS_CHANNEL /\ Asked(c) = BsMHz(bs_pll[n + 1])
      BY <2>1, <2>3
    <3> HIDE DEF n, kind, old
    <3>2. /\ Taken(old, "S", BsCommands(n)[1]) = [mhz |-> BsMHz(bs_pll[n + 1]), ts |-> 0]
          /\ Taken(old, "S", BsCommands(n)[2]) = old
          /\ Taken(old, "S", BsCommands(n)[3]) = old
      BY <3>1, BsCommand
    <3>3. /\ Taken(old, kind, BsCommands(n)[1]) = [mhz |-> Asked(c), ts |-> 0]
          /\ Taken(old, kind, BsCommands(n)[2]) = old
          /\ Taken(old, kind, BsCommands(n)[3]) = old
      BY <3>1, <3>2
    <3> QED
      BY <3>3 DEF n, kind, old
  <2>5. CASE step[c] = "pll1"
    <3>1. Taken(chip[c], KindOf[c], Sent(c)[1]) = [mhz |-> Asked(c), ts |-> 0]
      BY <2>2, <2>4, <2>5
    <3> QED
      BY <2>5, <3>1 DEF First
  <2>6. CASE step[c] # "pll1"
    <3>1. Taken(chip[c], KindOf[c], Sent(c)[1]) = chip[c]
      BY <1>3, <2>2, <2>4, <2>6
    <3> QED
      BY <1>1, <1>3, <2>6, <3>1 DEF First
  <2> QED
    BY <2>5, <2>6
<1>4. CASE step[c] = "base"
  <2>1. KindOf[c] # "S" /\ req[c].freq \in Nat /\ req[c].slot \in Nat
    BY <1>1, <1>2, <1>4 DEF Working, Quiet, BsSteps, TsSteps
  <2>2. Sent(c)[1] = TCommand(req[c].freq, req[c].slot)
    BY <1>4 DEF Sent, Order
  <2>3. Asked(c) = TMHz(getfrequency(req[c].freq, req[c].slot))
    BY <1>2, <1>4, <2>1 DEF Asked, Tuned, Quiet
  <2> QED
    BY <1>1, <1>4, <2>1, <2>2, <2>3, GroundCommand DEF First
<1>5. CASE step[c] = "set"
  <2>1. ts_id[c][lp[c]] \in Nat
    BY <1>1, <1>5 DEF Collected, TsSteps
  <2>2. Sent(c)[1] = bs_set_ts_lock(ts_id[c][lp[c]])
    BY <1>5 DEF Sent, Order
  <2>3. PICK new : /\ new = Taken(chip[c], KindOf[c], Sent(c)[1])
                   /\ new = [chip[c] EXCEPT !.ts = ts_id[c][lp[c]]]
    BY <2>1, <2>2, TsCommand
  <2>4. DOMAIN new = {"mhz", "ts"} /\ new.mhz = chip[c].mhz /\ new.ts = ts_id[c][lp[c]]
    BY <1>1, <2>3
  <2> QED
    BY <1>5, <2>3, <2>4 DEF First
<1>6. CASE step[c] \notin {"pll1", "pll2", "pll3", "base", "set"}
  <2>1. Taken(chip[c], KindOf[c], Sent(c)[1]) = chip[c]
    <3>1. CASE step[c] = "ids"
      <4>1. lp[c] \in 1 .. 4
        BY <1>1, <3>1, TuningAssumption DEF Collected, TsSteps
      <4> QED
        BY <3>1, <4>1, OtherCommand DEF Sent, Order, bs_get_ts_id, SetsNothing
    <3>2. CASE step[c] # "ids"
      BY <1>1, <1>6, <3>2, OtherCommand
         DEF Sent, Order, Working, Quiet, BsSteps, GroundSteps, TsSteps, SetsNothing
    <3> QED
      BY <3>1, <3>2
  <2> QED
    BY <1>1, <1>6, <2>1 DEF First
<1> QED
  BY <1>3, <1>4, <1>5, <1>6

\* The chip takes what its caller's step sends, and no other chip takes any of it.
LEMMA RunsTune ==
  ASSUME TuneInv, NEW k \in Cards, Runs(k)
  PROVE  TuneInv'
<1>1. /\ running[k] # None /\ ~hung[k] /\ running' = [running EXCEPT ![k] = None]
      /\ UNCHANGED <<fifo, hung, holder, pc, block>>
      /\ UNCHANGED <<req, step, try, lp, ts_id, final, outcome, short>> /\ ChipsTake(k)
  BY DEF Runs, HwDone, jobVars
<1>2. PICK c \in Callers : c = running[k]
  BY <1>1 DEF TuneInv, BusInv, BusTypes, Who
<1>3. Card(c) = k /\ pc[c] = "poll"
  BY <1>1, <1>2 DEF TuneInv, Running
<1>4. Right(c) /\ step[c] # "idle" /\ fifo[k][2] = Sends(c)
  BY <1>3 DEF TuneInv, Right, Working, Polling
<1>5. \A d \in Callers :
        chip'[d] = IF d = c THEN Taken(chip[c], KindOf[c], Sent(c)[1]) ELSE chip[d]
  <2>1. fifo[k][2].addr = AddrOf[c] /\ fifo[k][2].value = Sent(c)[1]
    BY <1>4 DEF Sends
  <2>2. \A d \in Callers : CardOf[d] = k /\ AddrOf[d] = AddrOf[c] => d = c
    BY <1>3, TuningAssumption DEF Card
  <2>3. CardOf[c] = k
    BY <1>3 DEF Card
  <2> QED
    BY <1>1, <2>1, <2>2, <2>3 DEF ChipsTake
<1>6. PICK new : new = Taken(chip[c], KindOf[c], Sent(c)[1])
  OBVIOUS
<1>7. /\ DOMAIN new = {"mhz", "ts"} /\ chip'[c] = new
      /\ step[c] \in First => new.mhz = Asked(c)
      /\ step[c] \notin First => new.mhz = chip[c].mhz
      /\ step[c] = "set" => new.ts = ts_id[c][lp[c]]
      /\ step[c] = "get" => new.ts = chip[c].ts
  BY <1>1, <1>3, <1>4, <1>5, <1>6, TakenByChip
<1>8. BusInv'
  BY <1>1, HwInv DEF TuneInv, Runs
<1>9. Domains'
  <2>1. DOMAIN chip' = Callers
    BY <1>1 DEF ChipsTake
  <2> QED
    BY <1>1, <1>5, <1>7, <2>1 DEF TuneInv, Domains
<1>10. Running'
  BY <1>1 DEF TuneInv, Running, Card, BusInv, BusTypes
<1>11. Right(c)'
  <2>1. Working(c)'
    BY <1>1, <1>4 DEF Right, Working, Sends, Sent, Order, Polling, Card
  <2>2. step[c] \in TsSteps => step[c] \notin First
    BY DEF TsSteps, First
  <2>3. OnFrequency(c) /\ Collected(c) /\ OnTs(c)
    BY <1>1, <1>3, <1>4 DEF Right
  <2>4. Asked(c)' = Asked(c) /\ Slot(c)' = Slot(c)
    BY <1>1 DEF Asked, Slot
  <2>5. step[c] \in TsSteps => (OnAirNow(c)' <=> OnAirNow(c)) /\ Ids(c)' = Ids(c)
    BY <1>7, <2>2 DEF OnAirNow, Ids
  <2>6. OnFrequency(c)'
    BY <1>1, <1>7, <2>3, <2>4, <2>5 DEF OnFrequency
  <2>7. Collected(c)'
    BY <1>1, <2>3, <2>4, <2>5 DEF Collected
  <2>8. OnTs(c)'
    BY <1>1, <1>7, <2>3 DEF OnTs
  <2> QED
    BY <2>1, <2>6, <2>7, <2>8 DEF Right
<1>12. ASSUME NEW d \in Callers, d # c  PROVE Right(d)'
  <2>1. Right(d) /\ Card(d) \in Cards
    BY CardType DEF TuneInv
  <2>2. Polling(d) => Card(d) # k
    BY <1>3, <1>12 DEF TuneInv, BusInv, Holds, Polling
  <2>3. Polling(d) => running'[Card(d)] = running[Card(d)]
    BY <1>1, <2>1, <2>2
  <2> QED
    BY <1>1, <1>5, <1>12, <2>1, <2>3, RightKept
<1> QED
  BY <1>8, <1>9, <1>10, <1>11, <1>12 DEF TuneInv

-----------------------------------------------------------------------------
(* The steps that end a transfer *)

\* On a sound card the FIFO has run the transfer that returns, and its answer is there.
LEMMA AtReturn ==
  ASSUME TuneInv, NEW c \in Callers, Return(c)
  PROVE  /\ pc[c] = "return" /\ pc'[c] = "idle" /\ step[c] # "idle"
         /\ \A d \in Callers : d # c => pc'[d] = pc[d]
         /\ UNCHANGED <<fifo, running, hung, result, block>>
         /\ BusInv' /\ Running'
         /\ Right(c) /\ (~hung[Card(c)] => Ran(c) /\ Sound(c))
<1>1. /\ pc[c] = "return" /\ pc'[c] = "idle" /\ \A d \in Callers : d # c => pc'[d] = pc[d]
      /\ UNCHANGED <<fifo, running, hung, result, block>>
  BY DEF Return, hwVars, TuneInv, BusInv, BusTypes
<1>2. Right(c) /\ step[c] # "idle"
  BY <1>1 DEF TuneInv, Right, Working
<1>3. BusInv'
  BY ReturnInv DEF TuneInv
<1>4. Running'
  <2> SUFFICES ASSUME NEW k \in Cards, running[k] # None, ~hung[k]
               PROVE  Card(running[k]) = k /\ pc'[running[k]] = "poll"
    BY <1>1 DEF Running, Card
  <2>1. Card(running[k]) = k /\ pc[running[k]] = "poll" /\ running[k] \in Callers
    BY DEF TuneInv, Running, BusInv, BusTypes, Who
  <2> QED
    BY <1>1, <2>1
<1>5. ~hung[Card(c)] => Ran(c) /\ Sound(c)
  BY <1>1 DEF TuneInv, BusInv, Served, Mine, Ran, Polling, Sound, Answer
<1> QED
  BY <1>1, <1>2, <1>3, <1>4, <1>5

\* What is left to show of a step that ends a transfer
LEMMA Proceeds ==
  ASSUME TuneInv, NEW c \in Callers, Return(c), UNCHANGED <<chip, req>>, Domains',
         \A d \in Callers : d # c => /\ step'[d] = step[d] /\ lp'[d] = lp[d]
                                     /\ ts_id'[d] = ts_id[d] /\ final'[d] = final[d]
                                     /\ short'[d] = short[d],
         step'[c] \in Quiet \cup (IF KindOf[c] = "S" THEN BsSteps ELSE GroundSteps),
         step'[c] \in Quiet \/ step[c] \notin Quiet,
         ~hung[Card(c)] => (OnFrequency(c) /\ Collected(c) /\ OnTs(c))'
  PROVE  TuneInv'
<1>1. /\ pc'[c] = "idle" /\ \A d \in Callers : d # c => pc'[d] = pc[d]
      /\ UNCHANGED <<fifo, running, hung, result, block>>
      /\ BusInv' /\ Running' /\ Right(c)
  BY AtReturn
<1>2. Right(c)'
  <2>1. Working(c)'
    BY <1>1 DEF Right, Working, Polling
  <2> QED
    BY <1>1, <2>1 DEF Right, Card
<1>3. ASSUME NEW d \in Callers, d # c  PROVE Right(d)'
  <2>1. Right(d)
    BY DEF TuneInv
  <2> QED
    BY <1>1, <1>3, <2>1, RightKept
<1> QED
  BY <1>1, <1>2, <1>3 DEF TuneInv

\* SetFreq ends: the driver's record of the TS is gone with its stack.
LEMMA DoneTune ==
  ASSUME TuneInv, NEW c \in Callers, NEW what, Return(c), Done(c, what),
         UNCHANGED <<chip, req>>
  PROVE  TuneInv'
<1>1. /\ step' = [step EXCEPT ![c] = "idle"] /\ try' = [try EXCEPT ![c] = 0]
      /\ outcome' = [outcome EXCEPT ![c] = what] /\ lp' = [lp EXCEPT ![c] = 0]
      /\ ts_id' = [ts_id EXCEPT ![c] = <<>>]
      /\ final' = [final EXCEPT ![c] = FALSE] /\ short' = [short EXCEPT ![c] = FALSE]
  BY DEF Done, Then
<1>2. /\ step'[c] = "idle" /\ lp'[c] = 0 /\ ts_id'[c] = <<>> /\ ~final'[c] /\ ~short'[c]
      /\ \A d \in Callers : d # c => /\ step'[d] = step[d] /\ lp'[d] = lp[d]
                                     /\ ts_id'[d] = ts_id[d] /\ final'[d] = final[d]
                                     /\ short'[d] = short[d]
  BY <1>1 DEF TuneInv, Domains
<1>3. Domains'
  <2>1. UNCHANGED <<fifo, block>>
    BY AtReturn
  <2> QED
    BY <1>1, <2>1 DEF TuneInv, Domains
<1>4. (OnFrequency(c) /\ Collected(c) /\ OnTs(c))'
  BY <1>2 DEF OnFrequency, Collected, OnTs, Quiet, TsSteps
<1> QED
  BY <1>2, <1>3, <1>4, Proceeds DEF Quiet

\* A loop goes round: the same transfer again.
LEMMA AgainTune ==
  ASSUME TuneInv, NEW c \in Callers, Return(c), NotYet(c), step[c] \notin Quiet,
         UNCHANGED <<chip, req, outcome, lp, ts_id, final, short>>, step[c] \notin First,
         step[c] # "set"
  PROVE  TuneInv'
<1>1. UNCHANGED step /\ DOMAIN try' = DOMAIN try
  BY DEF NotYet
<1>2. UNCHANGED <<fifo, block>> /\ Right(c)
  BY AtReturn
<1>3. Domains'
  BY <1>1, <1>2 DEF TuneInv, Domains
<1>4. ASSUME ~hung[Card(c)]  PROVE (OnFrequency(c) /\ Collected(c) /\ OnTs(c))'
  <2>1. OnFrequency(c) /\ Collected(c) /\ OnTs(c)
    BY <1>2, <1>4 DEF Right
  <2>2. Asked(c)' = Asked(c) /\ Slot(c)' = Slot(c) /\ Ids(c)' = Ids(c)
        /\ (OnAirNow(c)' <=> OnAirNow(c))
    BY DEF Asked, Slot, Ids, OnAirNow
  <2> QED
    BY <1>1, <2>1, <2>2 DEF OnFrequency, Collected, OnTs
<1>5. step'[c] \in Quiet \cup (IF KindOf[c] = "S" THEN BsSteps ELSE GroundSteps)
  BY <1>1, <1>2 DEF Right, Working
<1> QED
  BY <1>1, <1>3, <1>4, <1>5, Proceeds

\* On to another step, with the loop variables and the TS-IDs of this caller changed
LEMMA Onward ==
  ASSUME TuneInv, NEW c \in Callers, Return(c), NEW next, Then(c, next),
         UNCHANGED <<ts_id, short, outcome, chip, req>>, DOMAIN lp' = Callers,
         final' \in [Callers -> BOOLEAN],
         \A d \in Callers : d # c => lp'[d] = lp[d] /\ final'[d] = final[d],
         next \in IF KindOf[c] = "S" THEN BsSteps ELSE GroundSteps, next \notin First,
         step[c] \notin Quiet,
         ~hung[Card(c)] => /\ next \in TsSteps => OnAirNow(c)
                           /\ next = "get" => step[c] = "set" /\ lp'[c] = lp[c],
         ~hung[Card(c)] => (Collected(c))'
  PROVE  TuneInv'
<1>1. /\ step' = [step EXCEPT ![c] = next] /\ try' = [try EXCEPT ![c] = 0]
  BY DEF Then
<1>2. /\ step'[c] = next
      /\ \A d \in Callers : d # c => /\ step'[d] = step[d] /\ lp'[d] = lp[d]
                                     /\ ts_id'[d] = ts_id[d] /\ final'[d] = final[d]
                                     /\ short'[d] = short[d]
  BY <1>1 DEF TuneInv, Domains
<1>3. UNCHANGED <<fifo, block>> /\ Right(c) /\ (~hung[Card(c)] => Ran(c)) /\ pc'[c] = "idle"
  BY AtReturn
<1>4. Domains'
  BY <1>1, <1>3 DEF TuneInv, Domains
<1>5. ASSUME ~hung[Card(c)]  PROVE (OnFrequency(c) /\ OnTs(c))'
  <2>1. OnFrequency(c) /\ OnTs(c)
    BY <1>3, <1>5 DEF Right
  <2>2. Asked(c)' = Asked(c) /\ (OnAirNow(c)' <=> OnAirNow(c))
    BY DEF Asked, OnAirNow
  <2>3. OnFrequency(c)'
    BY <1>2, <1>3, <1>5, <2>1, <2>2 DEF OnFrequency
  <2>4. OnTs(c)'
    BY <1>2, <1>3, <1>5, <2>1 DEF OnTs, Ran, Polling
  <2> QED
    BY <2>3, <2>4
<1> QED
  BY <1>2, <1>4, <1>5, Proceeds

LEMMA WroteTune ==
  ASSUME TuneInv, NEW c \in Callers, Wrote(c)
  PROVE  TuneInv'
<1> DEFINE next == AfterWrite[step[c]]
<1>1. /\ Return(c) /\ Then(c, next) /\ UNCHANGED <<chip, req, lp, ts_id, final, outcome, short>>
      /\ step[c] \in {"pll1", "pll2", "pll3", "tmcc1", "set", "base", "check"}
  BY DEF Wrote, AfterWrite
<1>2. Right(c) /\ step'[c] = next /\ DOMAIN lp = Callers
  BY <1>1, AtReturn DEF Then, TuneInv, Domains
<1>3. /\ next \in IF KindOf[c] = "S" THEN BsSteps ELSE GroundSteps
      /\ next \notin First /\ step[c] \notin Quiet
      /\ next \in TsSteps <=> step[c] = "set"
      /\ step[c] = "set" => next = "get"
      /\ next = "get" => step[c] = "set"
  BY <1>1, <1>2 DEF AfterWrite, Right, Working, Quiet, BsSteps, GroundSteps, TsSteps, First
<1>4. ASSUME ~hung[Card(c)]
      PROVE  /\ next \in TsSteps => OnAirNow(c)
             /\ Collected(c)'
  <2>1. OnFrequency(c) /\ Collected(c) /\ Ids(c)' = Ids(c) /\ Slot(c)' = Slot(c)
    BY <1>1, <1>2, <1>4 DEF Right, Ids, OnAirNow, Slot
  <2>2. next \in TsSteps => OnAirNow(c)
    BY <1>3, <2>1 DEF OnFrequency, TsSteps
  <2>3. ASSUME step[c] = "set"  PROVE Collected(c)'
    <3>1. step'[c] = "get" /\ "get" \in TsSteps
      BY <1>2, <1>3, <2>3 DEF TsSteps
    <3>2. UNCHANGED <<lp, ts_id, final, short>>
      BY <1>1
    <3> QED
      BY ONLY <2>1, <2>3, <3>1, <3>2 DEF Collected, TsSteps
  <2>4. ASSUME step[c] # "set"  PROVE Collected(c)'
    <3>1. step[c] \notin TsSteps /\ step'[c] \notin TsSteps
      BY <1>1, <1>2, <1>3, <2>4 DEF TsSteps
    <3>2. UNCHANGED <<lp, ts_id, final, short>>
      BY <1>1
    <3> QED
      BY ONLY <2>1, <3>1, <3>2 DEF Collected, TsSteps
  <2> QED
    BY <2>2, <2>3, <2>4
<1> HIDE DEF next
<1> QED
  BY <1>1, <1>2, <1>3, <1>4, Onward DEF TuneInv, Domains

LEMMA LockedTune ==
  ASSUME TuneInv, NEW c \in Callers, Locked(c)
  PROVE  TuneInv'
<1>1. /\ step[c] \in {"pll", "tmcc", "lock", "tune"} /\ CanLock(c) /\ Return(c)
      /\ UNCHANGED <<chip, req>>
  BY DEF Locked, Accepted
<1>2. CASE step[c] = "tune"
  BY <1>1, <1>2, DoneTune DEF Locked
<1>3. CASE step[c] # "tune"
  <2> DEFINE next == AfterLock[step[c]]
  <2>1. /\ Then(c, next) /\ UNCHANGED <<outcome, ts_id, final, short>>
        /\ lp' = [lp EXCEPT ![c] = IF step[c] = "tmcc" THEN 1 ELSE @]
    BY <1>3 DEF Locked, On
  <2>2. Right(c) /\ step'[c] = next /\ (~hung[Card(c)] => Sound(c))
    BY <1>1, <2>1, AtReturn DEF Then, TuneInv, Domains
  <2>3. /\ next \in IF KindOf[c] = "S" THEN BsSteps ELSE GroundSteps
        /\ next \notin First /\ step[c] \notin Quiet /\ next # "get"
        /\ next \in TsSteps => step[c] = "tmcc"
        /\ step[c] = "tmcc" => next = "ids"
        /\ step[c] \notin TsSteps
    BY <1>1, <1>3, <2>2
       DEF AfterLock, Right, Working, Quiet, BsSteps, GroundSteps, TsSteps, First
  <2>4. /\ DOMAIN lp' = Callers /\ \A d \in Callers : d # c => lp'[d] = lp[d]
        /\ step[c] = "tmcc" => lp'[c] = 1
    BY <2>1 DEF TuneInv, Domains
  <2>5. ASSUME ~hung[Card(c)]
        PROVE  /\ next \in TsSteps => OnAirNow(c)
               /\ Collected(c)'
    <3>1. Collected(c) /\ Sound(c)
      BY <2>2, <2>5 DEF Right
    <3>2. ts_id[c] = <<>> /\ ~short[c] /\ ~final[c]
      BY <2>3, <3>1 DEF Collected
    <3>3. next \in TsSteps => OnAirNow(c)
      BY <1>1, <2>3, <3>1 DEF CanLock
    <3>4. ASSUME step[c] = "tmcc"  PROVE Collected(c)'
      <4>1. step'[c] = "ids" /\ "ids" \in TsSteps /\ lp'[c] = 1 /\ 2 <= MAX_BS_TS_ID
        BY <2>2, <2>3, <2>4, <3>4, TuningAssumption DEF TsSteps
      <4>2. ts_id'[c] = <<>> /\ ~short'[c] /\ ~final'[c]
        BY <2>1, <3>2
      <4> QED
        BY ONLY <4>1, <4>2 DEF Collected
    <3>5. ASSUME step[c] # "tmcc"  PROVE Collected(c)'
      <4>1. step'[c] \notin TsSteps
        BY <2>2, <2>3, <3>5
      <4>2. ts_id'[c] = <<>> /\ ~short'[c] /\ ~final'[c]
        BY <2>1, <3>2
      <4> QED
        BY ONLY <4>1, <4>2 DEF Collected, TsSteps
    <3> QED
      BY <3>3, <3>4, <3>5
  <2>6. final' \in [Callers -> BOOLEAN] /\ \A d \in Callers : final'[d] = final[d]
    BY <2>1 DEF TuneInv, Domains
  <2> HIDE DEF next
  <2> QED
    BY <1>1, <2>1, <2>3, <2>4, <2>5, <2>6, Onward
<1> QED
  BY <1>2, <1>3

LEMMA NotLockedTune ==
  ASSUME TuneInv, NEW c \in Callers, NotLocked(c)
  PROVE  TuneInv'
<1>1. /\ step[c] \in {"pll", "tmcc", "lock", "tune"} /\ Return(c) /\ UNCHANGED <<chip, req>>
      /\ \/ NotYet(c) /\ UNCHANGED <<outcome, lp, ts_id, final, short>>
         \/ Done(c, "error")
  BY DEF NotLocked
<1>2. step[c] \notin Quiet /\ step[c] \notin First /\ step[c] # "set"
  BY <1>1 DEF Quiet, First
<1>3. CASE Done(c, "error")
  BY <1>1, <1>3, DoneTune
<1>4. CASE NotYet(c) /\ UNCHANGED <<outcome, lp, ts_id, final, short>>
  BY <1>1, <1>2, <1>4, AgainTune
<1> QED
  BY <1>1, <1>3, <1>4

LEMMA TsLockedTune ==
  ASSUME TuneInv, NEW c \in Callers, ts_locked(c)
  PROVE  TuneInv'
<1>1. /\ step[c] = "get" /\ Return(c) /\ UNCHANGED <<chip, req>>
      /\ \/ NotYet(c) /\ UNCHANGED <<outcome, lp, ts_id, final, short>>
         \/ Done(c, "ok")
         \/ ~final[c] /\ On(c, "slot") /\ UNCHANGED lp
  BY DEF ts_locked
<1>2. /\ step[c] \notin Quiet /\ step[c] \notin First /\ step[c] # "set"
      /\ step[c] \in TsSteps /\ "slot" \in TsSteps /\ "slot" \in BsSteps /\ "slot" \notin First
  BY <1>1 DEF Quiet, First, TsSteps, BsSteps
<1>3. CASE Done(c, "ok")
  BY <1>1, <1>3, DoneTune
<1>4. CASE NotYet(c) /\ UNCHANGED <<outcome, lp, ts_id, final, short>>
  BY <1>1, <1>2, <1>4, AgainTune
<1>5. CASE ~final[c] /\ On(c, "slot") /\ UNCHANGED lp
  <2>1. /\ Then(c, "slot") /\ UNCHANGED <<outcome, ts_id, final, short, lp>>
    BY <1>5 DEF On
  <2>2. Right(c) /\ step'[c] = "slot"
    BY <1>1, <2>1, AtReturn DEF Then, TuneInv, Domains
  <2>3. KindOf[c] = "S"
    BY <1>1, <2>2 DEF Right, Working, Quiet, GroundSteps
  <2>4. ASSUME ~hung[Card(c)]  PROVE OnAirNow(c) /\ Collected(c)'
    <3>1. OnFrequency(c) /\ Collected(c) /\ Ids(c)' = Ids(c)
      BY <1>1, <2>2, <2>4 DEF Right, Ids, OnAirNow
    <3>2. Collected(c)'
      BY <1>1, <1>2, <1>5, <2>1, <2>2, <3>1 DEF Collected
    <3> QED
      BY <1>2, <3>1, <3>2 DEF OnFrequency
  <2> QED
    BY <1>1, <1>2, <2>1, <2>3, <2>4, Onward DEF TuneInv, Domains
<1> QED
  BY <1>1, <1>3, <1>4, <1>5

LEMMA ReadIdsTune ==
  ASSUME TuneInv, NEW c \in Callers, ReadIds(c)
  PROVE  TuneInv'
<1>1. PICK pair \in PairsRead(c) :
        \/ NotYet(c) /\ UNCHANGED <<lp, ts_id, short>>
        \/ /\ ts_id' = [ts_id EXCEPT ![c] = @ \o pair]
           /\ lp' = [lp EXCEPT ![c] = @ + 1]
           /\ short' = [short EXCEPT ![c] = @ \/ pair[1] = 0]
           /\ Then(c, IF 2 * lp[c] < MAX_BS_TS_ID THEN "ids" ELSE "agc")
  BY DEF ReadIds, InOrder
<1>2. /\ step[c] = "ids" /\ Return(c) /\ UNCHANGED <<chip, req, final, outcome>>
  BY DEF ReadIds
<1>3. /\ step[c] \notin Quiet /\ step[c] \notin First /\ step[c] # "set"
      /\ {"ids", "agc"} \subseteq TsSteps \cap BsSteps /\ {"ids", "agc"} \cap First = {}
  BY <1>2 DEF Quiet, First, TsSteps, BsSteps
<1>4. CASE NotYet(c) /\ UNCHANGED <<lp, ts_id, short>>
  BY <1>2, <1>3, <1>4, AgainTune
<1>5. CASE /\ ts_id' = [ts_id EXCEPT ![c] = @ \o pair]
           /\ lp' = [lp EXCEPT ![c] = @ + 1]
           /\ short' = [short EXCEPT ![c] = @ \/ pair[1] = 0]
           /\ Then(c, IF 2 * lp[c] < MAX_BS_TS_ID THEN "ids" ELSE "agc")
  <2> DEFINE next == IF 2 * lp[c] < MAX_BS_TS_ID THEN "ids" ELSE "agc"
  <2>1. /\ step' = [step EXCEPT ![c] = next] /\ try' = [try EXCEPT ![c] = 0]
    BY <1>5 DEF Then
  <2>2. /\ step'[c] = next /\ lp'[c] = lp[c] + 1 /\ ts_id'[c] = ts_id[c] \o pair
        /\ (short'[c] <=> short[c] \/ pair[1] = 0)
        /\ \A d \in Callers : d # c => /\ step'[d] = step[d] /\ lp'[d] = lp[d]
                                       /\ ts_id'[d] = ts_id[d] /\ final'[d] = final[d]
                                       /\ short'[d] = short[d]
    BY <1>2, <1>5, <2>1 DEF TuneInv, Domains
  <2>3. /\ UNCHANGED <<fifo, block>> /\ Right(c)
        /\ (~hung[Card(c)] => Ran(c) /\ Sound(c)) /\ pc'[c] = "idle"
    BY <1>2, AtReturn
  <2>4. KindOf[c] = "S" /\ req[c] \in Requests[c]
    BY <1>2, <1>3, <2>3 DEF Right, Working, GroundSteps, Quiet
  <2>5. Domains'
    <3>1. short' \in [Callers -> BOOLEAN] /\ DOMAIN short' = Callers
      BY <1>5 DEF TuneInv, Domains
    <3> QED
      BY <1>2, <1>5, <2>1, <2>3, <3>1 DEF TuneInv, Domains
  <2>6. next \in {"ids", "agc"}
    OBVIOUS
  <2>7. ASSUME ~hung[Card(c)]  PROVE (OnFrequency(c) /\ Collected(c) /\ OnTs(c))'
    <3>1. /\ OnFrequency(c) /\ Collected(c) /\ Sound(c) /\ Ids(c)' = Ids(c)
          /\ OnAirNow(c) /\ chip[c].mhz = Asked(c)
          /\ Asked(c)' = Asked(c) /\ (OnAirNow(c)' <=> OnAirNow(c))
      BY <1>2, <1>3, <2>3, <2>7 DEF Right, OnFrequency, Ids, OnAirNow, Asked
    <3>2. Ids(c) \in [1 .. MAX_BS_TS_ID -> Nat]
      <4>1. Asked(c) = BsMHz(bs_pll[req[c].freq + 1])
        <5>1. req[c] \in [freq : Nat, slot : Nat, type : {"S", "T"}]
          BY <2>4, TuningAssumption
        <5> QED
          BY <2>4, <5>1 DEF Asked, Tuned
      <4> QED
        BY <2>4, <3>1, <4>1, TuningAssumption DEF Ids, OnAirNow
    <3>3. /\ ts_id[c] \in Seq(Nat) /\ lp[c] \in Nat \ {0} /\ 2 * lp[c] <= MAX_BS_TS_ID
          /\ Len(ts_id[c]) = (2 * lp[c]) - 2
          /\ ~short[c] => \A i \in 1 .. Len(ts_id[c]) : ts_id[c][i] = Ids(c)[i]
          /\ ~final[c]
      BY <1>2, <1>3, <3>1 DEF Collected
    <3>4. PICK a \in Nat, b \in Nat :
            /\ pair = <<a, b>>
            /\ a # 0 => a = Ids(c)[(2 * lp[c]) - 1] /\ b = Ids(c)[2 * lp[c]]
      <4>1. Ids(c)[(2 * lp[c]) - 1] \in Nat /\ Ids(c)[2 * lp[c]] \in Nat
        BY <3>2, <3>3, TuningAssumption
      <4> QED
        BY <3>1, <4>1 DEF PairsRead
    <3>5. /\ ts_id'[c] \in Seq(Nat) /\ Len(ts_id'[c]) = 2 * lp[c]
          /\ \A i \in 1 .. Len(ts_id[c]) : ts_id'[c][i] = ts_id[c][i]
          /\ ts_id'[c][(2 * lp[c]) - 1] = a /\ ts_id'[c][2 * lp[c]] = b
      <4>1. PICK t \in Seq(Nat), n \in Nat : t = ts_id[c] /\ n = (2 * lp[c]) - 2 /\ Len(t) = n
        BY <3>3
      <4>2. PICK u \in Seq(Nat) : u = <<a, b>> /\ Len(u) = 2 /\ u[1] = a /\ u[2] = b
        <5>1. \A x, y \in Nat : <<x, y>> \in Seq(Nat) /\ Len(<<x, y>>) = 2
          OBVIOUS
        <5> QED
          BY ONLY <5>1, a \in Nat, b \in Nat
      <4>3. /\ t \o u \in Seq(Nat) /\ Len(t \o u) = n + 2
            /\ \A i \in 1 .. n : (t \o u)[i] = t[i]
            /\ (t \o u)[n + 1] = a /\ (t \o u)[n + 2] = b
        <5>1. /\ t \o u \in Seq(Nat) /\ Len(t \o u) = Len(t) + Len(u)
              /\ \A i \in 1 .. Len(t) : (t \o u)[i] = t[i]
              /\ \A i \in 1 .. Len(u) : (t \o u)[Len(t) + i] = u[i]
          OBVIOUS
        <5>2. 1 \in 1 .. Len(u) /\ 2 \in 1 .. Len(u)
          BY ONLY <4>2
        <5> QED
          BY ONLY <4>1, <4>2, <5>1, <5>2
      <4>4. ts_id'[c] = t \o u
        BY <2>2, <3>4, <4>1, <4>2
      <4>5. n + 2 = 2 * lp[c] /\ n + 1 = (2 * lp[c]) - 1
        BY <3>3, <4>1
      <4> QED
        BY <4>1, <4>3, <4>4, <4>5
    <3>6. short'[c] \/ \A i \in 1 .. Len(ts_id'[c]) : ts_id'[c][i] = Ids(c)[i]
      <4> SUFFICES ASSUME ~short'[c], NEW i \in 1 .. Len(ts_id'[c])
                   PROVE  ts_id'[c][i] = Ids(c)[i]
        OBVIOUS
      <4>1. ~short[c] /\ a # 0
        BY <2>2, <3>4
      <4>2. i \in 1 .. Len(ts_id[c]) \/ i = (2 * lp[c]) - 1 \/ i = 2 * lp[c]
        <5>1. PICK p \in Nat, n \in Nat, m \in Nat :
                p = lp[c] /\ n = Len(ts_id[c]) /\ m = Len(ts_id'[c])
          BY <3>3, <3>5
        <5>2. i \in 1 .. m /\ n = (2 * p) - 2 /\ m = 2 * p
          BY <3>3, <3>5, <5>1
        <5>3. i \in 1 .. n \/ i = (2 * p) - 1 \/ i = 2 * p
          BY ONLY <5>2, p \in Nat, n \in Nat, m \in Nat
        <5> QED
          BY <5>1, <5>3
      <4> QED
        BY <3>3, <3>4, <3>5, <4>1, <4>2
    <3>7. /\ next = "ids" => 2 * (lp[c] + 1) <= MAX_BS_TS_ID
          /\ next = "agc" => 2 * lp[c] = MAX_BS_TS_ID
      BY <3>3, TuningAssumption
    <3>8. Collected(c)'
      <4>1. step'[c] \in TsSteps /\ step'[c] \notin {"slot", "set", "get"} /\ ~final'[c]
        BY <1>2, <1>3, <2>2, <3>3
      <4>2. ts_id'[c] \in Seq(Nat) /\ Len(ts_id'[c]) = 2 * lp[c]
        BY <3>5
      <4>3. CASE next = "ids"
        <5>1. /\ step'[c] = "ids" /\ lp'[c] \in Nat \ {0} /\ 2 * lp'[c] <= MAX_BS_TS_ID
              /\ Len(ts_id'[c]) = (2 * lp'[c]) - 2
          <6>1. \A n \in Nat : n + 1 \in Nat \ {0} /\ (2 * (n + 1)) - 2 = 2 * n
            OBVIOUS
          <6> QED
            BY ONLY <2>2, <3>3, <3>7, <4>2, <4>3, <6>1
        <5> QED
          BY <3>1, <3>6, <4>1, <4>2, <5>1 DEF Collected
      <4>4. CASE next = "agc"
        <5>1. step'[c] = "agc" /\ Len(ts_id'[c]) = MAX_BS_TS_ID
          BY <2>2, <3>7, <4>2, <4>4
        <5> QED
          BY <3>1, <3>6, <4>1, <4>2, <5>1 DEF Collected
      <4> QED
        BY <2>6, <4>3, <4>4
    <3>9. OnFrequency(c)'
      BY <1>2, <3>1 DEF OnFrequency
    <3>10. OnTs(c)'
      BY <2>2 DEF OnTs
    <3> QED
      BY <3>8, <3>9, <3>10
  <2> HIDE DEF next
  <2> QED
    BY <1>2, <1>3, <2>2, <2>4, <2>5, <2>6, <2>7, Proceeds
<1> QED
  BY <1>1, <1>4, <1>5

\* The loop over the TS of a channel; after it the TS asked for
LEMMA MeasuredTune ==
  ASSUME TuneInv, NEW c \in Callers, Measured(c)
  PROVE  TuneInv'
<1>1. /\ step[c] \in {"agc", "slot", "clock", "carrier", "signal1", "signal2"}
      /\ Return(c) /\ UNCHANGED <<chip, req, ts_id, outcome, short>>
  BY DEF Measured
<1>2. Right(c) /\ (~hung[Card(c)] => Ran(c)) /\ UNCHANGED <<fifo, block>>
  BY <1>1, AtReturn
<1>3. ASSUME ~hung[Card(c)]
      PROVE  OnFrequency(c) /\ Collected(c) /\ Ids(c)' = Ids(c) /\ Slot(c)' = Slot(c)
  BY <1>1, <1>2, <1>3 DEF Right, Ids, OnAirNow, Slot
<1>4. CASE step[c] \in {"agc", "slot"}
  <2>1. KindOf[c] = "S" /\ step[c] \in TsSteps /\ step[c] \notin Quiet
    BY <1>2, <1>4 DEF Right, Working, Quiet, GroundSteps, TsSteps
  <2>2. PICK n : /\ NextTs(c, n)
                 /\ n = IF step[c] = "agc" THEN 1 ELSE lp[c] + 1
    BY <1>4 DEF Measured
  <2>3. ASSUME ~hung[Card(c)]
        PROVE  /\ n \in Nat \ {0} /\ Collected(c) /\ ~final[c] /\ OnAirNow(c)
               /\ Len(ts_id[c]) = MAX_BS_TS_ID
    <3>1. lp[c] \in 1 .. MAX_BS_TS_ID \/ step[c] = "agc"
      BY <1>3, <1>4, <2>3 DEF Collected
    <3>2. n \in Nat \ {0}
      BY <2>2, <3>1, TuningAssumption
    <3> QED
      BY <1>3, <1>4, <2>1, <2>3, <3>2 DEF Collected, OnFrequency
  <2>4. CASE Then(c, "clock") /\ UNCHANGED <<lp, final>>
    <3>1. step'[c] = "clock" /\ "clock" \in TsSteps \cap BsSteps /\ "clock" \notin First
      BY <2>4 DEF Then, TuneInv, Domains, TsSteps, BsSteps, First
    <3>2. ASSUME ~hung[Card(c)]  PROVE Collected(c)'
      <4>1. /\ Collected(c) /\ ~final[c] /\ Len(ts_id[c]) = MAX_BS_TS_ID
            /\ step[c] \in TsSteps /\ Ids(c)' = Ids(c)
            /\ UNCHANGED <<ts_id, short, lp, final>>
        BY <1>1, <1>3, <2>1, <2>3, <2>4, <3>2
      <4> QED
        BY ONLY <3>1, <4>1 DEF Collected
    <3> QED
      BY <1>1, <2>1, <2>3, <2>4, <3>1, <3>2, Onward DEF TuneInv, Domains
  <2>5. ASSUME NEW i \in TsFrom(c, n), Then(c, "set"), GoTo(c, i)
        PROVE  TuneInv'
    <3>1. /\ step'[c] = "set" /\ lp'[c] = i /\ DOMAIN lp' = Callers /\ UNCHANGED final
          /\ \A d \in Callers : d # c => lp'[d] = lp[d]
          /\ "set" \in TsSteps \cap BsSteps /\ "set" \notin First
      BY <2>5 DEF Then, GoTo, TuneInv, Domains, TsSteps, BsSteps, First
    <3>2. ASSUME ~hung[Card(c)]  PROVE Collected(c)'
      <4>1. /\ Collected(c) /\ ~final[c] /\ Len(ts_id[c]) = MAX_BS_TS_ID
            /\ step[c] \in TsSteps /\ Ids(c)' = Ids(c)
            /\ UNCHANGED <<ts_id, short, final>>
        BY <1>1, <1>3, <2>1, <2>3, <3>1, <3>2
      <4>2. lp'[c] \in 1 .. MAX_BS_TS_ID
        BY <2>3, <2>5, <3>1, <3>2, TuningAssumption DEF TsFrom
      <4> QED
        BY ONLY <3>1, <4>1, <4>2 DEF Collected
    <3> QED
      BY <1>1, <2>1, <2>3, <2>5, <3>1, <3>2, Onward DEF TuneInv, Domains
  <2> QED
    BY <2>2, <2>4, <2>5 DEF NextTs
<1>5. CASE step[c] = "carrier"
  <2>1. /\ Then(c, "set") /\ lp' = [lp EXCEPT ![c] = Slot(c)]
        /\ final' = [final EXCEPT ![c] = TRUE]
    BY <1>5 DEF Measured
  <2>2. KindOf[c] = "S" /\ step[c] \in TsSteps /\ step[c] \notin Quiet /\ req[c] \in Requests[c]
    BY <1>2, <1>5 DEF Right, Working, Quiet, GroundSteps, TsSteps
  <2>3. /\ step'[c] = "set" /\ lp'[c] = Slot(c) /\ DOMAIN lp' = Callers
        /\ final' \in [Callers -> BOOLEAN]
        /\ \A d \in Callers : d # c => lp'[d] = lp[d] /\ final'[d] = final[d]
        /\ "set" \in TsSteps \cap BsSteps /\ "set" \notin First
    BY <2>1 DEF Then, TuneInv, Domains, TsSteps, BsSteps, First
  <2>4. Slot(c) \in 1 .. MAX_BS_TS_ID
    <3>1. req[c].slot \in Nat /\ req[c].slot < MAX_BS_TS_ID
      BY <2>2, TuningAssumption
    <3> QED
      BY <3>1, TuningAssumption DEF Slot
  <2>5. ASSUME ~hung[Card(c)]  PROVE Collected(c)' /\ OnAirNow(c)
    <3>1. /\ Collected(c) /\ Len(ts_id[c]) = MAX_BS_TS_ID /\ OnAirNow(c)
          /\ Ids(c)' = Ids(c) /\ Slot(c)' = Slot(c) /\ UNCHANGED <<ts_id, short>>
      BY <1>1, <1>3, <1>5, <2>2, <2>5 DEF Collected, OnFrequency
    <3>2. Collected(c)'
      BY ONLY <2>2, <2>3, <2>4, <3>1 DEF Collected
    <3> QED
      BY <3>1, <3>2
  <2> QED
    BY <1>1, <2>1, <2>2, <2>3, <2>5, Onward
<1>6. CASE step[c] = "clock"
  <2>1. Then(c, "carrier") /\ UNCHANGED <<lp, final>>
    BY <1>6 DEF Measured
  <2>2. KindOf[c] = "S" /\ step[c] \in TsSteps /\ step[c] \notin Quiet
    BY <1>2, <1>6 DEF Right, Working, Quiet, GroundSteps, TsSteps
  <2>3. step'[c] = "carrier" /\ "carrier" \in TsSteps \cap BsSteps /\ "carrier" \notin First
    BY <2>1 DEF Then, TuneInv, Domains, TsSteps, BsSteps, First
  <2>4. ASSUME ~hung[Card(c)]  PROVE Collected(c)' /\ OnAirNow(c)
    <3>1. /\ Collected(c) /\ Len(ts_id[c]) = MAX_BS_TS_ID /\ OnAirNow(c) /\ ~final[c]
          /\ Ids(c)' = Ids(c) /\ UNCHANGED <<ts_id, short, lp, final>>
      BY <1>1, <1>3, <1>6, <2>1, <2>2, <2>4 DEF Collected, OnFrequency
    <3>2. Collected(c)'
      BY ONLY <2>2, <2>3, <3>1 DEF Collected
    <3> QED
      BY <3>1, <3>2
  <2> QED
    BY <1>1, <2>1, <2>2, <2>3, <2>4, Onward DEF TuneInv, Domains
<1>7. CASE step[c] \in {"signal1", "signal2"}
  <2>1. UNCHANGED <<lp, final>> /\ \E next \in Quiet : Then(c, next)
    BY <1>7 DEF Measured, Quiet
  <2>2. /\ step'[c] \in Quiet /\ \A d \in Callers : d # c => step'[d] = step[d]
        /\ DOMAIN step' = Callers /\ DOMAIN try' = Callers
    BY <2>1 DEF Then, TuneInv, Domains
  <2>3. Domains'
    BY <1>1, <1>2, <2>1, <2>2 DEF TuneInv, Domains
  <2>4. ASSUME ~hung[Card(c)]  PROVE (OnFrequency(c) /\ Collected(c) /\ OnTs(c))'
    <3>1. step[c] \notin TsSteps /\ step'[c] \notin TsSteps /\ step'[c] \notin {"set", "get"}
      BY <1>7, <2>2 DEF TsSteps, Quiet
    <3>2. /\ ts_id'[c] = <<>> /\ ~short'[c] /\ ~final'[c]
      BY <1>1, <1>3, <2>1, <2>4, <3>1 DEF Collected
    <3>3. Collected(c)'
      BY ONLY <3>1, <3>2 DEF Collected, TsSteps
    <3>4. OnFrequency(c)' /\ OnTs(c)'
      BY ONLY <2>2, <3>1 DEF OnFrequency, OnTs
    <3> QED
      BY <3>3, <3>4
  <2> QED
    BY <1>1, <2>1, <2>2, <2>3, <2>4, Proceeds
<1> QED
  BY <1>1, <1>4, <1>5, <1>6, <1>7

-----------------------------------------------------------------------------
LEMMA NextTune == TuneInv /\ [Next]_tuningVars => TuneInv'
<1> SUFFICES ASSUME TuneInv, [Next]_tuningVars  PROVE TuneInv'
  OBVIOUS
<1>1. ASSUME NEW c \in Callers, SetFreq(c) \/ read_signal_strength(c)  PROVE TuneInv'
  BY <1>1, SetFreqTune
<1>2. ASSUME NEW c \in Callers, Transmit(c)  PROVE TuneInv'
  BY <1>2, TransmitTune
<1>3. ASSUME NEW c \in Callers, Answered(c)  PROVE TuneInv'
  BY <1>3, WroteTune, LockedTune, NotLockedTune, ReadIdsTune, TsLockedTune, MeasuredTune
     DEF Answered
<1>4. ASSUME NEW k \in Cards, Runs(k)  PROVE TuneInv'
  BY <1>4, RunsTune
<1>5. CASE Bus
  BY <1>5, StartTune, PollTune, HangTune DEF Bus, Inside
<1>6. CASE UNCHANGED tuningVars
  <2>1. /\ UNCHANGED <<fifo, running, hung, result, holder, pc, block, polls, chip>>
        /\ UNCHANGED <<req, step, try, lp, ts_id, final, outcome, short>>
    BY <1>6 DEF tuningVars, vars, jobVars
  <2>2. BusInv'
    BY <2>1 DEF TuneInv, BusInv, BusTypes, Holds, Served, Mine, Card
  <2>3. Domains' /\ Running'
    BY <2>1 DEF TuneInv, Domains, Running, Card
  <2>4. ASSUME NEW c \in Callers  PROVE Right(c)'
    <3>1. Right(c)
      BY DEF TuneInv
    <3> QED
      BY <2>1, <3>1, RightKept
  <2> QED
    BY <2>2, <2>3, <2>4 DEF TuneInv
<1> QED
  BY <1>1, <1>2, <1>3, <1>4, <1>5, <1>6 DEF Next

\* TunedRight for every instance.  SET_CHANNEL ends well in two places.  The loop of
\* isdb_t_tune saw a lock, on the frequency that the first write set.  The last
\* bs_ts_lock of bs_tune ended: the chip was on its frequency since the first write, the
\* TS-IDs are those on the air there, and the TS that the chip took last is that of
\* the slot asked for.
THEOREM TunesRight == Spec => TunedRight
<1> DEFINE Good(c) == /\ chip[c].mhz = Asked(c) /\ OnAirNow(c)
                      /\ ~short[c] /\ KindOf[c] = "S" => chip[c].ts = Ids(c)[req[c].slot + 1]
           Step == \A c \in Callers : Succeeds(c) => Good(c)
<1>1. Spec => []TuneInv
  BY InitTune, NextTune, PTL DEF Spec
<1>2. TuneInv /\ [Next]_tuningVars => [Step]_tuningVars
  <2> SUFFICES ASSUME TuneInv, Next, NEW c \in Callers, Succeeds(c)
               PROVE  Good(c)
    OBVIOUS
  <2>1. DOMAIN outcome = Callers /\ outcome'[c] = "ok" /\ outcome[c] # "ok" /\ ~hung[Card(c)]
    BY DEF TuneInv, Domains, Succeeds
  <2>2. \/ Locked(c) /\ step[c] = "tune"
        \/ ts_locked(c) /\ final[c]
    <3>1. ASSUME NEW d \in Callers, SetFreq(d) \/ read_signal_strength(d)  PROVE FALSE
      BY <2>1, <3>1 DEF SetFreq, read_signal_strength
    <3>2. ASSUME UNCHANGED outcome  PROVE FALSE
      BY <2>1, <3>2
    <3>3. ASSUME NEW d \in Callers, NEW what, Done(d, what)  PROVE d = c /\ what = "ok"
      BY <2>1, <3>3 DEF Done
    <3>4. PICK d \in Callers : Answered(d)
      BY <3>1, <3>2 DEF Next, Transmit, Runs, Bus, jobVars
    <3>5. Locked(d) \/ ts_locked(d)
      BY <3>2, <3>3, <3>4 DEF Answered, Wrote, NotLocked, ReadIds, Measured
    <3>6. CASE Locked(d)
      BY <3>2, <3>3, <3>6 DEF Locked, On
    <3>7. CASE ts_locked(d)
      BY <3>2, <3>3, <3>7 DEF ts_locked, On
    <3> QED
      BY <3>5, <3>6, <3>7
  <2>3. Return(c)
    BY <2>2 DEF Locked, ts_locked
  <2>4. Working(c) /\ OnFrequency(c) /\ Collected(c) /\ OnTs(c) /\ Sound(c)
    BY <2>1, <2>3, AtReturn DEF Right
  <2>5. CASE Locked(c) /\ step[c] = "tune"
    <3>1. KindOf[c] # "S" /\ chip[c].mhz = Asked(c)
      BY <2>4, <2>5 DEF Working, OnFrequency, Quiet, First, BsSteps, TsSteps
    <3>2. OnAirNow(c)
      BY <2>4, <2>5 DEF Locked, Accepted, CanLock
    <3> QED
      BY <3>1, <3>2
  <2>6. CASE ts_locked(c) /\ final[c]
    <3>1. step[c] = "get"
      BY <2>6 DEF ts_locked
    <3>2. chip[c].mhz = Asked(c) /\ OnAirNow(c)
      BY <2>4, <3>1 DEF OnFrequency, Quiet, First, TsSteps
    <3>3. chip[c].ts = ts_id[c][lp[c]] /\ lp[c] = Slot(c) /\ lp[c] \in 1 .. MAX_BS_TS_ID
      BY <2>4, <2>6, <3>1 DEF OnTs, Collected
    <3>4. ~short[c] => ts_id[c][lp[c]] = Ids(c)[lp[c]]
      BY <2>4, <3>1, <3>3 DEF Collected, TsSteps
    <3> QED
      BY <3>2, <3>3, <3>4 DEF Slot
  <2> QED
    BY <2>2, <2>5, <2>6
<1> HIDE DEF Step
<1>3. Spec => [][Step]_tuningVars
  BY <1>1, <1>2, PTL DEF Spec
<1> QED
  BY <1>3 DEF TunedRight, Step

-----------------------------------------------------------------------------
(* What the chips see, part 1: every program tells its transfer. *)

-----------------------------------------------------------------------------
\* A set of natural numbers has a least element.
LEMMA Least ==
  ASSUME NEW T \in SUBSET Nat, T # {}
  PROVE  \E x \in T : \A y \in T : x <= y
<1> DEFINE R == OpToRel(<, Nat)
<1>1. IsWellFoundedOn(R, Nat)
  BY NatLessThanWellFounded
<1>2. \A x, y \in Nat : <<y, x>> \in R <=> y < x
  BY DEF OpToRel
<1> HIDE DEF R
<1>3. PICK x \in T : \A y \in T : ~(<<y, x>> \in R)
  BY <1>1, WFMin
<1>4. \A y \in T : x \in Nat /\ y \in Nat /\ ~(y < x)
  BY <1>2, <1>3
<1> QED
  BY <1>4

\* What holds of the first number and goes from each to the next holds of all up to n.
LEMMA Induct ==
  ASSUME NEW m \in Nat, NEW n \in Nat, NEW T, m \in T,
         \A i \in m + 1 .. n : i - 1 \in T => i \in T
  PROVE  \A i \in m .. n : i \in T
<1> SUFFICES ASSUME NEW k \in m .. n, k \notin T PROVE FALSE
  OBVIOUS
<1> DEFINE U == {i \in m .. n : i \notin T}
<1>1. U \in SUBSET Nat /\ U # {}
  OBVIOUS
<1>2. PICK x \in U : \A y \in U : x <= y
  BY <1>1, Least
<1>3. x \in m .. n /\ x \notin T /\ x # m
  BY <1>2
<1>4. x - 1 \in m .. n /\ x \in m + 1 .. n
  BY <1>3
<1>5. x - 1 \notin U
  BY <1>2, <1>4
<1> QED
  BY <1>3, <1>4, <1>5

\* A function whose values follow from the one before exists, and its values stay in what
\* each step keeps: D[i] has the values after step i, G[i] is step i.
Follows(f, m, n, base, G) ==
  /\ f = [i \in m .. n |-> f[i]] /\ f[m] = base
  /\ \A i \in m .. n : i # m => f[i] = G[i][f[i-1]]
Within(f, m, n, D) == \A i \in m .. n : f[i] \in D[i]

\* Such a function exists.
LEMMA Looped ==
  ASSUME NEW m \in Nat, NEW n \in Nat, m <= n, NEW D, NEW G, NEW base, base \in D[m],
         \A i \in m .. n : i # m => \A x \in D[i-1] : G[i][x] \in D[i]
  PROVE  \E f : Follows(f, m, n, base, G) /\ Within(f, m, n, D)
<1> DEFINE Is(f, k) == Follows(f, m, k, base, G) /\ Within(f, m, k, D)
           T == {k \in m .. n : \E f : Is(f, k)}
<1>1. m \in T
  <2> DEFINE f == [i \in m .. m |-> base]
  <2>1. f[m] = base /\ \A i \in m .. m : i = m
    OBVIOUS
  <2>2. Is(f, m)
    BY <2>1 DEF Follows, Within
  <2>3. m \in m .. n
    OBVIOUS
  <2> HIDE DEF Is, f
  <2> QED  BY <2>2, <2>3
<1>2. ASSUME NEW k \in m + 1 .. n, k - 1 \in T PROVE k \in T
  <2>1. PICK g : Is(g, k - 1)
    BY <1>2
  <2> DEFINE f == [i \in m .. k |-> IF i = k THEN G[k][g[k-1]] ELSE g[i]]
  <2>2. k - 1 \in m .. k - 1 /\ k \in m .. n /\ k # m /\ k \in Int /\ k \in m .. k
    OBVIOUS
  <2>3. \A i \in m .. k : i # k => i \in m .. k - 1 /\ f[i] = g[i]
    OBVIOUS
  <2>4. \A i \in m .. k - 1 : f[i] = g[i] /\ i \in m .. k
    OBVIOUS
  <2>5. f[k] = G[k][f[k-1]] /\ f[k] \in D[k]
    BY <2>1, <2>2, <2>4 DEF Within
  <2>6. \A i \in m .. k : i # m => i - 1 \in m .. k - 1
    OBVIOUS
  <2>7. g[m] = base /\ \A i \in m .. k - 1 : i # m => g[i] = G[i][g[i-1]]
    BY <2>1 DEF Follows
  <2>8. f[m] = base /\ \A i \in m .. k : i # m => f[i] = G[i][f[i-1]]
    <3>1. m \in m .. k - 1
      OBVIOUS
    <3> HIDE DEF f
    <3> QED  BY <2>2, <2>3, <2>4, <2>5, <2>6, <2>7, <3>1
  <2>9. f = [i \in m .. k |-> f[i]]
    OBVIOUS
  <2>10. \A i \in m .. k : f[i] \in D[i]
    <3> HIDE DEF f
    <3> QED  BY <2>1, <2>3, <2>5 DEF Within
  <2>11. Is(f, k)
    <3> HIDE DEF f
    <3> QED  BY <2>8, <2>9, <2>10 DEF Follows, Within
  <2> HIDE DEF Is, f
  <2> QED  BY <2>2, <2>11
<1> HIDE DEF T
<1>3. \A k \in m .. n : k \in T
  BY <1>1, <1>2, Induct
<1>4. n \in m .. n
  OBVIOUS
<1> QED  BY <1>3, <1>4 DEF T

-----------------------------------------------------------------------------
(* FlattenSeq *)

\* The loop of FlattenSeq: f[i] are the first i sequences in a row.
Joins(f, ss) ==
  /\ f[1] = ss[1]
  /\ \A i \in 2 .. Len(ss) : f[i] = f[i-1] \o ss[i]
  /\ FlattenSeq(ss) = f[Len(ss)]

\* Such a loop exists, and what it builds are sequences.
LEMMA Flattened ==
  ASSUME NEW S, NEW ss \in Seq(Seq(S)), ss # <<>>
  PROVE  \E f : Joins(f, ss) /\ \A i \in 1 .. Len(ss) : f[i] \in Seq(S)
<1> DEFINE n == Len(ss)
           D == [i \in 1 .. n |-> Seq(S)]
           G == [i \in 1 .. n |-> [x \in Seq(S) |-> x \o ss[i]]]
           Eq(f) == f = [i \in 1 .. n |-> IF i = 1 THEN ss[i] ELSE f[i-1] \o ss[i]]
<1>1. n \in Nat /\ 1 \in Nat /\ 1 <= n /\ 1 \in 1 .. n /\ n \in 1 .. n
  OBVIOUS
<1>2. \A i \in 1 .. n : ss[i] \in Seq(S)
  OBVIOUS
<1>3. \A i \in 1 .. n : i # 1 => i \in 2 .. n /\ i - 1 \in 1 .. n
  BY <1>1
<1>4. \A i \in 1 .. n : i # 1 => \A x \in D[i-1] : G[i][x] \in D[i]
  <2> HIDE DEF n
  <2> QED  BY <1>2, <1>3
<1>5. ss[1] \in D[1]
  BY <1>1, <1>2
<1>6. \E f : Follows(f, 1, n, ss[1], G) /\ Within(f, 1, n, D)
  <2> HIDE DEF n, G, D
  <2> QED  BY ONLY <1>1, <1>4, <1>5, Looped
<1>7. \E f : Eq(f)
  <2>1. PICK f : Follows(f, 1, n, ss[1], G) /\ Within(f, 1, n, D)
    BY <1>6
  <2>2. \A i \in 1 .. n : i # 1 => f[i] = f[i-1] \o ss[i]
    <3> HIDE DEF n
    <3> QED  BY <1>3, <2>1 DEF Follows, Within
  <2>3. Eq(f)
    <3> HIDE DEF n
    <3> QED  BY <2>1, <2>2 DEF Follows
  <2> HIDE DEF Eq
  <2> QED  BY <2>3
<1> DEFINE f == CHOOSE f : Eq(f)
           T == {i \in 1 .. n : f[i] \in Seq(S)}
<1>8. Eq(f)
  <2> HIDE DEF Eq
  <2> QED  BY <1>7
<1>9. FlattenSeq(ss) = f[n]
  BY <1>1 DEF FlattenSeq
<1> HIDE DEF f
<1>10. \A i \in 1 .. n : f[i] = IF i = 1 THEN ss[1] ELSE f[i-1] \o ss[i]
  <2> HIDE DEF n
  <2> QED  BY <1>8
<1>11. 1 \in T
  BY <1>1, <1>2, <1>10
<1>12. ASSUME NEW i \in 1 + 1 .. n, i - 1 \in T  PROVE i \in T
  <2>1. i \in 1 .. n /\ i # 1 /\ f[i-1] \in Seq(S)
    BY <1>1, <1>12
  <2>2. f[i] = f[i-1] \o ss[i] /\ ss[i] \in Seq(S)
    BY <1>2, <1>10, <2>1
  <2>3. f[i-1] \o ss[i] \in Seq(S)
    BY <2>1, <2>2, ConcatProperties
  <2> HIDE DEF n
  <2> QED  BY <2>1, <2>2, <2>3
<1> HIDE DEF T
<1>13. \A i \in 1 .. n : i \in T
  BY <1>1, <1>11, <1>12, Induct
<1>14. \A i \in 1 .. n : f[i] \in Seq(S)
  BY <1>13 DEF T
<1>15. \A i \in 2 .. n : i \in 1 .. n /\ i # 1
  BY <1>1
<1>16. Joins(f, ss)
  <2> HIDE DEF n
  <2>1. f[1] = ss[1] /\ \A i \in 2 .. n : f[i] = f[i-1] \o ss[i]
    BY <1>1, <1>10, <1>15
  <2> QED  BY <1>9, <2>1 DEF Joins, n
<1> QED  BY <1>14, <1>16

\* What a concatenation keeps, sequence by sequence, holds of the flattened sequence.
LEMMA Flatten ==
  ASSUME NEW S, NEW ss \in Seq(Seq(S)), ss # <<>>, NEW D, ss[1] \in D[1],
         \A i \in 2 .. Len(ss) : \A x \in D[i-1] : x \o ss[i] \in D[i]
  PROVE  FlattenSeq(ss) \in D[Len(ss)]
<1>1. PICK f : Joins(f, ss)
  BY Flattened
<1> DEFINE n == Len(ss)
           T == {i \in 1 .. n : f[i] \in D[i]}
<1>2. n \in Nat /\ 1 \in Nat /\ n >= 1
  OBVIOUS
<1>3. 1 \in T
  BY <1>1, <1>2 DEF Joins
<1>4. ASSUME NEW i \in 1 + 1 .. n, i - 1 \in T  PROVE i \in T
  <2>1. i \in 2 .. n /\ i \in 1 .. n
    BY <1>2, <1>4
  <2>2. f[i-1] \in D[i-1]
    BY <1>4
  <2>3. f[i] = f[i-1] \o ss[i]
    BY <1>1, <2>1 DEF Joins
  <2>4. f[i] \in D[i]
    BY <2>1, <2>2, <2>3
  <2> HIDE DEF n
  <2> QED  BY <2>1, <2>4
<1> HIDE DEF T
<1>5. \A i \in 1 .. n : i \in T
  BY <1>2, <1>3, <1>4, Induct
<1> QED  BY <1>1, <1>2, <1>5 DEF Joins, T

\* One sequence more
LEMMA FlattenOn ==
  ASSUME NEW S, NEW ss \in Seq(Seq(S)), NEW x \in Seq(S)
  PROVE  /\ FlattenSeq(ss) \in Seq(S)
         /\ ss # <<>> => FlattenSeq(Append(ss, x)) = FlattenSeq(ss) \o x
<1>0. FlattenSeq(ss) \in Seq(S)
  <2>1. CASE ss = <<>>
    BY <2>1 DEF FlattenSeq
  <2>2. CASE ss # <<>>
    <3>1. PICK f : Joins(f, ss) /\ \A i \in 1 .. Len(ss) : f[i] \in Seq(S)
      BY <2>2, Flattened
    <3>2. Len(ss) \in 1 .. Len(ss)
      BY <2>2
    <3> QED  BY <3>1, <3>2 DEF Joins
  <2> QED  BY <2>1, <2>2
<1> SUFFICES ASSUME ss # <<>>  PROVE FlattenSeq(Append(ss, x)) = FlattenSeq(ss) \o x
  BY <1>0
<1> DEFINE n == Len(ss)
           tt == Append(ss, x)
<1>1. /\ tt \in Seq(Seq(S)) /\ tt # <<>> /\ Len(tt) = n + 1 /\ n \in Nat /\ n >= 1
      /\ \A i \in 1 .. n : tt[i] = ss[i]
      /\ tt[n+1] = x
  BY AppendProperties
<1> HIDE DEF tt
<1>2. PICK f : Joins(f, ss)
  BY Flattened
<1>3. PICK g : Joins(g, tt)
  BY <1>1, Flattened
<1> DEFINE T == {i \in 1 .. n : f[i] = g[i]}
<1> HIDE DEF n
<1>4. n = Len(ss) /\ 1 \in Nat
  BY DEF n
<1>5. 1 \in T
  BY <1>1, <1>2, <1>3 DEF Joins
<1>6. ASSUME NEW i \in 1 + 1 .. n, i - 1 \in T  PROVE i \in T
  <2>1. i \in 2 .. n /\ i \in 2 .. n + 1 /\ i \in 1 .. n /\ f[i-1] = g[i-1]
    BY <1>1, <1>6
  <2>2. f[i] = f[i-1] \o ss[i] /\ g[i] = g[i-1] \o tt[i] /\ tt[i] = ss[i]
    BY <1>1, <1>2, <1>3, <1>4, <2>1 DEF Joins
  <2> QED  BY <2>1, <2>2
<1> HIDE DEF T
<1>7. \A i \in 1 .. n : i \in T
  BY <1>1, <1>4, <1>5, <1>6, Induct
<1>8. f[n] = g[n]
  BY <1>1, <1>7 DEF T
<1>9. n + 1 \in 2 .. Len(tt) /\ (n + 1) - 1 = n
  BY <1>1
<1>10. g[n+1] = g[n] \o x
  BY <1>1, <1>3, <1>9 DEF Joins
<1> QED  BY <1>1, <1>2, <1>3, <1>4, <1>8, <1>10 DEF Joins, tt

-----------------------------------------------------------------------------
(* What a chip sees of a program, word by word *)

\* A word of the FIFO, and the signals a chip takes from a program
Bit == {0, 1}
ProgramWord == [mode : Bit, data : Bit, clock : Bit]
Signal == {"S", "P", "0", "1", "read"}

\* A word of the FIFO by its fields
LEMMA WordFields ==
  ASSUME NEW m \in Bit, NEW d \in Bit, NEW k \in Bit
  PROVE  /\ Word(m, d, k) \in ProgramWord
         /\ Word(m, d, k).mode = m /\ Word(m, d, k).data = d /\ Word(m, d, k).clock = k
  BY DEF Word, ProgramWord

\* A chip takes at most one signal from a word.
LEMMA SeenType ==
  ASSUME NEW p, NEW i
  PROVE  Seen(p, i) \in Seq(Signal)
<1>1. Seen(p, i) \in {<<>>, <<"S">>, <<"P">>, <<"read">>, <<"0">>, <<"1">>}
  BY Zenon DEF Seen
<1>2. \A e \in Signal : <<e>> \in Seq(Signal)
  OBVIOUS
<1>3. <<>> \in Seq(Signal)
  OBVIOUS
<1>4. "S" \in Signal /\ "P" \in Signal /\ "read" \in Signal /\ "0" \in Signal /\ "1" \in Signal
  BY DEF Signal
<1> QED
  BY <1>1, <1>2, <1>3, <1>4

\* Program q is p with word w after it.
Grown(q, p, w) == q = Append(p, w)
Plus(m, n, k) == m = n + k

\* A sequence with one element more
LEMMA Longer ==
  ASSUME NEW S, NEW p \in Seq(S), NEW w \in S, NEW q, Grown(q, p, w),
         NEW n, n = Len(p), NEW m, Plus(m, n, 1)
  PROVE  /\ q \in Seq(S) /\ Len(q) = m /\ q[m] = w
         /\ \A i \in 1 .. n : q[i] = p[i]
<1>1. m = n + 1 /\ n \in Nat
  BY DEF Plus
<1>2. Len(q) = n + 1 /\ q[n+1] = w /\ q \in Seq(S)
  BY AppendProperties DEF Grown
<1>3. \A i \in 1 .. n : q[i] = p[i]
  BY <1>1, AppendProperties DEF Grown
<1> QED
  BY <1>1, <1>2, <1>3

\* A program with one word more
LEMMA OnWords ==
  ASSUME NEW p \in Seq(ProgramWord), NEW w \in ProgramWord, NEW q, Grown(q, p, w),
         NEW n, n = Len(p), NEW m, Plus(m, n, 1)
  PROVE  /\ q \in Seq(ProgramWord) /\ Len(q) = m /\ q[m] = w
         /\ \A i \in 1 .. n : q[i] = p[i]
  BY Longer

\* What a chip takes from a word depends on the words before it alone.
LEMMA SeenBefore ==
  ASSUME NEW p \in Seq(ProgramWord), NEW w \in ProgramWord, NEW q, Grown(q, p, w),
         NEW i \in 1 .. Len(p)
  PROVE  Seen(q, i) = Seen(p, i)
<1>1. \A k \in 1 .. Len(p) : q[k] = p[k]
  <2>1. Plus(Len(p) + 1, Len(p), 1)
    BY DEF Plus
  <2> QED  BY <2>1, OnWords
<1>2. i \in Int /\ i <= Len(p) /\ Len(p) \in Nat
  OBVIOUS
<1>3. CASE i = 1
  <2>1. Seen(q, i) = <<>> /\ Seen(p, i) = <<>>
    BY <1>3 DEF Seen
  <2> QED  BY <2>1
<1>4. CASE i # 1
  <2>1. i - 1 \in 1 .. Len(p) /\ q[i-1] = p[i-1] /\ q[i] = p[i]
    BY <1>1, <1>2, <1>4
  <2> DEFINE Pulse(x) == {j \in (i - PulseWords) .. (i - 1) :
                 /\ j > 1 /\ x[j-1].clock = 1
                 /\ \A k \in j .. i - 1 : x[k].clock = 0 /\ x[k].data = x[i-1].data}
             Reads(x) == \E j \in Pulse(x) : \E k \in j .. i - 1 : x[k].mode = 1
  <2>2. Pulse(q) = Pulse(p)
    <3>1. ASSUME NEW j \in (i - PulseWords) .. (i - 1), j > 1
          PROVE  /\ q[j-1] = p[j-1]
                 /\ \A k \in j .. i - 1 : q[k] = p[k]
      BY <1>1, <1>2, <3>1 DEF PulseWords
    <3> QED  BY <2>1, <3>1
  <2>3. Reads(q) <=> Reads(p)
    <3>1. ASSUME NEW j \in Pulse(p)
          PROVE  \A k \in j .. i - 1 : q[k] = p[k]
      BY <1>1, <1>2, <3>1 DEF PulseWords
    <3> HIDE DEF Pulse
    <3> QED  BY <2>2, <3>1
  <2>4. Seen(q, i) = Seen(p, i)
    BY <1>4, <2>1, <2>2, <2>3 DEF Seen
  <2> QED  BY <2>4
<1> QED  BY <1>3, <1>4

\* One word more
LEMMA WordOn ==
  ASSUME NEW p \in Seq(ProgramWord), p # <<>>, NEW w \in ProgramWord,
         NEW q, Grown(q, p, w), NEW m, Plus(m, Len(p), 1)
  PROVE  Signals(p) \in Seq(Signal) /\ Signals(q) = Signals(p) \o Seen(q, m)
<1> DEFINE n == Len(p)
           ss == [i \in 1 .. n |-> Seen(p, i)]
           x == Seen(q, n + 1)
<1>0. m = n + 1
  BY DEF Plus
<1>1. q \in Seq(ProgramWord) /\ Len(q) = n + 1 /\ n \in Nat /\ n >= 1
  BY <1>0, OnWords
<1>2. ss \in Seq(Seq(Signal)) /\ Len(ss) = n /\ ss # <<>>
  <2>1. \A i \in 1 .. n : Seen(p, i) \in Seq(Signal)
    BY SeenType
  <2> HIDE DEF n
  <2>2. ss \in [1 .. n -> Seq(Signal)]
    BY <2>1
  <2>3. n \in Nat /\ n >= 1
    BY <1>1
  <2> HIDE DEF ss
  <2> QED  BY ONLY <2>2, <2>3
<1>3. x \in Seq(Signal)
  BY SeenType
<1>4. Append(ss, x) = [i \in 1 .. n + 1 |-> Seen(q, i)]
  <2> DEFINE L == Append(ss, x)
             R == [i \in 1 .. n + 1 |-> Seen(q, i)]
  <2>1. L \in Seq(Seq(Signal)) /\ Len(L) = n + 1 /\ L[n+1] = x
        /\ \A i \in 1 .. n : L[i] = ss[i]
    BY <1>2, <1>3, AppendProperties
  <2>2. L = [i \in 1 .. n + 1 |-> L[i]]
    BY <2>1
  <2>3. \A i \in 1 .. n : Seen(q, i) = Seen(p, i)
    BY SeenBefore
  <2>4. \A i \in 1 .. n + 1 : L[i] = Seen(q, i)
    <3> SUFFICES ASSUME NEW i \in 1 .. n + 1  PROVE L[i] = Seen(q, i)
      OBVIOUS
    <3> HIDE DEF L
    <3>1. CASE i = n + 1
      BY <2>1, <3>1
    <3>2. CASE i # n + 1
      <4>1. i \in 1 .. n
        BY <1>1, <3>2
      <4> QED  BY <2>1, <2>3, <4>1
    <3> QED  BY <3>1, <3>2
  <2>5. L = R
    <3> HIDE DEF L, n
    <3> QED  BY <2>2, <2>4
  <2> QED  BY <2>5
<1>5. DOMAIN p = 1 .. n /\ DOMAIN q = 1 .. n + 1
  BY <1>1
<1>6. Signals(p) = FlattenSeq(ss) /\ Signals(q) = FlattenSeq(Append(ss, x))
  <2> HIDE DEF n
  <2> QED  BY <1>4, <1>5 DEF Signals
<1>7. FlattenSeq(ss) \in Seq(Signal) /\ FlattenSeq(Append(ss, x)) = FlattenSeq(ss) \o x
  <2> HIDE DEF ss, x
  <2> QED  BY <1>2, <1>3, FlattenOn
<1> QED  BY <1>0, <1>1, <1>6, <1>7

-----------------------------------------------------------------------------
\* The last signal of a program that goes on is S, a bit, or a sample; of the latter two
\* the pulse has not ended yet.
Pulse(p, e) ==
  LET n == Len(p) IN
  \/ e = "S" /\ n >= 2 /\ p[n] = Word(0, 1, 0) /\ p[n-1] = Word(0, 0, 0)
  \/ e = "0" /\ n >= 2 /\ p[n] = Word(0, 1, 0) /\ p[n-1].clock = 1
  \/ e = "1" /\ n >= 2 /\ p[n] = Word(0, 0, 0) /\ p[n-1].clock = 1
  \/ e = "read" /\ n >= 3 /\ p[n] = Word(1, 0, 0) /\ p[n-1] = Word(0, 0, 0) /\ p[n-2].clock = 1

\* The signal that a pulse has not told yet, and the data word it leaves behind
Pending(e) == IF e = "S" THEN <<>> ELSE <<e>>
Level(e) == IF e \in {"S", "0"} THEN 1 ELSE 0

\* A clock that goes low or stays high
LEMMA SeenNext ==
  ASSUME NEW p \in Seq(ProgramWord), p # <<>>, NEW w \in ProgramWord, NEW q, Grown(q, p, w),
         NEW n, n = Len(p), NEW m, Plus(m, n, 1)
  PROVE  /\ p[n].clock = 1 => Seen(q, m) = <<>>
         /\ p[n].clock = 0 /\ w.clock = 0 =>
              Seen(q, m) = IF w.data = p[n].data THEN <<>>
                           ELSE IF w.data = 1 THEN <<"S">> ELSE <<"P">>
<1>1. n \in Nat /\ n >= 1 /\ m - 1 = n /\ m # 1
  BY DEF Plus
<1>2. q[m] = w /\ q[n] = p[n]
  BY <1>1, OnWords
<1> QED
  BY <1>1, <1>2 DEF Seen

\* A clock that goes low ends the pulse.
LEMMA PulseEnds ==
  ASSUME NEW p \in Seq(ProgramWord), NEW w \in ProgramWord, NEW q, Grown(q, p, w),
         NEW e, Pulse(p, e), w.clock = 1, NEW m, Plus(m, Len(p), 1)
  PROVE  Seen(q, m) = Pending(e)
<1> DEFINE n == Len(p)
           from == {j \in ((n + 1) - PulseWords) .. n :
                 /\ j > 1 /\ q[j-1].clock = 1
                 /\ \A k \in j .. n : q[k].clock = 0 /\ q[k].data = q[n].data}
           reads == \E j \in from : \E k \in j .. n : q[k].mode = 1
<1>1. /\ n \in Nat /\ n >= 2 /\ (n + 1) - 1 = n /\ q[n+1] = w
      /\ \A k \in 1 .. n : q[k] = p[k]
  <2>1. n \in Nat /\ n >= 2 /\ m = n + 1
    BY DEF Pulse, Plus
  <2>2. q[m] = w /\ \A k \in 1 .. n : q[k] = p[k]
    BY OnWords
  <2> QED  BY <2>1, <2>2
<1>2. /\ Word(0, 1, 0).clock = 0 /\ Word(0, 1, 0).data = 1 /\ Word(0, 1, 0).mode = 0
      /\ Word(0, 0, 0).clock = 0 /\ Word(0, 0, 0).data = 0 /\ Word(0, 0, 0).mode = 0
      /\ Word(1, 0, 0).clock = 0 /\ Word(1, 0, 0).data = 0 /\ Word(1, 0, 0).mode = 1
  BY WordFields DEF Bit
<1> HIDE DEF n
<1>3. q[n].clock = 0 /\ q[n] = p[n] /\ q[n-1] = p[n-1] /\ q[n-2] = (IF n >= 3 THEN p[n-2] ELSE q[n-2])
  <2>1. n \in 1 .. n /\ n - 1 \in 1 .. n /\ (n >= 3 => n - 2 \in 1 .. n)
    BY <1>1
  <2>2. p[n].clock = 0
    BY <1>2 DEF Pulse, n
  <2> QED  BY <1>1, <2>1, <2>2
<1>0. n = Len(p) /\ m = n + 1
  BY DEF n, Plus
<1>4. Seen(q, n + 1) = IF from = {} THEN <<>> ELSE IF reads THEN <<"read">>
                       ELSE IF q[n].data = 1 THEN <<"0">> ELSE <<"1">>
  <2>1. n + 1 # 1 /\ ~(q[n].clock = 1)
    BY <1>1, <1>3
  <2>2. q[n+1].clock = 1 /\ ~(q[n+1].clock = 0)
    BY <1>1
  <2>3. (n + 1) - 1 = n
    BY <1>1
  <2> DEFINE r == n + 1
             was == {j \in (r - PulseWords) .. (r - 1) :
                      /\ j > 1 /\ q[j-1].clock = 1
                      /\ \A k \in j .. r - 1 : q[k].clock = 0 /\ q[k].data = q[r-1].data}
  <2>4. r - 1 = n /\ was = from
    <3>1. r - 1 = n
      BY <2>3
    <3>2. r - PulseWords = (n + 1) - PulseWords
      OBVIOUS
    <3> HIDE DEF r
    <3> QED  BY ONLY <3>1, <3>2
  <2>5. Seen(q, r) = IF was = {} THEN <<>>
                     ELSE IF \E j \in was : \E k \in j .. r - 1 : q[k].mode = 1 THEN <<"read">>
                     ELSE IF q[r-1].data = 1 THEN <<"0">> ELSE <<"1">>
    <3>1. r # 1 /\ ~(q[r-1].clock = 1) /\ ~(q[r].clock = 0)
      BY <2>1, <2>2, <2>3
    <3> HIDE DEF r
    <3> QED  BY <3>1 DEF Seen
  <2>6. Seen(q, r) = IF from = {} THEN <<>>
                     ELSE IF \E j \in from : \E k \in j .. n : q[k].mode = 1 THEN <<"read">>
                     ELSE IF q[n].data = 1 THEN <<"0">> ELSE <<"1">>
    <3> HIDE DEF r, was, from
    <3> QED  BY <2>4, <2>5
  <2> HIDE DEF from
  <2> QED  BY <2>6
<1>5. CASE e = "S"
  <2>1. q[n] = Word(0, 1, 0) /\ q[n-1] = Word(0, 0, 0)
    BY <1>0, <1>3, <1>5 DEF Pulse
  <2>2. \A j \in from : FALSE
    <3> SUFFICES ASSUME NEW j \in from  PROVE FALSE
      OBVIOUS
    <3>1. j \in Int /\ j <= n /\ j > 1 /\ q[j-1].clock = 1
      OBVIOUS
    <3>2. CASE j = n
      BY <1>2, <2>1, <3>1, <3>2
    <3>3. CASE j # n
      <4>1. n - 1 \in j .. n
        BY <1>1, <3>1, <3>3
      <4>2. q[n-1].data = q[n].data
        BY <4>1
      <4> QED  BY <1>2, <2>1, <4>2
    <3> QED  BY <3>2, <3>3
  <2> HIDE DEF from
  <2>3. from = {}
    BY <2>2
  <2> QED  BY <1>0, <1>4, <1>5, <2>3 DEF Pending
<1>6. CASE e \in {"0", "1"}
  <2>1. /\ q[n] = (IF e = "0" THEN Word(0, 1, 0) ELSE Word(0, 0, 0)) /\ q[n-1].clock = 1
        /\ q[n].mode = 0
    BY <1>0, <1>2, <1>3, <1>6 DEF Pulse
  <2>2. from = {n}
    <3>1. n \in from
      BY <1>1, <1>3, <2>1 DEF PulseWords
    <3>2. ASSUME NEW j \in from  PROVE j = n
      <4>1. j \in Int /\ j <= n /\ j > 1
        BY <3>2
      <4>2. CASE j # n
        <5>1. n - 1 \in j .. n
          BY <1>1, <4>1, <4>2
        <5>2. q[n-1].clock = 0
          BY <3>2, <5>1
        <5> QED  BY <2>1, <5>2
      <4> QED  BY <4>2
    <3> HIDE DEF from
    <3> QED  BY <3>1, <3>2
  <2>3. ~reads
    <3> SUFFICES ASSUME NEW j \in from, NEW k \in j .. n, q[k].mode = 1  PROVE FALSE
      OBVIOUS
    <3>1. j = n
      BY <2>2
    <3>2. k = n
      BY <1>1, <3>1
    <3> QED  BY <2>1, <3>2
  <2> HIDE DEF from, reads
  <2>4. from # {} /\ (q[n].data = 1 <=> e = "0")
    BY <1>2, <1>6, <2>1, <2>2
  <2> QED  BY <1>0, <1>4, <1>6, <2>3, <2>4 DEF Pending
<1>7. CASE e = "read"
  <2>1. /\ n >= 3 /\ q[n] = Word(1, 0, 0) /\ q[n-1] = Word(0, 0, 0) /\ q[n-2].clock = 1
    BY <1>0, <1>1, <1>3, <1>7 DEF Pulse
  <2>2. n - 1 \in from
    <3>1. \A k \in n - 1 .. n : q[k].clock = 0 /\ q[k].data = q[n].data
      <4>1. \A k \in n - 1 .. n : k = n - 1 \/ k = n
        BY <1>1
      <4> QED  BY <1>2, <2>1, <4>1
    <3>2. n - 1 \in ((n + 1) - PulseWords) .. n /\ n - 1 > 1 /\ (n - 1) - 1 = n - 2
      BY <1>1, <2>1 DEF PulseWords
    <3> QED  BY <2>1, <3>1, <3>2
  <2>3. n \in n - 1 .. n /\ q[n].mode = 1
    BY <1>1, <1>2, <2>1
  <2> HIDE DEF from
  <2>4. from # {} /\ reads
    BY <2>2, <2>3
  <2> QED  BY <1>0, <1>4, <1>7, <2>4 DEF Pending
<1> QED
  BY <1>5, <1>6, <1>7 DEF Pulse

\* The races of one word more
LEMMA RaceOn ==
  ASSUME NEW p \in Seq(ProgramWord), p # <<>>, NEW w \in ProgramWord,
         NEW q, Grown(q, p, w), NEW k \in Bit
  PROVE  /\ Races(p, k) \in Nat
         /\ Races(q, k) =
              Races(p, k) + (IF /\ p[Len(p)].clock = k /\ w.clock = 1 - k
                                /\ p[Len(p)].data # w.data THEN 1 ELSE 0)
<1> DEFINE n == Len(p)
           R(x) == {i \in 1 .. Len(x) - 1 :
                      /\ x[i].clock = k /\ x[i+1].clock = 1 - k
                      /\ x[i].data # x[i+1].data}
           now == p[n].clock = k /\ w.clock = 1 - k /\ p[n].data # w.data
<1>1. /\ n \in Nat /\ n >= 1 /\ q[n+1] = w /\ Len(q) = n + 1 /\ (n + 1) - 1 = n
      /\ \A i \in 1 .. n : q[i] = p[i]
  <2>1. n \in Nat /\ n >= 1 /\ (n + 1) - 1 = n /\ Plus(n + 1, n, 1)
    BY DEF Plus
  <2>2. q[n+1] = w /\ Len(q) = n + 1 /\ \A i \in 1 .. n : q[i] = p[i]
    BY <2>1, OnWords
  <2> QED  BY <2>1, <2>2
<1>0. n = Len(p)
  OBVIOUS
<1> HIDE DEF n
<1>2. IsFiniteSet(R(p)) /\ n \notin R(p)
  <2>1. R(p) \subseteq 1 .. n
    BY <1>0, <1>1
  <2>2. IsFiniteSet(1 .. n)
    BY <1>1, FS_Interval
  <2>3. n \notin R(p)
    BY <1>0, <1>1
  <2> QED  BY <2>1, <2>2, <2>3, FS_Subset
<1>3. R(q) = R(p) \cup (IF now THEN {n} ELSE {})
  <2>1. ASSUME NEW i \in 1 .. n
        PROVE  i \in R(q) <=> i \in R(p) \/ (now /\ i = n)
    <3>1. CASE i = n
      BY <1>0, <1>1, <3>1
    <3>2. CASE i # n
      <4>1. i + 1 \in 1 .. n /\ i \in 1 .. n - 1 /\ i \in 1 .. (n + 1) - 1
        BY <1>1, <3>2
      <4> QED  BY <1>0, <1>1, <3>2, <4>1
    <3> QED  BY <3>1, <3>2
  <2>2. R(q) \subseteq 1 .. n /\ R(p) \subseteq 1 .. n /\ n \in 1 .. n
    BY <1>0, <1>1
  <2> HIDE DEF n, R, now
  <2> QED  BY <2>1, <2>2
<1>4. Races(p, k) = Cardinality(R(p)) /\ Races(q, k) = Cardinality(R(q))
  BY DEF Races
<1> HIDE DEF R
<1>5. Cardinality(R(p)) \in Nat
  BY <1>2, FS_CardinalityType
<1>6. CASE now
  <2>1. Cardinality(R(p) \cup {n}) = Cardinality(R(p)) + 1
    BY <1>2, FS_AddElement
  <2>2. R(q) = R(p) \cup {n}
    BY <1>3, <1>6
  <2> HIDE DEF now, n
  <2> QED  BY <1>0, <1>4, <1>5, <1>6, <2>1, <2>2 DEF now, n
<1>7. CASE ~now
  <2>1. R(q) = R(p)
    BY <1>3, <1>7
  <2> QED  BY <1>0, <1>4, <1>5, <1>7, <2>1
<1> QED
  BY <1>6, <1>7

-----------------------------------------------------------------------------
\* A program of n words so far: what it has told, with r races of a falling clock and
\* none of a rising one; the bus is in the middle of a transfer, held low, or free.
Clean(p, r, n) ==
  /\ p \in Seq(ProgramWord) /\ Len(p) = n /\ n \in Nat \ {0}
  /\ Races(p, 1) = 0 /\ Races(p, 0) = r
Told(p, v, e, r, n) == Clean(p, r, n) /\ Pulse(p, e) /\ v = Signals(p) \o Pending(e)
Low(p, v, r, n) == Clean(p, r, n) /\ v = Signals(p) /\ p[n] = Word(0, 0, 1)
Free(p, v, r, n) == Clean(p, r, n) /\ v = Signals(p) /\ p[n] = Word(0, 0, 0)

\* A bit as a signal
Sym(bit) == IF bit = 1 THEN "1" ELSE "0"

\* The words the calls are made of, by their fields
LEMMA AllWords ==
  /\ \A d \in Bit : \A k \in Bit :
       /\ Word(0, d, k) \in ProgramWord
       /\ Word(0, d, k).mode = 0 /\ Word(0, d, k).data = d /\ Word(0, d, k).clock = k
  /\ Word(1, 0, 0) \in ProgramWord /\ Word(1, 0, 0).data = 0 /\ Word(1, 0, 0).clock = 0
<1>1. 0 \in Bit /\ 1 \in Bit
  BY DEF Bit
<1> QED
  BY <1>1, WordFields

\* One word more on a clean program: no race, or one of a falling clock
LEMMA CleanOn ==
  ASSUME NEW p, NEW r, NEW n, Clean(p, r, n), NEW w \in ProgramWord,
         NEW q, Grown(q, p, w), NEW m, Plus(m, n, 1)
  PROVE  /\ q \in Seq(ProgramWord) /\ Len(q) = m /\ m \in Nat \ {0} /\ p # <<>> /\ Len(p) = n
         /\ p \in Seq(ProgramWord) /\ n \in Nat \ {0} /\ r \in Nat
         /\ q[m] = w /\ q[n] = p[n] /\ (n >= 2 => q[n-1] = p[n-1])
         /\ Signals(p) \in Seq(Signal) /\ Signals(q) = Signals(p) \o Seen(q, m)
         /\ p[n].clock = w.clock \/ p[n].data = w.data => Clean(q, r, m)
         /\ p[n].clock = 0 /\ w.clock = 1 /\ p[n].data # w.data => Clean(q, r + 1, m)
<1>1. /\ p \in Seq(ProgramWord) /\ Len(p) = n /\ n \in Nat \ {0}
      /\ Races(p, 1) = 0 /\ Races(p, 0) = r
  BY DEF Clean
<1>2. p # <<>>
  BY <1>1
<1>0. m = n + 1
  BY DEF Plus
<1>3. /\ q \in Seq(ProgramWord) /\ Len(q) = m /\ q[m] = w
      /\ \A i \in 1 .. n : q[i] = p[i]
  BY <1>1, OnWords
<1>4. n \in 1 .. n /\ (n >= 2 => n - 1 \in 1 .. n) /\ m \in Nat \ {0}
  BY <1>0, <1>1
<1>5. Signals(p) \in Seq(Signal) /\ Signals(q) = Signals(p) \o Seen(q, m)
  BY <1>0, <1>1, <1>2, WordOn
<1>6. 0 \in Bit /\ 1 \in Bit
  BY DEF Bit
<1>7. /\ Races(q, 1) = Races(p, 1) + (IF /\ p[n].clock = 1 /\ w.clock = 1 - 1
                                         /\ p[n].data # w.data THEN 1 ELSE 0)
      /\ Races(q, 0) = Races(p, 0) + (IF /\ p[n].clock = 0 /\ w.clock = 1 - 0
                                         /\ p[n].data # w.data THEN 1 ELSE 0)
      /\ Races(p, 0) \in Nat
  BY <1>1, <1>2, <1>6, RaceOn
<1>8. r \in Nat
  BY <1>1, <1>7
<1>9. ASSUME p[n].clock = w.clock \/ p[n].data = w.data  PROVE Clean(q, r, m)
  <2>1. Races(q, 1) = 0 /\ Races(q, 0) = r
    BY <1>1, <1>7, <1>8, <1>9
  <2> QED  BY <1>3, <1>4, <2>1 DEF Clean
<1>10. ASSUME p[n].clock = 0, w.clock = 1, p[n].data # w.data  PROVE Clean(q, r + 1, m)
  <2>1. Races(q, 1) = 0 /\ Races(q, 0) = r + 1
    BY <1>1, <1>7, <1>8, <1>10
  <2> QED  BY <1>3, <1>4, <2>1 DEF Clean
<1>11. q[n] = p[n] /\ (n >= 2 => q[n-1] = p[n-1])
  BY <1>3, <1>4
<1> QED
  BY <1>1, <1>2, <1>3, <1>4, <1>5, <1>8, <1>9, <1>10, <1>11

\* The parts of it that are cited alone
LEMMA CleanSees ==
  ASSUME NEW p, NEW r, NEW n, Clean(p, r, n), NEW w, w \in ProgramWord,
         NEW q, Grown(q, p, w), NEW m, Plus(m, n, 1)
  PROVE  q[m] = w /\ q[n] = p[n] /\ Signals(q) = Signals(p) \o Seen(q, m)
  BY CleanOn

LEMMA CleanKeeps ==
  ASSUME NEW p, NEW r, NEW n, Clean(p, r, n), NEW w, w \in ProgramWord,
         NEW q, Grown(q, p, w), NEW m, Plus(m, n, 1), p[n].clock = w.clock \/ p[n].data = w.data
  PROVE  Clean(q, r, m)
  BY CleanOn

\* What an Append is as a concatenation
LEMMA Appended ==
  ASSUME NEW S, NEW p \in Seq(S), NEW a \in S
  PROVE  p \o <<a>> = Append(p, a)
  OBVIOUS

\* Two more
LEMMA Appended2 ==
  ASSUME NEW S, NEW p \in Seq(S), NEW a \in S, NEW b \in S
  PROVE  p \o <<a, b>> = Append(Append(p, a), b)
  OBVIOUS

\* Three more
LEMMA Appended3 ==
  ASSUME NEW S, NEW p \in Seq(S), NEW a \in S, NEW b \in S, NEW c \in S
  PROVE  p \o <<a, b, c>> = Append(Append(Append(p, a), b), c)
  OBVIOUS

\* A transfer so far ends with the data line as its last signal left it.
LEMMA ToldEnd ==
  ASSUME NEW p, NEW v, NEW e, NEW r, NEW n, Told(p, v, e, r, n)
  PROVE  /\ Clean(p, r, n) /\ n >= 2 /\ p[n].clock = 0 /\ p[n].data = Level(e)
         /\ v = Signals(p) \o Pending(e) /\ v \in Seq(Signal) /\ e \in {"S", "0", "1", "read"}
<1>1. Clean(p, r, n) /\ Pulse(p, e) /\ v = Signals(p) \o Pending(e) /\ Len(p) = n
  BY DEF Told, Clean
<1>2. n >= 2 /\ e \in {"S", "0", "1", "read"}
  BY <1>1 DEF Pulse, Clean
<1>3. 0 \in Bit /\ 1 \in Bit
  BY DEF Bit
<1>4. p[n].clock = 0 /\ p[n].data = Level(e)
  BY <1>1, <1>3, AllWords DEF Pulse, Level
<1>5. Signals(p) \in Seq(Signal)
  <2>1. Grown(Append(p, Word(0, 0, 0)), p, Word(0, 0, 0)) /\ Plus(n + 1, n, 1)
    BY DEF Grown, Plus
  <2> QED  BY <1>1, <1>3, <2>1, AllWords, CleanOn
<1>6. Pending(e) \in Seq(Signal)
  <2>1. \A x \in Signal : <<x>> \in Seq(Signal)
    OBVIOUS
  <2>2. <<>> \in Seq(Signal)
    OBVIOUS
  <2>3. e # "S" => e \in Signal
    BY <1>2 DEF Signal
  <2> QED  BY <2>1, <2>2, <2>3 DEF Pending
<1>7. v \in Seq(Signal)
  BY <1>1, <1>5, <1>6, ConcatProperties
<1> QED
  BY <1>1, <1>2, <1>4, <1>7

-----------------------------------------------------------------------------
\* Sequence q is p with x after it.
After(q, p, x) == q = p \o x

\* A race more if a is b
More(more, r, a, b) == more = IF a = b THEN r + 1 ELSE r

\* A bit ends the pulse before it.
LEMMA BitOn ==
  ASSUME NEW p, NEW v, NEW e, NEW r, NEW n, Told(p, v, e, r, n), NEW old \in Bit, NEW bit \in Bit,
         NEW q, After(q, p, writebits(old, bit)), NEW m, Plus(m, n, 3),
         NEW u, After(u, v, <<Sym(bit)>>),
         NEW more, More(more, r, old, Level(e))
  PROVE  /\ Told(q, u, Sym(bit), more, m)
         /\ Clean(q, more, m) /\ Signals(q) = v
         /\ q[m] = Word(0, 1 - bit, 0) /\ q[m-1].clock = 1
<1> DEFINE a == Word(0, 1 - old, 1)
           b == Word(0, 1 - bit, 1)
           c == Word(0, 1 - bit, 0)
           pa == Append(p, a)
           pb == Append(pa, b)
<1>1. 0 \in Bit /\ 1 \in Bit /\ 1 - old \in Bit /\ 1 - bit \in Bit
  BY DEF Bit
<1>2. /\ a \in ProgramWord /\ a.clock = 1 /\ a.data = 1 - old
      /\ b \in ProgramWord /\ b.clock = 1 /\ b.data = 1 - bit
      /\ c \in ProgramWord /\ c.clock = 0 /\ c.data = 1 - bit
  BY <1>1, AllWords
<1>3. /\ Clean(p, r, n) /\ n >= 2 /\ p[n].clock = 0 /\ p[n].data = Level(e)
      /\ v = Signals(p) \o Pending(e) /\ v \in Seq(Signal)
  BY ToldEnd
<1>4. p \in Seq(ProgramWord) /\ Len(p) = n /\ n \in Nat \ {0} /\ Pulse(p, e)
  BY <1>3 DEF Clean, Told
<1>5. q = Append(pb, c)
  <2>1. p \o <<a, b, c>> = Append(pb, c)
    <3> HIDE DEF a, b, c
    <3> QED  BY <1>2, <1>4, Appended3
  <2> QED  BY <2>1 DEF writebits, After
<1>6. Grown(pa, p, a) /\ Grown(pb, pa, b) /\ Grown(q, pb, c)
  BY <1>5 DEF Grown
<1> DEFINE m1 == n + 1
           m2 == n + 2
<1>7. m1 = n + 1 /\ m2 = m1 + 1 /\ m = m2 + 1 /\ m2 >= 2 /\ m2 - 1 = m1 /\ m - 1 = m2 /\ m >= 2
      /\ Plus(m1, n, 1) /\ Plus(m2, m1, 1) /\ Plus(m, m2, 1)
      /\ more = IF old = Level(e) THEN r + 1 ELSE r
  BY <1>4 DEF Plus, More
<1> HIDE DEF a, b, c, pa, pb, m1, m2
<1>8. Clean(pa, more, m1) /\ Signals(pa) = v /\ pa[m1] = a
  <2>1. /\ pa[m1] = a /\ Signals(pa) = Signals(p) \o Seen(pa, m1)
        /\ p[n].clock = a.clock \/ p[n].data = a.data => Clean(pa, r, m1)
        /\ p[n].clock = 0 /\ a.clock = 1 /\ p[n].data # a.data => Clean(pa, r + 1, m1)
    <3>1. Clean(p, r, n) /\ a \in ProgramWord /\ Grown(pa, p, a) /\ Plus(m1, n, 1)
      BY <1>2, <1>3, <1>6, <1>7
    <3> QED  BY ONLY <3>1, CleanOn
  <2>2. p[n].data = a.data <=> ~(old = Level(e))
    BY <1>2, <1>3 DEF Bit, Level
  <2>3. Seen(pa, m1) = Pending(e)
    BY <1>2, <1>4, <1>6, <1>7, PulseEnds
  <2> QED  BY <1>2, <1>3, <1>7, <2>1, <2>2, <2>3
<1>9. Clean(pb, more, m2) /\ Signals(pb) = v /\ pb[m2] = b
  <2>1. /\ pb[m2] = b /\ Signals(pb) = Signals(pa) \o Seen(pb, m2)
        /\ pa[m1].clock = b.clock \/ pa[m1].data = b.data => Clean(pb, more, m2)
        /\ pa \in Seq(ProgramWord) /\ pa # <<>> /\ m1 = Len(pa)
    <3>1. Clean(pa, more, m1) /\ b \in ProgramWord /\ Grown(pb, pa, b) /\ Plus(m2, m1, 1)
      BY <1>2, <1>6, <1>7, <1>8
    <3> QED  BY ONLY <3>1, CleanOn
  <2>2. Seen(pb, m2) = <<>>
    BY <1>2, <1>6, <1>7, <1>8, <2>1, SeenNext
  <2> QED  BY <1>2, <1>3, <1>8, <2>1, <2>2
<1>10. Clean(q, more, m) /\ Signals(q) = v /\ q[m] = c /\ q[m-1] = b
  <2>1. /\ q[m] = c /\ q[m2] = pb[m2] /\ Signals(q) = Signals(pb) \o Seen(q, m)
        /\ pb[m2].clock = c.clock \/ pb[m2].data = c.data => Clean(q, more, m)
        /\ pb \in Seq(ProgramWord) /\ pb # <<>> /\ m2 = Len(pb)
    <3>1. Clean(pb, more, m2) /\ c \in ProgramWord /\ Grown(q, pb, c) /\ Plus(m, m2, 1)
      BY <1>2, <1>6, <1>7, <1>9
    <3> QED  BY ONLY <3>1, CleanOn
  <2>2. Seen(q, m) = <<>>
    BY <1>2, <1>6, <1>7, <1>9, <2>1, SeenNext
  <2>3. v \o <<>> = v
    BY <1>3
  <2>4. Signals(q) = v
    BY <1>9, <2>1, <2>2, <2>3
  <2>5. Clean(q, more, m)
    BY <1>2, <1>9, <2>1
  <2>6. q[m-1] = b
    BY <1>7, <1>9, <2>1
  <2> QED  BY <2>1, <2>4, <2>5, <2>6
<1>11. Pulse(q, Sym(bit))
  <2>1. Len(q) = m
    BY <1>10 DEF Clean
  <2>2. CASE bit = 1
    BY <1>2, <1>7, <1>10, <2>1, <2>2 DEF Pulse, Sym, c
  <2>3. CASE bit = 0
    BY <1>2, <1>7, <1>10, <2>1, <2>3 DEF Pulse, Sym, c
  <2> QED  BY <2>2, <2>3 DEF Bit
<1>12. Pending(Sym(bit)) = <<Sym(bit)>>
  BY DEF Pending, Sym
<1>13. Told(q, u, Sym(bit), more, m)
  BY <1>10, <1>11, <1>12 DEF Told, After
<1> QED
  BY <1>2, <1>10, <1>13 DEF c

\* A sampled bit
Sample == writebits(1, 1) \o <<Word(1, 0, 0)>>

\* It tells that the chip answers.
LEMMA SampleOn ==
  ASSUME NEW p, NEW v, NEW e, NEW r, NEW n, Told(p, v, e, r, n),
         NEW s, After(s, p, Sample), NEW m, Plus(m, n, 4), NEW u, After(u, v, <<"read">>),
         NEW more, More(more, r, 1, Level(e))
  PROVE  Told(s, u, "read", more, m)
<1> DEFINE q == p \o writebits(1, 1)
           w == Word(1, 0, 0)
           m3 == n + 3
           u1 == v \o <<Sym(1)>>
<1>1. 0 \in Bit /\ 1 \in Bit /\ 1 - 1 = 0
  BY DEF Bit
<1>2. p \in Seq(ProgramWord) /\ n \in Nat \ {0} /\ writebits(1, 1) \in Seq(ProgramWord)
  <2>1. Word(0, 1 - 1, 1) \in ProgramWord /\ Word(0, 1 - 1, 0) \in ProgramWord
    BY <1>1, AllWords
  <2> QED  BY <2>1, ToldEnd DEF Clean, writebits
<1>3. m = m3 + 1 /\ m3 = n + 3 /\ m3 >= 2 /\ m - 1 = m3 /\ m - 2 = m3 - 1 /\ m >= 3
      /\ Plus(m3, n, 3) /\ Plus(m, m3, 1)
  BY <1>2 DEF Plus
<1>4. After(q, p, writebits(1, 1)) /\ After(u1, v, <<Sym(1)>>)
  BY DEF After
<1>5. w \in ProgramWord /\ w.data = 0 /\ w.clock = 0 /\ Word(0, 0, 0).clock = 0 /\ Word(0, 0, 0).data = 0
  BY <1>1, AllWords
<1>6. q \in Seq(ProgramWord)
  BY <1>2, ConcatProperties
<1>7. Grown(s, q, w)
  <2>1. s = p \o (writebits(1, 1) \o <<w>>)
    BY DEF After, Sample
  <2>2. p \o (writebits(1, 1) \o <<w>>) = q \o <<w>>
    <3> HIDE DEF w
    <3> QED  BY <1>2, <1>5, ConcatAssociative
  <2>3. q \o <<w>> = Append(q, w)
    <3> HIDE DEF q, w
    <3> QED  BY <1>5, <1>6, Appended
  <2> QED  BY <2>1, <2>2, <2>3 DEF Grown
<1> HIDE DEF q, m3, u1
<1>8. Clean(q, more, m3) /\ Signals(q) = v /\ q[m3] = Word(0, 0, 0) /\ q[m3-1].clock = 1
  <2>1. /\ Told(p, v, e, r, n) /\ 1 \in Bit /\ After(q, p, writebits(1, 1)) /\ Plus(m3, n, 3)
        /\ After(u1, v, <<Sym(1)>>) /\ More(more, r, 1, Level(e))
    BY <1>1, <1>3, <1>4
  <2>2. Clean(q, more, m3) /\ Signals(q) = v /\ q[m3] = Word(0, 1 - 1, 0) /\ q[m3-1].clock = 1
    BY ONLY <2>1, BitOn
  <2> QED  BY <1>1, <2>2
<1> HIDE DEF w
<1>9. /\ s[m] = w /\ s[m3] = q[m3] /\ (m3 >= 2 => s[m3-1] = q[m3-1])
      /\ Signals(s) = Signals(q) \o Seen(s, m)
      /\ q[m3].clock = w.clock \/ q[m3].data = w.data => Clean(s, more, m)
      /\ q # <<>> /\ m3 = Len(q)
  <2>1. Clean(q, more, m3) /\ w \in ProgramWord /\ Grown(s, q, w) /\ Plus(m, m3, 1)
    BY <1>3, <1>5, <1>7, <1>8
  <2> QED  BY ONLY <2>1, CleanOn
<1>10. Seen(s, m) = <<>>
  <2>1. /\ q \in Seq(ProgramWord) /\ q # <<>> /\ w \in ProgramWord /\ Grown(s, q, w)
        /\ m3 = Len(q) /\ Plus(m, m3, 1)
    BY <1>3, <1>5, <1>6, <1>7, <1>9
  <2>2. q[m3].clock = 0 /\ q[m3].data = 0 /\ w.clock = 0 /\ w.data = 0
    BY <1>5, <1>8
  <2>3. q[m3].clock = 0 /\ w.clock = 0 =>
          Seen(s, m) = IF w.data = q[m3].data THEN <<>>
                       ELSE IF w.data = 1 THEN <<"S">> ELSE <<"P">>
    BY ONLY <2>1, SeenNext
  <2> QED  BY ONLY <2>2, <2>3
<1>11. Clean(s, more, m) /\ Len(s) = m
  BY <1>5, <1>8, <1>9 DEF Clean
<1>12. Signals(s) = v /\ v \in Seq(Signal)
  BY <1>8, <1>9, <1>10, ToldEnd
<1>13. Pulse(s, "read")
  BY <1>3, <1>8, <1>9, <1>11 DEF Pulse, w
<1> QED
  BY <1>11, <1>12, <1>13 DEF Told, Pending, After

-----------------------------------------------------------------------------
\* Words in a row, appended one by one
LEMMA PairOn ==
  ASSUME NEW S, NEW p \in Seq(S), NEW a \in S, NEW b \in S
  PROVE  p \o (<<a>> \o <<b>>) = Append(Append(p, a), b)
<1>1. <<a>> \in Seq(S) /\ <<b>> \in Seq(S)
  OBVIOUS
<1>2. p \o (<<a>> \o <<b>>) = (p \o <<a>>) \o <<b>>
  BY <1>1, ConcatAssociative
<1>3. p \o <<a>> = Append(p, a) /\ Append(p, a) \in Seq(S)
  BY Appended
<1>4. Append(p, a) \o <<b>> = Append(Append(p, a), b)
  BY <1>3, Appended
<1> QED
  BY <1>2, <1>3, <1>4

LEMMA TripleOn ==
  ASSUME NEW S, NEW p \in Seq(S), NEW a \in S, NEW b \in S, NEW c \in S
  PROVE  p \o (<<a, b>> \o <<c>>) = Append(Append(Append(p, a), b), c)
<1>1. <<a, b>> \in Seq(S) /\ <<c>> \in Seq(S)
  OBVIOUS
<1>2. p \o (<<a, b>> \o <<c>>) = (p \o <<a, b>>) \o <<c>>
  BY <1>1, ConcatAssociative
<1>3. p \o <<a, b>> = Append(Append(p, a), b) /\ Append(Append(p, a), b) \in Seq(S)
  BY Appended2
<1>4. Append(Append(p, a), b) \o <<c>> = Append(Append(Append(p, a), b), c)
  BY <1>3, Appended
<1> QED
  BY <1>2, <1>3, <1>4

\* A word after a high clock tells nothing.
LEMMA QuietOn ==
  ASSUME NEW p, NEW r, NEW n, Clean(p, r, n), NEW w, w \in ProgramWord,
         NEW q, Grown(q, p, w), NEW m, Plus(m, n, 1),
         p[n].clock = 1, w.clock = 1 \/ w.data = p[n].data
  PROVE  Clean(q, r, m) /\ Signals(q) = Signals(p) /\ q[m] = w /\ q[n] = p[n]
<1>1. q[m] = w /\ q[n] = p[n] /\ Signals(q) = Signals(p) \o Seen(q, m)
  <2>1. Clean(p, r, n) /\ w \in ProgramWord /\ Grown(q, p, w) /\ Plus(m, n, 1)
    OBVIOUS
  <2> QED  BY ONLY <2>1, CleanSees
<1>5. p \in Seq(ProgramWord) /\ p # <<>> /\ Len(p) = n /\ Signals(p) \in Seq(Signal)
  BY CleanOn
<1>4. Clean(q, r, m)
  BY CleanKeeps
<1>2. Seen(q, m) = <<>>
  BY <1>5, SeenNext
<1>3. Signals(p) \o <<>> = Signals(p)
  BY <1>5
<1> QED
  BY <1>1, <1>2, <1>3, <1>4

\* A data line that moves while the clock is high tells START or STOP.
LEMMA EdgeOn ==
  ASSUME NEW p, NEW r, NEW n, Clean(p, r, n), NEW w, w \in ProgramWord,
         NEW q, Grown(q, p, w), NEW m, Plus(m, n, 1),
         p[n].clock = 0, w.clock = 0, p[n].data # w.data,
         NEW x, x = (IF w.data = 1 THEN "S" ELSE "P")
  PROVE  Clean(q, r, m) /\ Signals(q) = Signals(p) \o <<x>> /\ q[m] = w /\ q[n] = p[n]
<1>1. /\ q[m] = w /\ q[n] = p[n] /\ Signals(q) = Signals(p) \o Seen(q, m)
      /\ p \in Seq(ProgramWord) /\ p # <<>> /\ Len(p) = n
  BY CleanOn
<1>4. Clean(q, r, m)
  BY CleanKeeps
<1>2. Seen(q, m) = <<x>>
  BY <1>1, SeenNext
<1> QED
  BY <1>1, <1>2, <1>4

\* A falling clock after an acknowledgement
LEMMA FallOn ==
  ASSUME NEW p, NEW v, NEW r, NEW n, Told(p, v, "1", r, n),
         NEW q, After(q, p, <<Word(0, 0, 1)>>), NEW m, Plus(m, n, 1)
  PROVE  Low(q, v, r, m)
<1> DEFINE w == Word(0, 0, 1)
<1>1. w \in ProgramWord /\ w.data = 0 /\ w.clock = 1
  BY AllWords DEF Bit
<1>2. /\ Clean(p, r, n) /\ n >= 2 /\ p[n].clock = 0 /\ p[n].data = 0
      /\ v = Signals(p) \o Pending("1")
  BY ToldEnd DEF Level
<1>3. p \in Seq(ProgramWord) /\ Len(p) = n /\ n \in Nat /\ Pulse(p, "1")
  BY <1>2 DEF Clean, Told
<1>4. Grown(q, p, w)
  <2> HIDE DEF w
  <2>1. p \o <<w>> = Append(p, w)
    BY <1>1, <1>3, Appended
  <2> QED  BY <2>1 DEF w, After, Grown
<1> HIDE DEF w
<1>5. q[m] = w /\ Signals(q) = Signals(p) \o Seen(q, m) /\ Clean(q, r, m)
  <2>1. Clean(p, r, n) /\ w \in ProgramWord /\ Grown(q, p, w) /\ Plus(m, n, 1)
    BY <1>1, <1>2, <1>4
  <2>4. p[n].data = w.data
    BY <1>1, <1>2
  <2>2. q[m] = w /\ Signals(q) = Signals(p) \o Seen(q, m)
    BY ONLY <2>1, CleanSees
  <2>3. Clean(q, r, m)
    BY ONLY <2>1, <2>4, CleanKeeps
  <2> QED  BY <2>2, <2>3
<1>6. Seen(q, m) = Pending("1")
  BY <1>1, <1>3, <1>4, PulseEnds
<1> QED
  BY <1>1, <1>2, <1>5, <1>6 DEF Low, w

\* STOP, with the clock low
LEMMA StopOn ==
  ASSUME NEW p, NEW v, NEW r, NEW n, Low(p, v, r, n),
         NEW q, After(q, p, stop_i2c(1)), NEW m, Plus(m, n, 3), NEW u, After(u, v, <<"P">>)
  PROVE  Free(q, u, r, m)
<1> DEFINE a == Word(0, 1, 1)
           b == Word(0, 1, 0)
           c == Word(0, 0, 0)
           l == Word(0, 0, 1)
           pa == Append(p, a)
           pb == Append(pa, b)
           m1 == n + 1
           m2 == n + 2
<1>1. /\ a \in ProgramWord /\ a.data = 1 /\ a.clock = 1
      /\ b \in ProgramWord /\ b.data = 1 /\ b.clock = 0
      /\ c \in ProgramWord /\ c.data = 0 /\ c.clock = 0 /\ l.clock = 1
  BY AllWords DEF Bit
<1>2. p[n] = l /\ Clean(p, r, n) /\ v = Signals(p)
  BY DEF Low
<1>3. p \in Seq(ProgramWord) /\ n \in Nat
  BY <1>2 DEF Clean
<1>4. Grown(pa, p, a) /\ Grown(pb, pa, b) /\ Grown(q, pb, c)
  <2>1. p \o (<<a, b>> \o <<c>>) = Append(pb, c)
    <3> HIDE DEF a, b, c
    <3> QED  BY <1>1, <1>3, TripleOn
  <2>2. stop_i2c(1) = <<a, b>> \o <<c>>
    BY DEF stop_i2c
  <2> QED  BY <2>1, <2>2 DEF Grown, After
<1>5. Plus(m1, n, 1) /\ Plus(m2, m1, 1) /\ Plus(m, m2, 1)
  BY <1>3 DEF Plus
<1> HIDE DEF a, b, c, l, pa, pb, m1, m2
<1>6. Clean(pa, r, m1) /\ Signals(pa) = v /\ pa[m1] = a
  <2>1. /\ Clean(p, r, n) /\ a \in ProgramWord /\ Grown(pa, p, a) /\ Plus(m1, n, 1)
        /\ p[n].clock = 1 /\ a.clock = 1
    BY <1>1, <1>2, <1>4, <1>5
  <2>2. Clean(pa, r, m1) /\ Signals(pa) = Signals(p) /\ pa[m1] = a
    BY ONLY <2>1, QuietOn
  <2> QED  BY <1>2, <2>2
<1>7. Clean(pb, r, m2) /\ Signals(pb) = v /\ pb[m2] = b
  <2>1. /\ Clean(pa, r, m1) /\ b \in ProgramWord /\ Grown(pb, pa, b) /\ Plus(m2, m1, 1)
        /\ pa[m1].clock = 1 /\ b.data = pa[m1].data
    BY <1>1, <1>4, <1>5, <1>6
  <2>2. Clean(pb, r, m2) /\ Signals(pb) = Signals(pa) /\ pb[m2] = b
    BY ONLY <2>1, QuietOn
  <2> QED  BY <1>6, <2>2
<1>8. Clean(q, r, m) /\ Signals(q) = v \o <<"P">> /\ q[m] = c
  <2>1. /\ Clean(pb, r, m2) /\ c \in ProgramWord /\ Grown(q, pb, c) /\ Plus(m, m2, 1)
        /\ pb[m2].clock = 0 /\ c.clock = 0 /\ pb[m2].data # c.data
        /\ "P" = IF c.data = 1 THEN "S" ELSE "P"
    BY <1>1, <1>4, <1>5, <1>7
  <2>2. Clean(q, r, m) /\ Signals(q) = Signals(pb) \o <<"P">> /\ q[m] = c
    BY ONLY <2>1, EdgeOn
  <2> QED  BY <1>7, <2>2
<1> QED
  BY <1>8 DEF Free, After, c

\* A second START: the clock is released first.
LEMMA AgainOn ==
  ASSUME NEW p, NEW v, NEW r, NEW n, Low(p, v, r, n),
         NEW q, After(q, p, start_i2c(TRUE)), NEW m, Plus(m, n, 2), NEW u, After(u, v, <<"S">>)
  PROVE  Told(q, u, "S", r, m)
<1> DEFINE b == Word(0, 0, 0)
           c == Word(0, 1, 0)
           l == Word(0, 0, 1)
           pb == Append(p, b)
           m1 == n + 1
<1>1. /\ b \in ProgramWord /\ b.data = 0 /\ b.clock = 0
      /\ c \in ProgramWord /\ c.data = 1 /\ c.clock = 0 /\ l.clock = 1 /\ l.data = 0
  BY AllWords DEF Bit
<1>2. p[n] = l /\ Clean(p, r, n) /\ v = Signals(p)
  BY DEF Low
<1>3. p \in Seq(ProgramWord) /\ n \in Nat \ {0}
  BY <1>2 DEF Clean
<1>4. Grown(pb, p, b) /\ Grown(q, pb, c)
  <2>1. p \o (<<b>> \o <<c>>) = Append(pb, c)
    <3> HIDE DEF b, c
    <3> QED  BY <1>1, <1>3, PairOn
  <2>2. start_i2c(TRUE) = <<b>> \o <<c>>
    BY DEF start_i2c
  <2> QED  BY <2>1, <2>2 DEF Grown, After
<1>5. Plus(m1, n, 1) /\ Plus(m, m1, 1) /\ m >= 2 /\ m - 1 = m1
  BY <1>3 DEF Plus
<1> HIDE DEF b, c, l, pb, m1
<1>6. Clean(pb, r, m1) /\ Signals(pb) = v /\ pb[m1] = b
  <2>1. /\ Clean(p, r, n) /\ b \in ProgramWord /\ Grown(pb, p, b) /\ Plus(m1, n, 1)
        /\ p[n].clock = 1 /\ b.data = p[n].data
    BY <1>1, <1>2, <1>4, <1>5
  <2>2. Clean(pb, r, m1) /\ Signals(pb) = Signals(p) /\ pb[m1] = b
    BY ONLY <2>1, QuietOn
  <2> QED  BY <1>2, <2>2
<1>7. Clean(q, r, m) /\ Signals(q) = v \o <<"S">> /\ q[m] = c /\ q[m1] = b
  <2>1. /\ Clean(pb, r, m1) /\ c \in ProgramWord /\ Grown(q, pb, c) /\ Plus(m, m1, 1)
        /\ pb[m1].clock = 0 /\ c.clock = 0 /\ pb[m1].data # c.data
        /\ "S" = IF c.data = 1 THEN "S" ELSE "P"
    BY <1>1, <1>4, <1>5, <1>6
  <2>2. Clean(q, r, m) /\ Signals(q) = Signals(pb) \o <<"S">> /\ q[m] = c /\ q[m1] = pb[m1]
    BY ONLY <2>1, EdgeOn
  <2> QED  BY <1>6, <2>2
<1>8. Pulse(q, "S")
  <2>1. Len(q) = m
    BY <1>7 DEF Clean
  <2> QED  BY <1>5, <1>7, <2>1 DEF Pulse, b, c
<1>9. u = Signals(q) \o Pending("S")
  <2>1. /\ b \in ProgramWord /\ Grown(Append(q, b), q, b) /\ Clean(q, r, m)
        /\ Plus(m + 1, m, 1)
    BY <1>1, <1>7 DEF Grown, Plus
  <2>2. Signals(q) \in Seq(Signal)
    BY ONLY <2>1, CleanOn
  <2>3. u = v \o <<"S">> /\ v = Signals(pb)
    BY <1>6 DEF After
  <2>4. Pending("S") = <<>>
    BY DEF Pending
  <2>5. Signals(q) \o <<>> = Signals(q)
    BY <2>2
  <2> QED  BY <1>7, <2>3, <2>4, <2>5
<1> QED
  BY <1>7, <1>8, <1>9 DEF Told

-----------------------------------------------------------------------------
\* START on a free bus
LEMMA StartOn ==
  ASSUME NEW p, NEW v, NEW r, NEW n, Free(p, v, r, n),
         NEW q, After(q, p, start_i2c(FALSE)), NEW m, Plus(m, n, 1), NEW u, After(u, v, <<"S">>)
  PROVE  Told(q, u, "S", r, m)
<1> DEFINE b == Word(0, 0, 0)
           c == Word(0, 1, 0)
<1>1. /\ b \in ProgramWord /\ b.data = 0 /\ b.clock = 0
      /\ c \in ProgramWord /\ c.data = 1 /\ c.clock = 0
  BY AllWords DEF Bit
<1>2. p[n] = b /\ Clean(p, r, n) /\ v = Signals(p)
  BY DEF Free
<1>3. p \in Seq(ProgramWord) /\ n \in Nat \ {0}
  BY <1>2 DEF Clean
<1>4. Grown(q, p, c)
  <2>1. p \o (<<>> \o <<c>>) = Append(p, c)
    <3> HIDE DEF c
    <3>1. <<>> \o <<c>> = <<c>>
      BY <1>1
    <3> QED  BY <1>1, <1>3, <3>1, Appended
  <2>2. start_i2c(FALSE) = <<>> \o <<c>>
    BY DEF start_i2c
  <2> QED  BY <2>1, <2>2 DEF Grown, After
<1>5. Plus(m, n, 1) /\ m >= 2 /\ m - 1 = n
  BY <1>3 DEF Plus
<1> HIDE DEF b, c
<1>6. Clean(q, r, m) /\ Signals(q) = v \o <<"S">> /\ q[m] = c /\ q[n] = b
  <2>1. /\ Clean(p, r, n) /\ c \in ProgramWord /\ Grown(q, p, c) /\ Plus(m, n, 1)
        /\ p[n].clock = 0 /\ c.clock = 0 /\ p[n].data # c.data
        /\ "S" = IF c.data = 1 THEN "S" ELSE "P"
    BY <1>1, <1>2, <1>4, <1>5
  <2>2. Clean(q, r, m) /\ Signals(q) = Signals(p) \o <<"S">> /\ q[m] = c /\ q[n] = p[n]
    BY ONLY <2>1, EdgeOn
  <2> QED  BY <1>2, <2>2
<1>7. Pulse(q, "S")
  <2>1. Len(q) = m
    BY <1>6 DEF Clean
  <2> QED  BY <1>5, <1>6, <2>1 DEF Pulse, b, c
<1>8. u = Signals(q) \o Pending("S")
  <2>1. /\ b \in ProgramWord /\ Grown(Append(q, b), q, b) /\ Clean(q, r, m)
        /\ Plus(m + 1, m, 1)
    BY <1>1, <1>6 DEF Grown, Plus
  <2>2. Signals(q) \in Seq(Signal)
    BY ONLY <2>1, CleanOn
  <2>3. u = v \o <<"S">>
    BY DEF After
  <2>4. Pending("S") = <<>>
    BY DEF Pending
  <2>5. Signals(q) \o <<>> = Signals(q)
    BY <2>2
  <2> QED  BY <1>6, <2>3, <2>4, <2>5
<1> QED
  BY <1>6, <1>7, <1>8 DEF Told

\* An empty transfer: STOP after START
LEMMA EmptyOn ==
  ASSUME NEW p, NEW v, NEW r, NEW n, Told(p, v, "S", r, n),
         NEW q, After(q, p, stop_i2c(0)), NEW m, Plus(m, n, 1), NEW u, After(u, v, <<"P">>)
  PROVE  Free(q, u, r, m)
<1> DEFINE c == Word(0, 0, 0)
<1>1. c \in ProgramWord /\ c.data = 0 /\ c.clock = 0
  BY AllWords DEF Bit
<1>2. /\ Clean(p, r, n) /\ n >= 2 /\ p[n].clock = 0 /\ p[n].data = 1
      /\ v = Signals(p) \o Pending("S") /\ v \in Seq(Signal)
  BY ToldEnd DEF Level
<1>3. p \in Seq(ProgramWord) /\ n \in Nat \ {0}
  BY <1>2 DEF Clean
<1>4. Grown(q, p, c)
  <2>1. p \o (<<>> \o <<c>>) = Append(p, c)
    <3> HIDE DEF c
    <3>1. <<>> \o <<c>> = <<c>>
      BY <1>1
    <3> QED  BY <1>1, <1>3, <3>1, Appended
  <2>2. stop_i2c(0) = <<>> \o <<c>>
    BY DEF stop_i2c
  <2> QED  BY <2>1, <2>2 DEF Grown, After
<1>5. v = Signals(p)
  <2>1. c \in ProgramWord /\ Grown(Append(p, c), p, c) /\ Clean(p, r, n) /\ Plus(n + 1, n, 1)
    BY <1>1, <1>2 DEF Grown, Plus
  <2>2. Signals(p) \in Seq(Signal)
    BY ONLY <2>1, CleanOn
  <2>3. Pending("S") = <<>> /\ Signals(p) \o <<>> = Signals(p)
    BY <2>2 DEF Pending
  <2> QED  BY <1>2, <2>3
<1> HIDE DEF c
<1>6. Clean(q, r, m) /\ Signals(q) = v \o <<"P">> /\ q[m] = c
  <2>1. /\ Clean(p, r, n) /\ c \in ProgramWord /\ Grown(q, p, c) /\ Plus(m, n, 1)
        /\ p[n].clock = 0 /\ c.clock = 0 /\ p[n].data # c.data
        /\ "P" = IF c.data = 1 THEN "S" ELSE "P"
    BY <1>1, <1>2, <1>4
  <2>2. Clean(q, r, m) /\ Signals(q) = Signals(p) \o <<"P">> /\ q[m] = c
    BY ONLY <2>1, EdgeOn
  <2> QED  BY <1>5, <2>2
<1> QED
  BY <1>6 DEF Free, After, c

\* The first words leave the bus free and tell nothing.
LEMMA Begin == Free(begin_i2c, <<>>, 0, 2)
<1> DEFINE c == Word(0, 0, 0)
           p == <<c>>
<1>1. c \in ProgramWord /\ c.data = 0 /\ c.clock = 0
  BY AllWords DEF Bit
<1>2. begin_i2c = <<c, c>>
  BY DEF begin_i2c
<1> HIDE DEF c
<1>3. p \in Seq(ProgramWord) /\ Len(p) = 1 /\ DOMAIN p = {1} /\ p[1] = c /\ p # <<>>
  BY <1>1
<1>4. begin_i2c = Append(p, c) /\ begin_i2c \in Seq(ProgramWord) /\ Len(begin_i2c) = 2
      /\ begin_i2c[1] = c /\ begin_i2c[2] = c
  BY <1>1, <1>2
<1> HIDE DEF p
<1>5. Grown(begin_i2c, p, c) /\ Plus(2, 1, 1)
  BY <1>4 DEF Grown, Plus
<1>6. Signals(p) = <<>>
  <2>1. Seen(p, 1) = <<>>
    BY DEF Seen
  <2> DEFINE ss == [i \in DOMAIN p |-> Seen(p, i)]
  <2>2. ss = [i \in 1 .. 1 |-> <<>>]
    BY <1>3, <2>1
  <2>3. [i \in 1 .. 1 |-> <<>>] \in Seq(Seq(Signal)) /\ Len([i \in 1 .. 1 |-> <<>>]) = 1
    <3>1. <<>> \in Seq(Signal)
      OBVIOUS
    <3>2. [i \in 1 .. 1 |-> <<>>] \in [1 .. 1 -> Seq(Signal)]
      BY <3>1
    <3> QED  BY <3>2
  <2>6. ss[1] = <<>>
    BY <2>2
  <2> HIDE DEF ss
  <2>7. ss \in Seq(Seq(Signal)) /\ Len(ss) = 1
    BY <2>2, <2>3
  <2>4. ss \in Seq(Seq(Signal)) /\ Len(ss) = 1 /\ ss[1] = <<>> /\ ss # <<>>
    BY <2>6, <2>7
  <2>5. PICK f : Joins(f, ss)
    BY <2>4, Flattened
  <2>8. FlattenSeq(ss) = <<>>
    BY <2>4, <2>5 DEF Joins
  <2> QED  BY <2>8 DEF Signals, ss
<1>7. Races(p, 0) = 0 /\ Races(p, 1) = 0
  <2>1. ASSUME NEW k  PROVE Races(p, k) = 0
    <3>1. {i \in 1 .. Len(p) - 1 :
             /\ p[i].clock = k /\ p[i+1].clock = 1 - k /\ p[i].data # p[i+1].data} = {}
      BY <1>3
    <3> QED  BY <3>1, FS_EmptySet DEF Races
  <2> QED  BY <2>1
<1>8. Clean(p, 0, 1)
  BY <1>3, <1>7 DEF Clean
<1>9. Clean(begin_i2c, 0, 2)
  <2>1. p[1].clock = c.clock
    BY <1>3
  <2> QED  BY ONLY <1>1, <1>5, <1>8, <2>1, CleanKeeps
<1>10. Signals(begin_i2c) = Signals(p) \o Seen(begin_i2c, 2)
  BY ONLY <1>1, <1>5, <1>8, CleanSees
<1>11. Seen(begin_i2c, 2) = <<>>
  <2>1. p[1].clock = 0 /\ c.clock = 0 /\ c.data = p[1].data
    BY <1>1, <1>3
  <2>2. /\ p \in Seq(ProgramWord) /\ p # <<>> /\ c \in ProgramWord /\ Grown(begin_i2c, p, c)
        /\ 1 = Len(p) /\ Plus(2, 1, 1)
    BY <1>1, <1>3, <1>5
  <2> QED  BY <2>1, <2>2, SeenNext
<1>12. <<>> \o <<>> = <<>>
  OBVIOUS
<1> QED
  BY <1>4, <1>6, <1>9, <1>10, <1>11, <1>12 DEF Free, c

-----------------------------------------------------------------------------
\* The k words x, after a program whose last signal is e, tell y, the last of them e2, and
\* race d times.
Adds(e, x, y, e2, k, d) ==
  /\ x \in Seq(ProgramWord) /\ y \in Seq(Signal) /\ k \in Nat /\ d \in Nat
  /\ \A p, v, r, n, q, u, m, s :
       /\ Told(p, v, e, r, n) /\ After(q, p, x) /\ After(u, v, y)
       /\ Plus(m, n, k) /\ Plus(s, r, d)
       => Told(q, u, e2, s, m)

\* A told program has numbers of words and of races, and sequences of them.
LEMMA ToldTypes ==
  ASSUME NEW p, NEW v, NEW e, NEW r, NEW n, Told(p, v, e, r, n)
  PROVE  p \in Seq(ProgramWord) /\ v \in Seq(Signal) /\ r \in Nat /\ n \in Nat
<1>1. Clean(p, r, n) /\ v \in Seq(Signal)
  BY ToldEnd
<1>2. /\ p \in Seq(ProgramWord) /\ n \in Nat
  BY <1>1 DEF Clean
<1>3. r \in Nat
  <2> DEFINE b == Word(0, 0, 0)
             q == Append(p, b)
             m == n + 1
  <2>1. b \in ProgramWord /\ Grown(q, p, b) /\ Plus(m, n, 1)
    BY AllWords DEF Bit, Grown, Plus
  <2> HIDE DEF b, q, m
  <2> QED  BY ONLY <1>1, <2>1, CleanOn
<1> QED
  BY <1>1, <1>2, <1>3

\* One after the other
LEMMA AddsBoth ==
  ASSUME NEW e, NEW x1, NEW y1, NEW e1, NEW k1, NEW d1, Adds(e, x1, y1, e1, k1, d1),
         NEW x2, NEW y2, NEW e2, NEW k2, NEW d2, Adds(e1, x2, y2, e2, k2, d2),
         NEW x, After(x, x1, x2), NEW y, After(y, y1, y2),
         NEW k, Plus(k, k1, k2), NEW d, Plus(d, d1, d2)
  PROVE  Adds(e, x, y, e2, k, d)
<1>1. /\ x1 \in Seq(ProgramWord) /\ y1 \in Seq(Signal) /\ k1 \in Nat /\ d1 \in Nat
      /\ x2 \in Seq(ProgramWord) /\ y2 \in Seq(Signal) /\ k2 \in Nat /\ d2 \in Nat
  BY DEF Adds
<1>2. x = x1 \o x2 /\ y = y1 \o y2 /\ k = k1 + k2 /\ d = d1 + d2
  BY DEF After, Plus
<1>3. x \in Seq(ProgramWord) /\ y \in Seq(Signal) /\ k \in Nat /\ d \in Nat
  BY <1>1, <1>2, ConcatProperties
<1>4. ASSUME NEW p, NEW v, NEW r, NEW n, NEW q, NEW u, NEW m, NEW s,
             Told(p, v, e, r, n), After(q, p, x), After(u, v, y), Plus(m, n, k), Plus(s, r, d)
      PROVE  Told(q, u, e2, s, m)
  <2> DEFINE q1 == p \o x1
             u1 == v \o y1
             m1 == n + k1
             s1 == r + d1
  <2>1. p \in Seq(ProgramWord) /\ v \in Seq(Signal) /\ r \in Nat /\ n \in Nat
    BY <1>4, ToldTypes
  <2>2. After(q1, p, x1) /\ After(u1, v, y1) /\ Plus(m1, n, k1) /\ Plus(s1, r, d1)
    BY DEF After, Plus
  <2>3. After(q, q1, x2)
    <3>1. p \o (x1 \o x2) = (p \o x1) \o x2
      <4>1. p \in Seq(ProgramWord) /\ x1 \in Seq(ProgramWord) /\ x2 \in Seq(ProgramWord)
        BY <1>1, <2>1
      <4> QED  BY ONLY <4>1, ConcatAssociative
    <3> QED  BY <1>2, <1>4, <3>1 DEF After
  <2>4. After(u, u1, y2)
    <3>1. v \o (y1 \o y2) = (v \o y1) \o y2
      <4>1. v \in Seq(Signal) /\ y1 \in Seq(Signal) /\ y2 \in Seq(Signal)
        BY <1>1, <2>1
      <4> QED  BY ONLY <4>1, ConcatAssociative
    <3> QED  BY <1>2, <1>4, <3>1 DEF After
  <2>5. Plus(m, m1, k2) /\ Plus(s, s1, d2)
    BY <1>1, <1>2, <1>4, <2>1 DEF Plus
  <2> HIDE DEF q1, u1, m1, s1
  <2>6. Told(q1, u1, e1, s1, m1)
    BY <1>4, <2>2 DEF Adds
  <2> QED  BY <2>3, <2>4, <2>5, <2>6 DEF Adds
<1> QED
  BY <1>3, <1>4 DEF Adds

\* Nothing
LEMMA AddsNone ==
  ASSUME NEW e
  PROVE  Adds(e, <<>>, <<>>, e, 0, 0)
<1>1. <<>> \in Seq(ProgramWord) /\ <<>> \in Seq(Signal)
  OBVIOUS
<1>2. ASSUME NEW p, NEW v, NEW r, NEW n, NEW q, NEW u, NEW m, NEW s,
             Told(p, v, e, r, n), After(q, p, <<>>), After(u, v, <<>>), Plus(m, n, 0), Plus(s, r, 0)
      PROVE  Told(q, u, e, s, m)
  <2>1. p \in Seq(ProgramWord) /\ v \in Seq(Signal) /\ r \in Nat /\ n \in Nat
    BY <1>2, ToldTypes
  <2>2. q = p /\ u = v
    BY <1>2, <2>1 DEF After
  <2>3. m = n /\ s = r
    BY <1>2, <2>1 DEF Plus
  <2> QED  BY <1>2, <2>2, <2>3
<1> QED
  BY <1>1, <1>2 DEF Adds

\* One bit
LEMMA AddsBit ==
  ASSUME NEW e, NEW old \in Bit, NEW bit \in Bit
  PROVE  Adds(e, writebits(old, bit), <<Sym(bit)>>, Sym(bit), 3, IF old = Level(e) THEN 1 ELSE 0)
<1> DEFINE d == IF old = Level(e) THEN 1 ELSE 0
<1>1. writebits(old, bit) \in Seq(ProgramWord)
  <2>1. 1 - old \in Bit /\ 1 - bit \in Bit /\ 0 \in Bit /\ 1 \in Bit
    BY DEF Bit
  <2>2. Word(0, 1 - old, 1) \in ProgramWord /\ Word(0, 1 - bit, 1) \in ProgramWord
        /\ Word(0, 1 - bit, 0) \in ProgramWord
    BY <2>1, AllWords
  <2> QED  BY <2>2 DEF writebits
<1>2. <<Sym(bit)>> \in Seq(Signal)
  BY DEF Signal, Sym
<1>3. d \in Nat
  OBVIOUS
<1>4. ASSUME NEW p, NEW v, NEW r, NEW n, NEW q, NEW u, NEW m, NEW s,
             Told(p, v, e, r, n), After(q, p, writebits(old, bit)), After(u, v, <<Sym(bit)>>),
             Plus(m, n, 3), Plus(s, r, d)
      PROVE  Told(q, u, Sym(bit), s, m)
  <2>1. r \in Nat
    BY <1>4, ToldTypes
  <2>2. More(s, r, old, Level(e))
    BY <1>4, <2>1 DEF Plus, More
  <2> HIDE DEF d
  <2> QED  BY <1>4, <2>2, BitOn
<1> HIDE DEF d
<1>5. Adds(e, writebits(old, bit), <<Sym(bit)>>, Sym(bit), 3, d)
  BY <1>1, <1>2, <1>3, <1>4 DEF Adds
<1> QED  BY <1>5 DEF d

\* One sample
LEMMA AddsSample ==
  ASSUME NEW e
  PROVE  Adds(e, Sample, <<"read">>, "read", 4, IF Level(e) = 1 THEN 1 ELSE 0)
<1> DEFINE d == IF Level(e) = 1 THEN 1 ELSE 0
<1>1. Sample \in Seq(ProgramWord)
  <2>1. 1 \in Bit /\ 0 \in Bit /\ 1 - 1 = 0
    BY DEF Bit
  <2>2. Word(0, 1 - 1, 1) \in ProgramWord /\ Word(0, 1 - 1, 0) \in ProgramWord
        /\ Word(1, 0, 0) \in ProgramWord
    BY <2>1, AllWords
  <2>3. writebits(1, 1) \in Seq(ProgramWord)
    BY <2>2 DEF writebits
  <2>4. <<Word(1, 0, 0)>> \in Seq(ProgramWord)
    BY <2>2
  <2> QED  BY <2>3, <2>4, ConcatProperties DEF Sample
<1>2. <<"read">> \in Seq(Signal)
  BY DEF Signal
<1>3. d \in Nat
  OBVIOUS
<1>4. ASSUME NEW p, NEW v, NEW r, NEW n, NEW q, NEW u, NEW m, NEW s,
             Told(p, v, e, r, n), After(q, p, Sample), After(u, v, <<"read">>),
             Plus(m, n, 4), Plus(s, r, d)
      PROVE  Told(q, u, "read", s, m)
  <2>1. r \in Nat
    BY <1>4, ToldTypes
  <2>2. More(s, r, 1, Level(e))
    BY <1>4, <2>1 DEF Plus, More
  <2> HIDE DEF d
  <2> QED  BY <1>4, <2>2, SampleOn
<1> HIDE DEF d
<1>5. Adds(e, Sample, <<"read">>, "read", 4, d)
  BY <1>1, <1>2, <1>3, <1>4 DEF Adds
<1> QED  BY <1>5 DEF d

\* Sequences of words in a row: es[i] is the last signal of the first i, Ks[i] their words,
\* Rs[i] their races.
LEMMA AddsAll ==
  ASSUME NEW N \in Nat \ {0}, NEW xs \in Seq(Seq(ProgramWord)), NEW ys \in Seq(Seq(Signal)),
         Len(xs) = N, Len(ys) = N, NEW e, NEW es, NEW Ks, NEW Rs, NEW k \in Nat, NEW ds,
         Adds(e, xs[1], ys[1], es[1], Ks[1], Rs[1]),
         \A i \in 2 .. N : /\ Adds(es[i-1], xs[i], ys[i], es[i], k, ds[i])
                           /\ Plus(Ks[i], Ks[i-1], k) /\ Plus(Rs[i], Rs[i-1], ds[i])
  PROVE  Adds(e, FlattenSeq(xs), FlattenSeq(ys), es[N], Ks[N], Rs[N])
<1>1. xs # <<>> /\ ys # <<>> /\ N \in 1 .. N
  OBVIOUS
<1>2. PICK f : Joins(f, xs)
  BY <1>1, Flattened
<1>3. PICK g : Joins(g, ys)
  BY <1>1, Flattened
<1> DEFINE T == {i \in 1 .. N : Adds(e, f[i], g[i], es[i], Ks[i], Rs[i])}
<1>4. 1 \in T
  BY <1>1, <1>2, <1>3 DEF Joins
<1>5. ASSUME NEW i \in 1 + 1 .. N, i - 1 \in T  PROVE i \in T
  <2>1. i \in 2 .. N /\ i \in 1 .. N
    BY <1>5
  <2>2. /\ Adds(e, f[i-1], g[i-1], es[i-1], Ks[i-1], Rs[i-1])
        /\ Adds(es[i-1], xs[i], ys[i], es[i], k, ds[i])
        /\ Plus(Ks[i], Ks[i-1], k) /\ Plus(Rs[i], Rs[i-1], ds[i])
    BY <1>5, <2>1
  <2>3. After(f[i], f[i-1], xs[i]) /\ After(g[i], g[i-1], ys[i])
    BY <1>2, <1>3, <2>1 DEF Joins, After
  <2>4. Adds(e, f[i], g[i], es[i], Ks[i], Rs[i])
    BY ONLY <2>2, <2>3, AddsBoth
  <2> QED  BY <2>1, <2>4
<1> HIDE DEF T
<1>6. \A i \in 1 .. N : i \in T
  BY <1>4, <1>5, Induct
<1>7. Adds(e, f[N], g[N], es[N], Ks[N], Rs[N])
  BY <1>1, <1>6 DEF T
<1> QED
  BY <1>2, <1>3, <1>7 DEF Joins

-----------------------------------------------------------------------------
\* Sequences of one element each, in a row
Apart(ys, a, N) == ys = [k \in 1 .. N |-> <<a[k]>>]
LEMMA Singles ==
  ASSUME NEW S, NEW N \in Nat \ {0}, NEW a \in Seq(S), Len(a) = N,
         NEW ys, Apart(ys, a, N)
  PROVE  ys \in Seq(Seq(S)) /\ Len(ys) = N /\ FlattenSeq(ys) = a
<1>1. \A k \in 1 .. N : a[k] \in S /\ <<a[k]>> \in Seq(S)
  OBVIOUS
<1>0. ys = [k \in 1 .. N |-> <<a[k]>>]
  BY DEF Apart
<1>2. ys \in [1 .. N -> Seq(S)]
  BY <1>0, <1>1
<1>3. ys \in Seq(Seq(S)) /\ Len(ys) = N /\ ys # <<>>
  <2>1. ys \in Seq(Seq(S)) /\ Len(ys) = N
    BY <1>2
  <2> QED  BY <2>1
<1> DEFINE D == [i \in 1 .. N |-> {x \in Seq(S) : Len(x) = i /\ \A j \in 1 .. i : x[j] = a[j]}]
<1>4. ys[1] \in D[1]
  <2>1. 1 \in 1 .. N /\ ys[1] = <<a[1]>> /\ a[1] \in S
    BY <1>0, <1>1
  <2>2. <<a[1]>> \in Seq(S) /\ Len(<<a[1]>>) = 1 /\ \A j \in 1 .. 1 : <<a[1]>>[j] = a[j]
    BY <2>1
  <2> QED  BY <2>1, <2>2
<1>5. ASSUME NEW i \in 2 .. Len(ys), NEW x \in D[i-1]  PROVE x \o ys[i] \in D[i]
  <2>1. i \in 1 .. N /\ i - 1 \in 1 .. N /\ ys[i] = <<a[i]>> /\ a[i] \in S /\ (i - 1) + 1 = i
    BY <1>0, <1>1, <1>3
  <2>2. x \in Seq(S) /\ Len(x) = i - 1 /\ \A j \in 1 .. i - 1 : x[j] = a[j]
    BY <2>1
  <2>3. x \o <<a[i]>> = Append(x, a[i])
    BY <2>1, <2>2, Appended
  <2> DEFINE z == Append(x, a[i])
  <2>4. z \in Seq(S) /\ Len(z) = i /\ z[i] = a[i] /\ \A j \in 1 .. i - 1 : z[j] = x[j]
    BY <2>1, <2>2, AppendProperties
  <2> HIDE DEF z
  <2>5. \A j \in 1 .. i : j = i \/ j \in 1 .. i - 1
    BY <2>1
  <2>6. z \in D[i]
    BY <2>1, <2>2, <2>4, <2>5
  <2> HIDE DEF D
  <2> QED  BY <2>1, <2>3, <2>6 DEF z
<1> DEFINE F == FlattenSeq(ys)
<1>6. F \in D[N]
  <2> HIDE DEF D
  <2> QED  BY <1>3, <1>4, <1>5, Flatten
<1> HIDE DEF F
<1>7. F \in Seq(S) /\ Len(F) = N /\ \A j \in 1 .. N : F[j] = a[j]
  BY <1>6
<1>8. F = [j \in 1 .. N |-> F[j]] /\ a = [j \in 1 .. N |-> a[j]]
  BY <1>7
<1>9. F = a
  BY <1>7, <1>8
<1> QED
  BY <1>3, <1>9 DEF F

\* A bit the chip reads is not the level of the data word.
LEMMA SymLevel ==
  ASSUME NEW b \in Bit
  PROVE  Level(Sym(b)) # b /\ Sym(b) \in Signal
  BY DEF Bit, Level, Sym, Signal

\* Bits in a row
LEMMA SeqOn ==
  ASSUME NEW N \in Nat \ {0}, NEW bits \in Seq(Bit), Len(bits) = N, NEW old \in Bit,
         NEW e, old # Level(e), NEW y, y = [k \in 1 .. N |-> Sym(bits[k])]
  PROVE  Adds(e, WriteSeq(old, bits), y, Sym(bits[N]), 3 * N, 0)
<1> DEFINE was(k) == IF k = 1 THEN old ELSE bits[k-1]
           xs == [k \in 1 .. N |-> writebits(was(k), bits[k])]
           ys == [k \in 1 .. N |-> <<y[k]>>]
           es == [k \in 1 .. N |-> Sym(bits[k])]
           Ks == [k \in 1 .. N |-> 3 * k]
           Rs == [k \in 1 .. N |-> 0]
<1>1. \A k \in 1 .. N : bits[k] \in Bit
  OBVIOUS
<1>2. \A k \in 2 .. N : k - 1 \in 1 .. N /\ k \in 1 .. N /\ k # 1
  OBVIOUS
<1>3. 1 \in 1 .. N /\ N \in 1 .. N
  OBVIOUS
<1>4. Adds(e, xs[1], ys[1], es[1], 3, 0)
  <2>1. Adds(e, writebits(old, bits[1]), <<Sym(bits[1])>>, Sym(bits[1]), 3, 0)
    <3>1. Adds(e, writebits(old, bits[1]), <<Sym(bits[1])>>, Sym(bits[1]), 3,
               IF old = Level(e) THEN 1 ELSE 0)
      BY <1>1, <1>3, AddsBit
    <3> QED  BY <3>1
  <2> QED  BY <1>3, <2>1
<1>5. ASSUME NEW k \in 2 .. N  PROVE Adds(es[k-1], xs[k], ys[k], es[k], 3, 0)
  <2>1. bits[k-1] \in Bit /\ bits[k] \in Bit /\ es[k-1] = Sym(bits[k-1]) /\ es[k] = Sym(bits[k])
    BY <1>1, <1>2
  <2>2. xs[k] = writebits(bits[k-1], bits[k]) /\ ys[k] = <<Sym(bits[k])>>
    BY <1>2
  <2>3. bits[k-1] # Level(es[k-1])
    BY <2>1, SymLevel
  <2> HIDE DEF xs, ys, es
  <2>4. Adds(es[k-1], writebits(bits[k-1], bits[k]), <<Sym(bits[k])>>, Sym(bits[k]), 3,
             IF bits[k-1] = Level(es[k-1]) THEN 1 ELSE 0)
    BY <2>1, AddsBit
  <2> QED  BY <2>1, <2>2, <2>3, <2>4
<1>6. \A k \in 1 .. N : xs[k] \in Seq(ProgramWord)
  <2> SUFFICES ASSUME NEW k \in 1 .. N  PROVE xs[k] \in Seq(ProgramWord)
    OBVIOUS
  <2> HIDE DEF xs, ys, es
  <2>1. CASE k = 1
    BY <1>4, <2>1 DEF Adds
  <2>2. CASE k # 1
    <3>1. k \in 2 .. N
      BY <2>2
    <3> QED  BY <1>5, <3>1 DEF Adds
  <2> QED  BY <2>1, <2>2
<1>7. xs \in Seq(Seq(ProgramWord)) /\ Len(xs) = N
  <2>1. xs = [k \in 1 .. N |-> xs[k]]
    OBVIOUS
  <2> HIDE DEF xs
  <2>2. xs \in [1 .. N -> Seq(ProgramWord)]
    BY <1>6, <2>1
  <2> QED  BY <2>2
<1>8. y \in Seq(Signal) /\ Len(y) = N
  <2>1. \A k \in 1 .. N : Sym(bits[k]) \in Signal
    BY <1>1, SymLevel
  <2>2. y \in [1 .. N -> Signal]
    BY <2>1
  <2> QED  BY <2>2
<1>9. ys \in Seq(Seq(Signal)) /\ Len(ys) = N /\ FlattenSeq(ys) = y
  <2>1. Apart(ys, y, N)
    BY DEF Apart
  <2> HIDE DEF ys
  <2>2. N \in Nat \ {0}
    OBVIOUS
  <2> QED  BY ONLY <1>8, <2>1, <2>2, Singles
<1>10. WriteSeq(old, bits) = FlattenSeq(xs)
  <2>1. DOMAIN bits = 1 .. N
    OBVIOUS
  <2> QED  BY <2>1 DEF WriteSeq
<1>11. Ks[1] = 3 /\ Ks[N] = 3 * N /\ Rs[1] = 0 /\ Rs[N] = 0 /\ es[N] = Sym(bits[N])
  BY <1>3
<1>12. ASSUME NEW k \in 2 .. N  PROVE Plus(Ks[k], Ks[k-1], 3) /\ Plus(Rs[k], Rs[k-1], 0)
  BY <1>2 DEF Plus
<1>13. \A k \in 2 .. N : Rs[k] = 0
  BY <1>2
<1> HIDE DEF xs, ys, es, Ks, Rs
<1>14. Adds(e, FlattenSeq(xs), FlattenSeq(ys), es[N], Ks[N], Rs[N])
  <2>1. /\ Adds(e, xs[1], ys[1], es[1], Ks[1], Rs[1])
        /\ \A i \in 2 .. N : /\ Adds(es[i-1], xs[i], ys[i], es[i], 3, Rs[i])
                             /\ Plus(Ks[i], Ks[i-1], 3) /\ Plus(Rs[i], Rs[i-1], Rs[i])
    BY <1>4, <1>5, <1>11, <1>12, <1>13
  <2>2. 3 \in Nat
    OBVIOUS
  <2> QED  BY <1>7, <1>9, <2>1, <2>2, AddsAll
<1> QED
  BY <1>9, <1>10, <1>11, <1>14

-----------------------------------------------------------------------------
\* The powers of two in a byte
LEMMA Powers ==
  ASSUME NEW j
  PROVE  /\ j = 0 => 2 ^ j = 1
         /\ j = 1 => 2 ^ j = 2
         /\ j = 2 => 2 ^ j = 4
         /\ j = 3 => 2 ^ j = 8
         /\ j = 4 => 2 ^ j = 16
         /\ j = 5 => 2 ^ j = 32
         /\ j = 6 => 2 ^ j = 64
         /\ j = 7 => 2 ^ j = 128
<1>0. ASSUME j = 0  PROVE 2 ^ j = 1
  BY <1>0
<1>1. ASSUME j = 1  PROVE 2 ^ j = 2
  BY <1>1
<1>2. ASSUME j = 2  PROVE 2 ^ j = 4
  BY <1>2
<1>3. ASSUME j = 3  PROVE 2 ^ j = 8
  BY <1>3
<1>4. ASSUME j = 4  PROVE 2 ^ j = 16
  BY <1>4
<1>5. ASSUME j = 5  PROVE 2 ^ j = 32
  BY <1>5
<1>6. ASSUME j = 6  PROVE 2 ^ j = 64
  BY <1>6
<1>7. ASSUME j = 7  PROVE 2 ^ j = 128
  BY <1>7
<1> QED
  BY <1>0, <1>1, <1>2, <1>3, <1>4, <1>5, <1>6, <1>7

\* The bits of a number
LEMMA BitsType ==
  ASSUME NEW v \in Nat, NEW n \in {7, 8}
  PROVE  BitsOf(v, n) \in [1 .. n -> Bit] /\ BitsOf(v, n) \in Seq(Bit) /\ Len(BitsOf(v, n)) = n
<1>1. \A j \in 0 .. 7 : 2 ^ j \in Nat \ {0}
  <2> SUFFICES ASSUME NEW j \in 0 .. 7  PROVE 2 ^ j \in Nat \ {0}
    OBVIOUS
  <2>1. j = 0 \/ j = 1 \/ j = 2 \/ j = 3 \/ j = 4 \/ j = 5 \/ j = 6 \/ j = 7
    OBVIOUS
  <2> QED  BY <2>1, Powers
<1>2. ASSUME NEW k \in 1 .. n  PROVE (v \div (2 ^ (n - k))) % 2 \in Bit
  <2> DEFINE d == 2 ^ (n - k)
  <2>1. n - k \in 0 .. 7
    OBVIOUS
  <2>2. d \in Nat \ {0}
    BY <1>1, <2>1
  <2> HIDE DEF d
  <2>3. v \div d \in Nat
    BY <2>2
  <2> DEFINE e == v \div d
  <2> HIDE DEF e
  <2>4. e \in Nat
    BY <2>3 DEF e
  <2>5. e % 2 \in Bit
    BY <2>4 DEF Bit
  <2> QED  BY <2>5 DEF d, e
<1>3. BitsOf(v, n) \in [1 .. n -> Bit]
  BY <1>2 DEF BitsOf
<1> HIDE DEF BitsOf
<1>4. n \in Nat
  OBVIOUS
<1> QED
  BY <1>3, <1>4

\* A sequence and one more
LEMMA OneMore ==
  ASSUME NEW S, NEW a \in Seq(S), NEW b \in S, NEW z, After(z, a, <<b>>),
         NEW n, n = Len(a), NEW m, Plus(m, n, 1)
  PROVE  z \in Seq(S) /\ Len(z) = m /\ z[m] = b /\ \A k \in 1 .. n : z[k] = a[k]
<1>1. z = Append(a, b)
  BY Appended DEF After
<1>2. Grown(z, a, b)
  BY <1>1 DEF Grown
<1> QED
  BY <1>2, Longer

\* The address and the direction are eight bits, a byte and its slot nine.
LEMMA Eighth ==
  ASSUME NEW S, NEW a \in Seq(S), Len(a) = 7, NEW b \in S, NEW z, After(z, a, <<b>>)
  PROVE  z \in Seq(S) /\ Len(z) = 8 /\ z[8] = b /\ \A k \in 1 .. 7 : z[k] = a[k]
<1> DEFINE n == 7
           m == 8
<1>1. n = Len(a) /\ Plus(m, n, 1)
  BY DEF Plus
<1> HIDE DEF n, m
<1>0. a \in Seq(S) /\ b \in S /\ After(z, a, <<b>>)
  OBVIOUS
<1>2. z \in Seq(S) /\ Len(z) = m /\ z[m] = b
  BY ONLY <1>0, <1>1, OneMore
<1>3. \A k \in 1 .. n : z[k] = a[k]
  BY ONLY <1>0, <1>1, OneMore
<1> QED
  BY <1>2, <1>3 DEF n, m

LEMMA Ninth ==
  ASSUME NEW S, NEW a \in Seq(S), Len(a) = 8, NEW b \in S, NEW z, After(z, a, <<b>>)
  PROVE  z \in Seq(S) /\ Len(z) = 9 /\ z[9] = b /\ \A k \in 1 .. 8 : z[k] = a[k]
<1> DEFINE n == 8
           m == 9
<1>1. n = Len(a) /\ Plus(m, n, 1)
  BY DEF Plus
<1> HIDE DEF n, m
<1>0. a \in Seq(S) /\ b \in S /\ After(z, a, <<b>>)
  OBVIOUS
<1>2. z \in Seq(S) /\ Len(z) = m /\ z[m] = b
  BY ONLY <1>0, <1>1, OneMore
<1>3. \A k \in 1 .. n : z[k] = a[k]
  BY ONLY <1>0, <1>1, OneMore
<1> QED
  BY <1>2, <1>3 DEF n, m

\* Eight bits, and a slot for the acknowledgement
LEMMA Nine ==
  ASSUME NEW bs \in Seq(Bit), Len(bs) = 8, NEW bits, bits = bs \o << 1 >>
  PROVE  /\ bits \in Seq(Bit) /\ Len(bits) = 9 /\ bits[9] = 1
         /\ [k \in 1 .. 9 |-> Sym(bits[k])]
              = [k \in 1 .. 8 |-> IF bs[k] = 1 THEN "1" ELSE "0"] \o <<"1">>
<1> DEFINE a == [k \in 1 .. 8 |-> IF bs[k] = 1 THEN "1" ELSE "0"]
           y == [k \in 1 .. 9 |-> Sym(bits[k])]
           z == a \o <<"1">>
<1>1. 1 \in Bit
  BY DEF Bit
<1>2. bits \in Seq(Bit) /\ Len(bits) = 9 /\ bits[9] = 1 /\ \A k \in 1 .. 8 : bits[k] = bs[k]
  <2>1. After(bits, bs, << 1 >>) /\ bs \in Seq(Bit) /\ Len(bs) = 8
    BY DEF After
  <2> QED  BY ONLY <1>1, <2>1, Ninth
<1>3. a \in Seq(Signal) /\ Len(a) = 8 /\ \A k \in 1 .. 8 : a[k] = Sym(bs[k])
  <2>1. a \in [1 .. 8 -> Signal]
    BY DEF Signal
  <2>2. \A k \in 1 .. 8 : a[k] = Sym(bs[k])
    BY DEF Sym
  <2> HIDE DEF a
  <2>3. a \in Seq(Signal) /\ Len(a) = 8
    <3> DEFINE n == 8
    <3>1. a \in [1 .. n -> Signal] /\ n \in Nat
      BY <2>1
    <3> HIDE DEF n
    <3>2. a \in Seq(Signal) /\ Len(a) = n
      BY ONLY <3>1
    <3> QED  BY <3>2 DEF n
  <2> QED  BY <2>2, <2>3
<1>4. "1" \in Signal /\ "1" = Sym(1)
  BY DEF Signal, Sym
<1>5. z \in Seq(Signal) /\ Len(z) = 9 /\ z[9] = Sym(1) /\ \A k \in 1 .. 8 : z[k] = a[k]
  <2>1. After(z, a, <<"1">>)
    BY DEF After
  <2> HIDE DEF a, z
  <2> QED  BY <1>3, <1>4, <2>1, Ninth
<1> HIDE DEF a, z
<1>6. \A k \in 1 .. 9 : z[k] = Sym(bits[k])
  <2>1. \A k \in 1 .. 9 : k = 9 \/ k \in 1 .. 8
    OBVIOUS
  <2> QED  BY <1>2, <1>3, <1>5, <2>1
<1>7. z = [k \in 1 .. 9 |-> z[k]]
  BY <1>5
<1>8. z = y
  BY <1>6, <1>7
<1> QED
  BY <1>2, <1>8 DEF a, z

\* A byte and the slot after it
LEMMA ByteOn ==
  ASSUME NEW v \in Nat, NEW bs \in Seq(Bit), Len(bs) = 8, BitsOf(v, 8) = bs,
         NEW bits, bits = bs \o << 1 >>, NEW old \in Bit, NEW e, old # Level(e)
  PROVE  Adds(e, WriteSeq(old, bits), Bytewise(v), "1", 27, 0)
<1> DEFINE y == [k \in 1 .. 9 |-> Sym(bits[k])]
<1>1. bits \in Seq(Bit) /\ Len(bits) = 9 /\ bits[9] = 1
  BY Nine
<1>2. y = Bytewise(v)
  <2>1. Bytewise(v) = [k \in 1 .. 8 |-> IF bs[k] = 1 THEN "1" ELSE "0"] \o <<"1">>
    BY DEF Bytewise
  <2>2. bs \in Seq(Bit) /\ Len(bs) = 8 /\ bits = bs \o << 1 >>
    OBVIOUS
  <2>3. y = [k \in 1 .. 8 |-> IF bs[k] = 1 THEN "1" ELSE "0"] \o <<"1">>
    BY ONLY <2>2, Nine
  <2> QED  BY ONLY <2>1, <2>3
<1>3. Adds(e, WriteSeq(old, bits), y, Sym(bits[9]), 3 * 9, 0)
  <2>1. y = [k \in 1 .. 9 |-> Sym(bits[k])] /\ 9 \in Nat \ {0}
    OBVIOUS
  <2> HIDE DEF y
  <2> QED  BY <1>1, <2>1, SeqOn
<1>4. Sym(bits[9]) = "1" /\ 3 * 9 = 27
  BY <1>1 DEF Sym
<1> QED
  BY <1>2, <1>3, <1>4

\* The address of a chip and the direction are a byte.
LEMMA AddressOn ==
  ASSUME NEW addr \in 0 .. 127, NEW type \in Bit
  PROVE  Adds("S", Address(addr, type), Bytewise((2 * addr) + type), "1", 27, 0)
<1> DEFINE v == (2 * addr) + type
           ba == BitsOf(addr, 7)
           bs == BitsOf(v, 8)
           ca == ba \o <<type, 1>>
           bits == bs \o << 1 >>
<1>1. v \in Nat /\ addr \in Nat
  BY DEF Bit
<1>2. ba \in Seq(Bit) /\ Len(ba) = 7 /\ bs \in Seq(Bit) /\ Len(bs) = 8
  <2> HIDE DEF v
  <2> QED  BY <1>1, BitsType
<1>3. \A k \in 1 .. 7 : ba[k] = bs[k]
  <2>1. \A k \in 1 .. 7 : ba[k] = (addr \div (2 ^ (7 - k))) % 2 /\ bs[k] = (v \div (2 ^ (8 - k))) % 2
    BY DEF BitsOf
  <2>2. /\ addr \div 1 = v \div 2 /\ addr \div 2 = v \div 4 /\ addr \div 4 = v \div 8
        /\ addr \div 8 = v \div 16 /\ addr \div 16 = v \div 32 /\ addr \div 32 = v \div 64
        /\ addr \div 64 = v \div 128
    BY <1>1 DEF Bit
  <2> HIDE DEF ba, bs, v
  <2>4. ASSUME NEW k \in 1 .. 7  PROVE addr \div (2 ^ (7 - k)) = v \div (2 ^ (8 - k))
    <3> DEFINE i == 7 - k
               j == 8 - k
    <3>2. i \in 0 .. 6 /\ j = i + 1
      OBVIOUS
    <3> HIDE DEF i, j
    <3>4. i = 0 \/ i = 1 \/ i = 2 \/ i = 3 \/ i = 4 \/ i = 5 \/ i = 6
      BY ONLY <3>2
    <3>3. addr \div (2 ^ i) = v \div (2 ^ j)
      BY <2>2, <3>2, <3>4, Powers
    <3> QED  BY <3>3 DEF i, j
  <2> QED  BY <2>1, <2>4
<1>4. bs[8] = type
  <2>1. bs[8] = (v \div (2 ^ (8 - 8))) % 2
    BY DEF BitsOf
  <2>2. 8 - 8 = 0 /\ v \div 1 = v /\ v % 2 = type
    BY <1>1 DEF Bit
  <2> HIDE DEF bs, v
  <2> QED  BY <2>1, <2>2, Powers
<1> HIDE DEF ba, bs
<1>5. ca \in Seq(Bit) /\ Len(ca) = 9 /\ ca[8] = type /\ ca[9] = 1 /\ \A k \in 1 .. 7 : ca[k] = ba[k]
  <2> DEFINE a == ba \o <<type>>
             b == a \o << 1 >>
  <2>1. 1 \in Bit
    BY DEF Bit
  <2>2. ca = b
    <3>1. ca = Append(Append(ba, type), 1)
      BY <1>2, <2>1, Appended2
    <3>2. a = Append(ba, type) /\ Append(ba, type) \in Seq(Bit)
      BY <1>2, Appended
    <3>3. b = Append(Append(ba, type), 1)
      BY <2>1, <3>2, Appended
    <3> QED  BY <3>1, <3>3
  <2>6. After(a, ba, <<type>>) /\ After(b, a, << 1 >>)
    BY DEF After
  <2> HIDE DEF a, b
  <2>3. a \in Seq(Bit) /\ Len(a) = 8 /\ a[8] = type /\ \A k \in 1 .. 7 : a[k] = ba[k]
    BY <1>2, <2>6, Eighth
  <2>4. b \in Seq(Bit) /\ Len(b) = 9 /\ b[9] = 1 /\ \A k \in 1 .. 8 : b[k] = a[k]
    BY <2>1, <2>3, <2>6, Ninth
  <2>5. 8 \in 1 .. 8 /\ \A k \in 1 .. 7 : k \in 1 .. 8
    OBVIOUS
  <2> HIDE DEF b
  <2> QED  BY <2>2, <2>3, <2>4, <2>5
<1>6. bits \in Seq(Bit) /\ Len(bits) = 9 /\ bits[9] = 1 /\ \A k \in 1 .. 8 : bits[k] = bs[k]
  <2>1. 1 \in Bit
    BY DEF Bit
  <2>2. After(bits, bs, << 1 >>)
    BY DEF After
  <2> HIDE DEF bits
  <2> QED  BY ONLY <1>2, <2>1, <2>2, Ninth
<1> HIDE DEF ca, bits
<1>7. \A k \in 1 .. 9 : ca[k] = bits[k]
  <2>1. \A k \in 1 .. 9 : k = 9 \/ k = 8 \/ k \in 1 .. 7
    OBVIOUS
  <2>2. \A k \in 1 .. 7 : k \in 1 .. 8
    OBVIOUS
  <2>3. 8 \in 1 .. 8
    OBVIOUS
  <2> QED  BY <1>3, <1>4, <1>5, <1>6, <2>1, <2>2, <2>3
<1>8. ca = bits
  <2>1. ca = [k \in 1 .. 9 |-> ca[k]] /\ bits = [k \in 1 .. 9 |-> bits[k]]
    BY <1>5, <1>6
  <2> QED  BY <1>7, <2>1
<1>9. Address(addr, type) = WriteSeq(0, bits)
  BY <1>8 DEF Address, ca, ba
<1>10. 0 \in Bit /\ 0 # Level("S")
  BY DEF Bit, Level
<1>11. BitsOf(v, 8) = bs /\ bits = bs \o << 1 >>
  BY DEF bs, bits
<1> HIDE DEF v
<1>12. Adds("S", WriteSeq(0, bits), Bytewise(v), "1", 27, 0)
  BY ONLY <1>1, <1>2, <1>10, <1>11, ByteOn
<1> QED
  BY <1>9, <1>12 DEF v

-----------------------------------------------------------------------------
\* Rows of k words each, that race d times from the second on
Row(xs, N) == xs = [i \in 1 .. N |-> xs[i]]
LEMMA AddsRow ==
  ASSUME NEW N \in Nat \ {0}, NEW xs, Row(xs, N), NEW ys, Row(ys, N), NEW e, NEW es,
         NEW k \in Nat, NEW d1 \in Nat, NEW d \in Nat,
         Adds(e, xs[1], ys[1], es[1], k, d1),
         \A i \in 2 .. N : Adds(es[i-1], xs[i], ys[i], es[i], k, d)
  PROVE  Adds(e, FlattenSeq(xs), FlattenSeq(ys), es[N], k * N, d1 + (d * (N - 1)))
<1> DEFINE Ks == [i \in 1 .. N |-> k * i]
           Rs == [i \in 1 .. N |-> d1 + (d * (i - 1))]
           ds == [i \in 1 .. N |-> d]
<1>1. 1 \in 1 .. N /\ N \in 1 .. N
  OBVIOUS
<1>2. Ks[1] = k /\ Ks[N] = k * N /\ Rs[1] = d1 /\ Rs[N] = d1 + (d * (N - 1))
  BY <1>1
<1>3. ASSUME NEW i \in 2 .. N
      PROVE  Plus(Ks[i], Ks[i-1], k) /\ Plus(Rs[i], Rs[i-1], d) /\ ds[i] = d
  <2>1. i \in 1 .. N /\ i - 1 \in 1 .. N
    OBVIOUS
  <2>2. Ks[i] = k * i /\ Ks[i-1] = k * (i - 1) /\ k * i = (k * (i - 1)) + k
    BY <2>1
  <2>3. Rs[i] = d1 + (d * (i - 1)) /\ Rs[i-1] = d1 + (d * ((i - 1) - 1)) /\ ds[i] = d
    BY <2>1
  <2>4. d * (i - 1) = (d * ((i - 1) - 1)) + d
    BY <2>1
  <2>5. d * (i - 1) \in Int /\ d * ((i - 1) - 1) \in Int /\ k * (i - 1) \in Int
    BY <2>1
  <2> HIDE DEF Ks, Rs, ds
  <2> QED  BY <2>2, <2>3, <2>4, <2>5 DEF Plus
<1> HIDE DEF Ks, Rs, ds
<1>4. \A i \in 1 .. N : xs[i] \in Seq(ProgramWord) /\ ys[i] \in Seq(Signal)
  <2> SUFFICES ASSUME NEW i \in 1 .. N  PROVE xs[i] \in Seq(ProgramWord) /\ ys[i] \in Seq(Signal)
    OBVIOUS
  <2>1. CASE i = 1
    BY <2>1 DEF Adds
  <2>2. CASE i # 1
    <3>1. i \in 2 .. N
      BY <2>2
    <3> QED  BY <3>1 DEF Adds
  <2> QED  BY <2>1, <2>2
<1>5. xs \in Seq(Seq(ProgramWord)) /\ Len(xs) = N /\ ys \in Seq(Seq(Signal)) /\ Len(ys) = N
  <2>1. xs \in [1 .. N -> Seq(ProgramWord)] /\ ys \in [1 .. N -> Seq(Signal)]
    BY <1>4 DEF Row
  <2>2. N \in Nat
    OBVIOUS
  <2> QED  BY ONLY <2>1, <2>2
<1>6. /\ Adds(e, xs[1], ys[1], es[1], Ks[1], Rs[1])
      /\ \A i \in 2 .. N : /\ Adds(es[i-1], xs[i], ys[i], es[i], k, ds[i])
                           /\ Plus(Ks[i], Ks[i-1], k) /\ Plus(Rs[i], Rs[i-1], ds[i])
  BY <1>2, <1>3
<1>7. N \in Nat \ {0} /\ k \in Nat
  OBVIOUS
<1>8. Adds(e, FlattenSeq(xs), FlattenSeq(ys), es[N], Ks[N], Rs[N])
  BY ONLY <1>5, <1>6, <1>7, AddsAll
<1> QED
  BY <1>2, <1>8

\* Nothing in a row
LEMMA NoRow ==
  ASSUME NEW xs, Row(xs, 0)
  PROVE  FlattenSeq(xs) = <<>>
<1>1. xs = <<>>
  BY DEF Row
<1> QED
  BY <1>1 DEF FlattenSeq

\* The bytes of a write
LEMMA BytesOn ==
  ASSUME NEW value \in Seq(0 .. 255),
         NEW ys, ys = [n \in DOMAIN value |-> Bytewise(value[n])]
  PROVE  Adds("1", Bytes(value), FlattenSeq(ys), "1", 27 * Len(value), 0)
<1> DEFINE bits(n) == BitsOf(value[n], 8) \o << 1 >>
           N == Len(value)
           xs == [n \in DOMAIN value |-> WriteSeq(1, bits(n))]
           es == [n \in 1 .. N |-> "1"]
<1>1. N \in Nat /\ DOMAIN value = 1 .. N
  OBVIOUS
<1>2. Bytes(value) = FlattenSeq(xs)
  BY DEF Bytes
<1>3. Row(xs, N) /\ Row(ys, N)
  BY <1>1 DEF Row
<1>4. ASSUME NEW n \in 1 .. N  PROVE Adds("1", xs[n], ys[n], "1", 27, 0)
  <2> DEFINE v == value[n]
             bs == BitsOf(v, 8)
             bb == bs \o << 1 >>
  <2>1. v \in Nat
    <3>1. value[n] \in 0 .. 255
      BY ElementOfSeq
    <3>2. \A x \in 0 .. 255 : x \in Nat
      OBVIOUS
    <3> QED  BY ONLY <3>1, <3>2
  <2>2. xs[n] = WriteSeq(1, bb) /\ ys[n] = Bytewise(v)
    BY <1>1
  <2> HIDE DEF v
  <2>3. bs \in Seq(Bit) /\ Len(bs) = 8 /\ BitsOf(v, 8) = bs /\ bb = bs \o << 1 >>
    BY <2>1, BitsType
  <2>4. 1 \in Bit /\ 1 # Level("1")
    BY DEF Bit, Level
  <2> HIDE DEF bs, bb
  <2>5. Adds("1", WriteSeq(1, bb), Bytewise(v), "1", 27, 0)
    BY ONLY <2>1, <2>3, <2>4, ByteOn
  <2> HIDE DEF xs
  <2> QED  BY ONLY <2>2, <2>5
<1>5. CASE N = 0
  <2>1. FlattenSeq(xs) = <<>> /\ FlattenSeq(ys) = <<>>
    <3> HIDE DEF xs, N
    <3> QED  BY <1>3, <1>5, NoRow
  <2> HIDE DEF xs
  <2>2. Adds("1", <<>>, <<>>, "1", 0, 0) /\ 27 * N = 0
    BY <1>5, AddsNone
  <2> HIDE DEF N
  <2>3. Adds("1", Bytes(value), FlattenSeq(ys), "1", 27 * N, 0)
    BY <1>2, <2>1, <2>2
  <2> QED  BY <2>3 DEF N
<1>6. CASE N # 0
  <2>1. \A n \in 1 .. N : es[n] = "1"
    OBVIOUS
  <2>2. \A n \in 2 .. N : n \in 1 .. N /\ n - 1 \in 1 .. N
    OBVIOUS
  <2>3. 1 \in 1 .. N /\ N \in 1 .. N /\ N \in Nat \ {0}
    BY <1>1, <1>6
  <2> HIDE DEF xs, es, N
  <2>4. /\ Adds("1", xs[1], ys[1], es[1], 27, 0)
        /\ \A n \in 2 .. N : Adds(es[n-1], xs[n], ys[n], es[n], 27, 0)
    BY <1>4, <2>1, <2>2, <2>3
  <2>5. Adds("1", FlattenSeq(xs), FlattenSeq(ys), es[N], 27 * N, 0 + (0 * (N - 1)))
    <3>1. 27 \in Nat /\ 0 \in Nat
      OBVIOUS
    <3> QED  BY ONLY <1>3, <2>3, <2>4, <3>1, AddsRow
  <2>6. 0 + (0 * (N - 1)) = 0
    BY <2>3
  <2>7. es[N] = "1"
    BY <2>1, <2>3
  <2>8. Adds("1", Bytes(value), FlattenSeq(ys), "1", 27 * N, 0)
    BY <1>2, <2>5, <2>6, <2>7
  <2> QED  BY <2>8 DEF N
<1> QED
  BY <1>5, <1>6

-----------------------------------------------------------------------------
\* A byte read, and its acknowledgement
LEMMA ReadByteOn ==
  ASSUME NEW e \in {"0", "1"}, NEW last \in BOOLEAN, NEW b, b = (IF last THEN "1" ELSE "0"),
         NEW a, a = [k \in 1 .. 8 |-> "read"]
  PROVE  Adds(e, ReadByte(last), a \o <<b>>, b, 35, IF e = "0" THEN 1 ELSE 0)
<1> DEFINE N == 8
           xs == [k \in 1 .. 8 |-> Sample]
           ys == [k \in 1 .. N |-> <<a[k]>>]
           es == [k \in 1 .. N |-> "read"]
           bit == IF last THEN 1 ELSE 0
           d == IF e = "0" THEN 1 ELSE 0
           fx == FlattenSeq(xs)
           fy == FlattenSeq(ys)
<1>1. N \in Nat \ {0} /\ 1 \in 1 .. N /\ N \in 1 .. N
  OBVIOUS
<1>2. \A k \in 1 .. N : xs[k] = Sample /\ ys[k] = <<"read">> /\ es[k] = "read"
  OBVIOUS
<1>3. \A k \in 2 .. N : k \in 1 .. N /\ k - 1 \in 1 .. N
  BY <1>1
<1>4. Adds(e, Sample, <<"read">>, "read", 4, d)
  <2>1. (IF Level(e) = 1 THEN 1 ELSE 0) = d
    BY DEF Level
  <2> HIDE DEF d
  <2> QED  BY <2>1, AddsSample
<1>5. Adds("read", Sample, <<"read">>, "read", 4, 0)
  <2>1. Level("read") = 0
    BY DEF Level
  <2>2. Adds("read", Sample, <<"read">>, "read", 4, IF Level("read") = 1 THEN 1 ELSE 0)
    BY AddsSample
  <2> QED  BY <2>1, <2>2
<1>6. Row(xs, N) /\ Row(ys, N) /\ Apart(ys, a, N)
  BY DEF Row, Apart
<1>7. a \in Seq(Signal) /\ Len(a) = N
  <2>1. a \in [1 .. N -> Signal]
    BY DEF Signal
  <2> HIDE DEF N
  <2> QED  BY ONLY <1>1, <2>1
<1>8. d \in Nat /\ 4 \in Nat /\ 0 \in Nat
  OBVIOUS
<1> HIDE DEF xs, ys, es, d
<1>9. fy = a
  <2> HIDE DEF N
  <2> QED  BY ONLY <1>1, <1>6, <1>7, Singles
<1>10. Adds(e, fx, fy, "read", 32, d)
  <2>1. /\ Adds(e, xs[1], ys[1], es[1], 4, d)
        /\ \A k \in 2 .. N : Adds(es[k-1], xs[k], ys[k], es[k], 4, 0)
    <3> HIDE DEF N
    <3> QED  BY <1>1, <1>2, <1>3, <1>4, <1>5
  <2>2. 4 * N = 32 /\ d + (0 * (N - 1)) = d /\ es[N] = "read"
    BY <1>1, <1>2, <1>8
  <2>3. Adds(e, fx, fy, es[N], 4 * N, d + (0 * (N - 1)))
    <3> HIDE DEF N
    <3> QED  BY ONLY <1>1, <1>6, <1>8, <2>1, AddsRow
  <2> HIDE DEF N, fx, fy
  <2> QED  BY <2>2, <2>3
<1>11. bit \in Bit /\ Sym(bit) = b /\ 1 \in Bit
  BY DEF Bit, Sym
<1> HIDE DEF bit
<1>12. Adds("read", writebits(1, bit), <<b>>, b, 3, 0)
  <2>1. Level("read") # 1
    BY DEF Level
  <2>2. Adds("read", writebits(1, bit), <<Sym(bit)>>, Sym(bit), 3,
             IF 1 = Level("read") THEN 1 ELSE 0)
    BY <1>11, AddsBit
  <2> QED  BY <1>11, <2>1, <2>2
<1>13. /\ After(fx \o writebits(1, bit), fx, writebits(1, bit)) /\ After(fy \o <<b>>, fy, <<b>>)
       /\ Plus(35, 32, 3) /\ Plus(d, d, 0)
  BY <1>8 DEF After, Plus
<1> HIDE DEF fx, fy
<1>14. Adds(e, fx \o writebits(1, bit), fy \o <<b>>, b, 35, d)
  BY ONLY <1>10, <1>12, <1>13, AddsBoth
<1>15. ReadByte(last) = fx \o writebits(1, bit)
  BY DEF ReadByte, fx, xs, Sample, bit
<1> QED
  BY <1>9, <1>14, <1>15 DEF d

\* The bytes of a read
LEMMA ReadsOn ==
  ASSUME NEW N \in Nat \ {0}, NEW xs, xs = [n \in 1 .. N |-> ReadByte(n = N)],
         NEW ys, ys = [n \in 1 .. N |-> [k \in 1 .. 8 |-> "read"]
                                         \o <<IF n = N THEN "1" ELSE "0">>]
  PROVE  Adds("1", FlattenSeq(xs), FlattenSeq(ys), "1", 35 * N, N - 1)
<1> DEFINE es == [n \in 1 .. N |-> IF n = N THEN "1" ELSE "0"]
           a == [k \in 1 .. 8 |-> "read"]
<1>1. 1 \in 1 .. N /\ N \in 1 .. N
  OBVIOUS
<1>2. ASSUME NEW n \in 1 .. N, NEW e \in {"0", "1"}
      PROVE  Adds(e, xs[n], ys[n], es[n], 35, IF e = "0" THEN 1 ELSE 0)
  <2> DEFINE last == n = N
             b == es[n]
  <2>1. xs[n] = ReadByte(last) /\ ys[n] = a \o <<b>> /\ b = (IF last THEN "1" ELSE "0")
        /\ last \in BOOLEAN /\ a = [k \in 1 .. 8 |-> "read"]
    OBVIOUS
  <2> HIDE DEF last, es, a
  <2>2. Adds(e, ReadByte(last), a \o <<b>>, b, 35, IF e = "0" THEN 1 ELSE 0)
    <3> HIDE DEF b
    <3>1. e \in {"0", "1"}
      OBVIOUS
    <3> QED  BY ONLY <2>1, <3>1, ReadByteOn
  <2> QED  BY <2>1, <2>2
<1>3. Adds("1", xs[1], ys[1], es[1], 35, 0)
  <2>1. "1" \in {"0", "1"} /\ "1" # "0"
    OBVIOUS
  <2> HIDE DEF es
  <2>2. Adds("1", xs[1], ys[1], es[1], 35, IF "1" = "0" THEN 1 ELSE 0)
    BY <1>1, <1>2, <2>1
  <2> QED  BY <2>1, <2>2
<1>4. ASSUME NEW n \in 2 .. N  PROVE Adds(es[n-1], xs[n], ys[n], es[n], 35, 1)
  <2>1. n \in 1 .. N /\ es[n-1] = "0" /\ "0" \in {"0", "1"}
    OBVIOUS
  <2> HIDE DEF es
  <2>2. Adds("0", xs[n], ys[n], es[n], 35, IF "0" = "0" THEN 1 ELSE 0)
    BY <1>2, <2>1
  <2> QED  BY <2>1, <2>2
<1>5. Row(xs, N) /\ Row(ys, N)
  BY DEF Row
<1>6. es[N] = "1" /\ 0 + (1 * (N - 1)) = N - 1
  BY <1>1
<1> HIDE DEF es
<1>7. Adds("1", FlattenSeq(xs), FlattenSeq(ys), es[N], 35 * N, 0 + (1 * (N - 1)))
  <2>1. N \in Nat \ {0} /\ 35 \in Nat /\ 0 \in Nat /\ 1 \in Nat
    OBVIOUS
  <2> QED  BY ONLY <1>3, <1>4, <1>5, <2>1, AddsRow
<1> QED
  BY <1>6, <1>7

-----------------------------------------------------------------------------
LEMMA AddsOn ==
  ASSUME NEW p, NEW v, NEW e, NEW r, NEW n, Told(p, v, e, r, n),
         NEW x, NEW y, NEW e2, NEW k, NEW d, Adds(e, x, y, e2, k, d),
         NEW m, Plus(m, n, k), NEW s, Plus(s, r, d)
  PROVE  Told(p \o x, v \o y, e2, s, m) /\ y \in Seq(Signal)
  BY DEF Adds, After

\* What a program begins with: on the driver's first transfer an empty one
LEMMA Opened ==
  ASSUME NEW first \in BOOLEAN,
         NEW n, n = (IF first THEN 4 ELSE 2), NEW v, v = (IF first THEN <<"S", "P">> ELSE <<>>)
  PROVE  /\ Free(begin_i2c \o (IF first THEN start_i2c(FALSE) \o stop_i2c(0) ELSE <<>>), v, 0, n)
         /\ v \in Seq(Signal)
<1> DEFINE p == begin_i2c
           a == start_i2c(FALSE)
           b == stop_i2c(0)
<1>1. Free(p, <<>>, 0, 2)
  BY Begin
<1>2. p \in Seq(ProgramWord)
  BY <1>1 DEF Free, Clean
<1>3. CASE ~first
  <2>1. p \o <<>> = p
    <3> HIDE DEF p
    <3> QED  BY <1>2
  <2>2. n = 2 /\ v = <<>> /\ <<>> \in Seq(Signal)
    BY <1>3
  <2> HIDE DEF p
  <2> QED  BY <1>1, <1>3, <2>1, <2>2 DEF p
<1>4. CASE first
  <2> DEFINE n3 == 3
             n4 == 4
             n2 == 2
             u == <<"S">>
  <2>1. Plus(n3, n2, 1) /\ Plus(n4, n3, 1) /\ Free(p, <<>>, 0, n2)
    BY <1>1 DEF Plus
  <2>2. After(u, <<>>, <<"S">>)
    <3>1. <<"S">> \in Seq(Signal)
      BY DEF Signal
    <3>2. <<>> \o <<"S">> = <<"S">>
      BY <3>1
    <3> QED  BY <3>2 DEF After
  <2>3. After(<<"S", "P">>, u, <<"P">>) /\ <<"S", "P">> \in Seq(Signal)
    <3>1. "S" \in Signal /\ "P" \in Signal /\ <<"S">> \in Seq(Signal)
      BY DEF Signal
    <3>2. <<"S">> \o <<"P">> = Append(<<"S">>, "P")
      BY <3>1, Appended
    <3>4. <<"S", "P">> \in Seq(Signal) /\ <<>> \in Seq(Signal)
      BY <3>1
    <3>3. Append(<<"S">>, "P") = <<"S", "P">>
      <4>1. <<>> \o <<"S", "P">> = Append(Append(<<>>, "S"), "P")
        BY <3>1, <3>4, Appended2
      <4>2. <<>> \o <<"S">> = Append(<<>>, "S")
        BY <3>1, <3>4, Appended
      <4>3. <<>> \o <<"S", "P">> = <<"S", "P">> /\ <<>> \o <<"S">> = <<"S">>
        BY <3>1, <3>4
      <4> QED  BY <4>1, <4>2, <4>3
    <3> QED  BY <3>2, <3>3, <3>4 DEF After
  <2>4. After(p \o a, p, a) /\ After((p \o a) \o b, p \o a, b)
    BY DEF After
  <2> HIDE DEF n2, n3, n4, u, a, b, p
  <2>5. Told(p \o a, u, "S", 0, n3)
    BY ONLY <2>1, <2>2, <2>4, StartOn DEF a
  <2>6. Free((p \o a) \o b, <<"S", "P">>, 0, n4)
    BY ONLY <2>1, <2>3, <2>4, <2>5, EmptyOn DEF b
  <2>7. (p \o a) \o b = p \o (a \o b)
    <3>1. a \in Seq(ProgramWord) /\ b \in Seq(ProgramWord)
      <4>1. Word(0, 1, 0) \in ProgramWord /\ Word(0, 0, 0) \in ProgramWord
        BY AllWords DEF Bit
      <4>2. <<Word(0, 1, 0)>> \in Seq(ProgramWord) /\ <<Word(0, 0, 0)>> \in Seq(ProgramWord)
            /\ <<>> \in Seq(ProgramWord)
        BY <4>1
      <4>3. /\ a = <<>> \o <<Word(0, 1, 0)>>
            /\ b = <<>> \o <<Word(0, 0, 0)>>
        BY DEF a, b, start_i2c, stop_i2c
      <4> QED  BY <4>2, <4>3, ConcatProperties
    <3> QED  BY ONLY <1>2, <3>1, ConcatAssociative
  <2>8. n = n4 /\ v = <<"S", "P">>
    BY <1>4 DEF n4
  <2>9. Free(p \o (a \o b), v, 0, n)
    BY <2>6, <2>7, <2>8
  <2> QED  BY <1>4, <2>3, <2>8, <2>9 DEF a, b, p
<1> QED
  BY <1>3, <1>4

\* What both kinds of transfer begin with
LEMMA WrittenLow ==
  ASSUME NEW first \in BOOLEAN, NEW w, w \in [addr : 0 .. 127, value : Seq(0 .. 255), read : Nat],
         NEW v, v = (IF first THEN <<"S", "P">> ELSE <<>>),
         NEW b, b = Bytewise(2 * w.addr),
         NEW f, f = FlattenSeq([n \in DOMAIN w.value |-> Bytewise(w.value[n])]),
         NEW m, m = (IF first THEN 4 ELSE 2) + 29 + (27 * Len(w.value))
  PROVE  /\ Low(Written(first, w), ((v \o <<"S">>) \o b) \o f, 0, m)
         /\ v \in Seq(Signal) /\ b \in Seq(Signal) /\ f \in Seq(Signal)
<1> DEFINE n == IF first THEN 4 ELSE 2
           p1 == begin_i2c \o (IF first THEN start_i2c(FALSE) \o stop_i2c(0) ELSE <<>>)
           p2 == p1 \o start_i2c(FALSE)
           p3 == p2 \o Address(w.addr, 0)
           p4 == p3 \o Bytes(w.value)
           p5 == p4 \o <<Word(0, 0, 1)>>
           n2 == n + 1
           n3 == n + 28
           n4 == n + 28 + (27 * Len(w.value))
           ys == [k \in DOMAIN w.value |-> Bytewise(w.value[k])]
           L == Len(w.value)
<1>1. w.addr \in 0 .. 127 /\ w.value \in Seq(0 .. 255) /\ L \in Nat /\ n \in Nat
  OBVIOUS
<1>2. Free(p1, v, 0, n) /\ v \in Seq(Signal)
  BY Opened
<1>3. Written(first, w) = p5
  BY DEF Written
<1>4. Adds("S", Address(w.addr, 0), b, "1", 27, 0)
  <2>1. 0 \in Bit /\ (2 * w.addr) + 0 = 2 * w.addr
    <3>1. 0 \in Bit
      BY DEF Bit
    <3>2. \A x \in 0 .. 127 : (2 * x) + 0 = 2 * x
      OBVIOUS
    <3> QED  BY ONLY <1>1, <3>1, <3>2
  <2>2. Adds("S", Address(w.addr, 0), Bytewise((2 * w.addr) + 0), "1", 27, 0)
    BY ONLY <1>1, <2>1, AddressOn
  <2> QED  BY <2>1, <2>2
<1>5. Adds("1", Bytes(w.value), f, "1", 27 * L, 0)
  <2>1. ys = [k \in DOMAIN w.value |-> Bytewise(w.value[k])]
    OBVIOUS
  <2>2. f = FlattenSeq(ys)
    OBVIOUS
  <2> HIDE DEF ys
  <2>3. Adds("1", Bytes(w.value), FlattenSeq(ys), "1", 27 * Len(w.value), 0)
    BY ONLY <1>1, <2>1, BytesOn
  <2> QED  BY <2>2, <2>3
<1>6. /\ Plus(n2, n, 1) /\ Plus(n3, n2, 27) /\ Plus(n4, n3, 27 * L) /\ Plus(m, n4, 1)
      /\ Plus(0, 0, 0)
  <2> HIDE DEF n, L
  <2>1. 27 * L \in Nat
    BY <1>1
  <2> QED  BY <1>1, <2>1 DEF Plus, n, L
<1>7. After(p2, p1, start_i2c(FALSE)) /\ After(p5, p4, <<Word(0, 0, 1)>>)
      /\ After(v \o <<"S">>, v, <<"S">>)
  BY DEF After
<1> HIDE DEF n, p1, n2, n3, n4, ys, L, p5
<1>8. Told(p2, v \o <<"S">>, "S", 0, n2)
  <2> HIDE DEF p2
  <2> QED  BY ONLY <1>2, <1>6, <1>7, StartOn
<1>9. Told(p3, (v \o <<"S">>) \o b, "1", 0, n3) /\ b \in Seq(Signal)
  <2> HIDE DEF p2
  <2> QED  BY ONLY <1>4, <1>6, <1>8, AddsOn
<1>10. Told(p4, ((v \o <<"S">>) \o b) \o f, "1", 0, n4) /\ f \in Seq(Signal)
  <2> HIDE DEF p3
  <2> QED  BY ONLY <1>5, <1>6, <1>9, AddsOn
<1> HIDE DEF p4
<1>11. Low(p5, ((v \o <<"S">>) \o b) \o f, 0, m)
  BY ONLY <1>6, <1>7, <1>10, FallOn
<1> QED
  BY <1>2, <1>3, <1>9, <1>10, <1>11

-----------------------------------------------------------------------------
\* The same row of three sequences, the other two joined first
LEMMA Regroup ==
  ASSUME NEW S, NEW v \in Seq(S), NEW a \in Seq(S), NEW b \in Seq(S),
         NEW z, After(z, a, b), NEW y, After(y, v, a), NEW l, After(l, v, z)
  PROVE  After(l, y, b)
<1>1. v \o (a \o b) = (v \o a) \o b
  BY ConcatAssociative
<1> QED
  BY <1>1 DEF After

\* Concatenations by their parts, named so that a lemma can ask for one
Three(x, a, b, c) == x = (a \o b) \o c
Four(x, v, a, b, c) == x = ((v \o a) \o b) \o c
LEMMA Parts3 ==
  ASSUME NEW S, NEW v \in Seq(S), NEW a \in Seq(S), NEW b \in Seq(S), NEW c \in Seq(S),
         NEW x, Three(x, a, b, c), NEW y, Four(y, v, a, b, c)
  PROVE  After(y, v, x)
<1> DEFINE z == a \o b
<1>1. z \in Seq(S)
  BY ConcatProperties
<1>2. v \in Seq(S) /\ a \in Seq(S) /\ b \in Seq(S) /\ c \in Seq(S)
  OBVIOUS
<1>3. v \o z = (v \o a) \o b
  <2> DEFINE y1 == v \o a
             l == v \o z
  <2>1. After(z, a, b) /\ After(y1, v, a) /\ After(l, v, z)
    BY DEF After
  <2> HIDE DEF z, y1, l
  <2>2. After(l, y1, b)
    BY ONLY <1>2, <2>1, Regroup
  <2> QED  BY ONLY <2>2 DEF After, l, y1
<1>4. x = z \o c /\ y = ((v \o a) \o b) \o c
  BY DEF Three, Four
<1> HIDE DEF z
<1>5. v \o (z \o c) = (v \o z) \o c
  <2> DEFINE z1 == z \o c
             y1 == v \o z
             l == v \o z1
  <2>1. After(z1, z, c) /\ After(y1, v, z) /\ After(l, v, z1)
    BY DEF After
  <2> HIDE DEF z1, y1, l
  <2>2. After(l, y1, c)
    BY ONLY <1>1, <1>2, <2>1, Regroup
  <2> QED  BY ONLY <2>2 DEF After, l, y1, z1
<1>6. y = (v \o z) \o c
  BY ONLY <1>3, <1>4
<1> QED
  BY ONLY <1>4, <1>5, <1>6 DEF After

LEMMA Parts4 ==
  ASSUME NEW S, NEW v \in Seq(S), NEW a \in Seq(S), NEW b \in Seq(S), NEW c \in Seq(S),
         NEW d \in Seq(S)
  PROVE  v \o (((a \o b) \o c) \o d) = (((v \o a) \o b) \o c) \o d
<1> DEFINE x == (a \o b) \o c
<1>1. a \o b \in Seq(S)
  BY ConcatProperties
<1>2. x \in Seq(S)
  BY <1>1, ConcatProperties
<1>3. v \in Seq(S) /\ a \in Seq(S) /\ b \in Seq(S) /\ c \in Seq(S) /\ d \in Seq(S)
  OBVIOUS
<1>4. v \o x = ((v \o a) \o b) \o c
  <2>1. v \in Seq(S) /\ a \in Seq(S) /\ b \in Seq(S) /\ c \in Seq(S)
    OBVIOUS
  <2> DEFINE y == ((v \o a) \o b) \o c
  <2>2. Three(x, a, b, c) /\ Four(y, v, a, b, c)
    BY DEF Three, Four
  <2> HIDE DEF x, y
  <2>3. After(y, v, x)
    BY ONLY <2>1, <2>2, Parts3
  <2> QED  BY ONLY <2>3 DEF After, y
<1> HIDE DEF x
<1>5. v \o (x \o d) = (v \o x) \o d
  <2> DEFINE z1 == x \o d
             y1 == v \o x
             l == v \o z1
  <2>1. After(z1, x, d) /\ After(y1, v, x) /\ After(l, v, z1)
    BY DEF After
  <2> HIDE DEF z1, y1, l
  <2>2. v \in Seq(S) /\ d \in Seq(S)
    OBVIOUS
  <2>3. After(l, y1, d)
    BY ONLY <1>2, <2>1, <2>2, Regroup
  <2> QED  BY ONLY <2>3 DEF After, l, y1, z1
<1> QED
  BY ONLY <1>4, <1>5 DEF x

\* A free bus after a whole program
LEMMA Ended ==
  ASSUME NEW p, NEW v, NEW r, NEW n, Free(p, v, r, n)
  PROVE  Signals(p) = v /\ Len(p) = n /\ Races(p, 1) = 0 /\ Races(p, 0) = r
  BY DEF Free, Clean

\* A write
LEMMA WriteEnds ==
  ASSUME NEW first \in BOOLEAN, NEW w, w \in [addr : 0 .. 127, value : Seq(0 .. 255), read : Nat],
         NEW v, v = (IF first THEN <<"S", "P">> ELSE <<>>),
         NEW b, b = Bytewise(2 * w.addr),
         NEW f, f = FlattenSeq([n \in DOMAIN w.value |-> Bytewise(w.value[n])]),
         NEW n, n = (IF first THEN 4 ELSE 2) + 32 + (27 * Len(w.value))
  PROVE  /\ Free(blockwrite(first, w), v \o (((<<"S">> \o b) \o f) \o <<"P">>), 0, n)
         /\ v \in Seq(Signal) /\ b \in Seq(Signal) /\ f \in Seq(Signal)
<1> DEFINE m == (IF first THEN 4 ELSE 2) + 29 + (27 * Len(w.value))
           p == Written(first, w)
           u == ((v \o <<"S">>) \o b) \o f
           q == p \o stop_i2c(1)
<1>1. Low(p, u, 0, m) /\ v \in Seq(Signal) /\ b \in Seq(Signal) /\ f \in Seq(Signal)
  BY WrittenLow
<1>2. Plus(n, m, 3)
  <2>1. w.value \in Seq(0 .. 255)
    OBVIOUS
  <2> DEFINE L == Len(w.value)
             k == IF first THEN 4 ELSE 2
  <2>2. L \in Nat /\ k \in Nat
    BY <2>1
  <2>3. n = k + 32 + (27 * L) /\ m = k + 29 + (27 * L)
    OBVIOUS
  <2> HIDE DEF L, k, m
  <2> QED  BY ONLY <2>2, <2>3 DEF Plus
<1>3. After(q, p, stop_i2c(1)) /\ After(u \o <<"P">>, u, <<"P">>)
  BY DEF After
<1> HIDE DEF m, p, q, u
<1>4. Free(q, u \o <<"P">>, 0, n)
  BY ONLY <1>1, <1>2, <1>3, StopOn
<1>5. q = blockwrite(first, w)
  BY DEF blockwrite, p, q
<1>6. v \o (((<<"S">> \o b) \o f) \o <<"P">>) = u \o <<"P">>
  <2>1. <<"S">> \in Seq(Signal) /\ <<"P">> \in Seq(Signal)
    BY DEF Signal
  <2>2. v \in Seq(Signal) /\ b \in Seq(Signal) /\ f \in Seq(Signal)
    BY <1>1
  <2>3. v \o (((<<"S">> \o b) \o f) \o <<"P">>) = (((v \o <<"S">>) \o b) \o f) \o <<"P">>
    BY ONLY <2>1, <2>2, Parts4
  <2> QED  BY <2>3 DEF u
<1> QED
  BY <1>1, <1>4, <1>5, <1>6

\* A read, by the pieces of what it tells, in n words
Pieces(first, w, v, b, f, b2, g, n) ==
  /\ v = (IF first THEN <<"S", "P">> ELSE <<>>)
  /\ b = Bytewise(2 * w.addr)
  /\ f = FlattenSeq([i \in DOMAIN w.value |-> Bytewise(w.value[i])])
  /\ b2 = Bytewise((2 * w.addr) + 1)
  /\ g = FlattenSeq([i \in 1 .. w.read |->
           [k \in 1 .. 8 |-> "read"] \o <<IF i = w.read THEN "1" ELSE "0">>])
  /\ n = (IF first THEN 4 ELSE 2) + 62 + (27 * Len(w.value)) + (35 * w.read)
LEMMA ReadEnds ==
  ASSUME NEW first \in BOOLEAN, NEW w, w \in [addr : 0 .. 127, value : Seq(0 .. 255), read : Nat],
         w.read # 0, NEW v, NEW b, NEW f, NEW b2, NEW g, NEW n, Pieces(first, w, v, b, f, b2, g, n)
  PROVE  /\ Free(blockread(first, w),
                 v \o ((((<<"S">> \o b) \o f) \o ((<<"S">> \o b2) \o g)) \o <<"P">>), w.read - 1, n)
         /\ v \in Seq(Signal) /\ b \in Seq(Signal) /\ f \in Seq(Signal)
<1>0. /\ v = (IF first THEN <<"S", "P">> ELSE <<>>)
      /\ b = Bytewise(2 * w.addr)
      /\ f = FlattenSeq([i \in DOMAIN w.value |-> Bytewise(w.value[i])])
      /\ b2 = Bytewise((2 * w.addr) + 1)
      /\ g = FlattenSeq([i \in 1 .. w.read |->
               [k \in 1 .. 8 |-> "read"] \o <<IF i = w.read THEN "1" ELSE "0">>])
      /\ n = (IF first THEN 4 ELSE 2) + 62 + (27 * Len(w.value)) + (35 * w.read)
  BY DEF Pieces
<1> USE <1>0
<1> DEFINE k == IF first THEN 4 ELSE 2
           L == Len(w.value)
           R == w.read
           xs == [i \in 1 .. R |-> ReadByte(i = R)]
           ys == [i \in 1 .. R |-> [j \in 1 .. 8 |-> "read"] \o <<IF i = R THEN "1" ELSE "0">>]
           fx == FlattenSeq(xs)
           fall == <<Word(0, 0, 1)>>
           p == Written(first, w)
           p1 == p \o start_i2c(TRUE)
           p2 == p1 \o Address(w.addr, 1)
           p3 == p2 \o fx
           p4 == p3 \o fall
           p5 == p4 \o stop_i2c(1)
           m == (IF first THEN 4 ELSE 2) + 29 + (27 * Len(w.value))
           m1 == m + 2
           m2 == m1 + 27
           m3 == m2 + (35 * R)
           m4 == m3 + 1
           races == R - 1
           u == ((v \o <<"S">>) \o b) \o f
           u1 == u \o <<"S">>
           u2 == u1 \o b2
           u3 == u2 \o g
           u5 == u3 \o <<"P">>
<1>1. Low(p, u, 0, m) /\ v \in Seq(Signal) /\ b \in Seq(Signal) /\ f \in Seq(Signal)
  BY WrittenLow
<1>2. w.addr \in 0 .. 127 /\ w.value \in Seq(0 .. 255) /\ L \in Nat /\ k \in Nat /\ R \in Nat \ {0}
  OBVIOUS
<1>3. Adds("S", Address(w.addr, 1), b2, "1", 27, 0)
  <2>1. 1 \in Bit
    BY DEF Bit
  <2>2. b2 = Bytewise((2 * w.addr) + 1)
    OBVIOUS
  <2>3. Adds("S", Address(w.addr, 1), Bytewise((2 * w.addr) + 1), "1", 27, 0)
    BY ONLY <1>2, <2>1, AddressOn
  <2> QED  BY ONLY <2>2, <2>3
<1>4. Adds("1", fx, g, "1", 35 * R, races)
  <2>1. xs = [i \in 1 .. R |-> ReadByte(i = R)]
    OBVIOUS
  <2>2. ys = [i \in 1 .. R |-> [j \in 1 .. 8 |-> "read"] \o <<IF i = R THEN "1" ELSE "0">>]
    OBVIOUS
  <2>3. g = FlattenSeq(ys)
    OBVIOUS
  <2> HIDE DEF xs, ys, R
  <2>4. Adds("1", FlattenSeq(xs), FlattenSeq(ys), "1", 35 * R, R - 1)
    BY ONLY <1>2, <2>1, <2>2, ReadsOn
  <2> QED  BY ONLY <2>3, <2>4
<1>5. /\ Plus(m1, m, 2) /\ Plus(m2, m1, 27) /\ Plus(m3, m2, 35 * R) /\ Plus(m4, m3, 1)
      /\ Plus(n, m4, 3) /\ Plus(0, 0, 0) /\ Plus(races, 0, races)
  <2>1. n = k + 62 + (27 * L) + (35 * R) /\ m = k + 29 + (27 * L)
    OBVIOUS
  <2>2. 27 * L \in Nat /\ 35 * R \in Nat
    BY <1>2
  <2> HIDE DEF k, L, R, m
  <2> QED  BY ONLY <1>2, <2>1, <2>2 DEF Plus
<1>6. /\ After(p1, p, start_i2c(TRUE)) /\ After(u1, u, <<"S">>)
      /\ After(p4, p3, fall) /\ After(p5, p4, stop_i2c(1)) /\ After(u5, u3, <<"P">>)
  BY DEF After
<1>7. p5 = blockread(first, w)
  BY DEF blockread
<1> HIDE DEF k, L, R, xs, ys, p, p1, p4, p5, m, m1, m2, m3, m4, races, u, u1, u5
<1>8. Told(p1, u1, "S", 0, m1)
  BY ONLY <1>1, <1>5, <1>6, AgainOn
<1>9. Told(p2, u2, "1", 0, m2) /\ b2 \in Seq(Signal)
  BY ONLY <1>3, <1>5, <1>8, AddsOn
<1>10. Told(p3, u3, "1", races, m3) /\ g \in Seq(Signal)
  <2> HIDE DEF p2, u2, fx
  <2> QED  BY ONLY <1>4, <1>5, <1>9, AddsOn
<1> HIDE DEF p3, u3
<1>11. Low(p4, u3, races, m4)
  BY ONLY <1>5, <1>6, <1>10, FallOn DEF fall
<1>12. Free(p5, u5, races, n)
  BY ONLY <1>5, <1>6, <1>11, StopOn
<1>13. u5 = v \o ((((<<"S">> \o b) \o f) \o ((<<"S">> \o b2) \o g)) \o <<"P">>)
  <2> DEFINE S == <<"S">>
             P == <<"P">>
             M == (S \o b2) \o g
             h == (S \o b) \o f
             W == h \o M
  <2>1. S \in Seq(Signal) /\ P \in Seq(Signal)
    BY DEF Signal
  <2>2. /\ v \in Seq(Signal) /\ b \in Seq(Signal) /\ f \in Seq(Signal) /\ b2 \in Seq(Signal)
        /\ g \in Seq(Signal)
    BY <1>1, <1>9, <1>10
  <2> HIDE DEF S, P
  <2>3. S \o b2 \in Seq(Signal) /\ M \in Seq(Signal) /\ S \o b \in Seq(Signal) /\ h \in Seq(Signal)
        /\ W \in Seq(Signal) /\ v \o h \in Seq(Signal)
    <3>1. S \o b2 \in Seq(Signal) /\ S \o b \in Seq(Signal)
      BY ONLY <2>1, <2>2, ConcatProperties
    <3>2. M \in Seq(Signal) /\ h \in Seq(Signal)
      BY ONLY <2>2, <3>1, ConcatProperties
    <3> HIDE DEF M, h
    <3> QED  BY ONLY <2>2, <3>1, <3>2, ConcatProperties
  <2>4. v \o h = ((v \o S) \o b) \o f
    <3>1. v \in Seq(Signal) /\ S \in Seq(Signal) /\ b \in Seq(Signal) /\ f \in Seq(Signal)
      BY ONLY <2>1, <2>2, <2>3
    <3> DEFINE y == ((v \o S) \o b) \o f
    <3>2. Three(h, S, b, f) /\ Four(y, v, S, b, f)
      BY DEF Three, Four
    <3> HIDE DEF h, y
    <3>3. After(y, v, h)
      BY ONLY <3>1, <3>2, Parts3
    <3> QED  BY ONLY <3>3 DEF After, y
  <2>5. (v \o h) \o M = (((v \o h) \o S) \o b2) \o g
    <3> DEFINE t == v \o h
               y == ((t \o S) \o b2) \o g
    <3>1. /\ t \in Seq(Signal) /\ S \in Seq(Signal)
          /\ b2 \in Seq(Signal) /\ g \in Seq(Signal)
      BY ONLY <2>1, <2>2, <2>3
    <3>2. Three(M, S, b2, g) /\ Four(y, t, S, b2, g)
      BY DEF Three, Four
    <3> HIDE DEF M, t, y
    <3>3. After(y, t, M)
      BY ONLY <3>1, <3>2, Parts3
    <3> QED  BY ONLY <3>3 DEF After, y, t
  <2>6. v \o W = (v \o h) \o M
    <3> HIDE DEF h, M
    <3>1. v \in Seq(Signal) /\ h \in Seq(Signal) /\ M \in Seq(Signal)
      BY ONLY <2>1, <2>2, <2>3
    <3> DEFINE z1 == h \o M
               y1 == v \o h
               l == v \o z1
    <3>2. After(z1, h, M) /\ After(y1, v, h) /\ After(l, v, z1)
      BY DEF After, W
    <3> HIDE DEF z1, y1, l
    <3>3. After(l, y1, M)
      BY ONLY <3>1, <3>2, Regroup
    <3> QED  BY ONLY <3>3 DEF After, l, y1, z1, W
  <2>7. v \o (W \o P) = (v \o W) \o P
    <3> HIDE DEF W
    <3>1. v \in Seq(Signal) /\ W \in Seq(Signal) /\ P \in Seq(Signal)
      BY ONLY <2>1, <2>2, <2>3
    <3> DEFINE z1 == W \o P
               y1 == v \o W
               l == v \o z1
    <3>2. After(z1, W, P) /\ After(y1, v, W) /\ After(l, v, z1)
      BY DEF After
    <3> HIDE DEF z1, y1, l
    <3>3. After(l, y1, P)
      BY ONLY <3>1, <3>2, Regroup
    <3> QED  BY ONLY <3>3 DEF After, l, y1, z1
  <2>8. u5 = (((u \o S) \o b2) \o g) \o P /\ u = ((v \o S) \o b) \o f
    BY DEF u, u1, u2, u3, u5, S, P
  <2>9. v \o (W \o P) = u5
    <3>1. u = v \o h
      BY ONLY <2>4, <2>8
    <3>2. u5 = (v \o W) \o P
      <4> HIDE DEF W, M, h
      <4> QED  BY ONLY <2>5, <2>6, <2>8, <3>1
    <3> QED  BY ONLY <2>7, <3>2
  <2> QED  BY <2>9 DEF S, P
<1> QED
  BY <1>1, <1>7, <1>12, <1>13 DEF races, R

-----------------------------------------------------------------------------
\* A program tells its transfer.
LEMMA ProgramTold ==
  ASSUME NEW first \in BOOLEAN, NEW w \in Blocks,
         NEW P, P = (IF w.read = 0 THEN blockwrite(first, w) ELSE blockread(first, w)),
         NEW v, v = (IF first THEN <<"S", "P">> ELSE <<>>)
  PROVE  /\ Signals(P) = v \o Transfer[w] /\ ~(Len(P) > ProgramWords)
         /\ Races(P, 1) = 0 /\ Races(P, 0) = (IF w.read > 1 THEN w.read - 1 ELSE 0)
<1> DEFINE b == Bytewise(2 * w.addr)
           f == FlattenSeq([n \in DOMAIN w.value |-> Bytewise(w.value[n])])
           b2 == Bytewise((2 * w.addr) + 1)
           g == FlattenSeq([n \in 1 .. w.read |->
                  [k \in 1 .. 8 |-> "read"] \o <<IF n = w.read THEN "1" ELSE "0">>])
           L == Len(w.value)
           R == w.read
           k0 == IF first THEN 4 ELSE 2
           nw == (IF first THEN 4 ELSE 2) + 32 + (27 * Len(w.value))
           nr == (IF first THEN 4 ELSE 2) + 62 + (27 * Len(w.value)) + (35 * w.read)
           T == Transfer[w]
           head == (<<"S">> \o b) \o f
<1>1. /\ w \in [addr : 0 .. 127, value : Seq(0 .. 255), read : Nat]
      /\ 66 + (27 * L) + (35 * R) <= ProgramWords
  BY BlocksAssumption
<1>2. L \in Nat /\ R \in Nat
  BY <1>1
<1>3. P = IF R = 0 THEN blockwrite(first, w) ELSE blockread(first, w)
  OBVIOUS
<1>4. T = (head \o (IF R = 0 THEN <<>> ELSE (<<"S">> \o b2) \o g)) \o <<"P">>
  BY DEF Transfer
<1>5. CASE R = 0
  <2>1. Free(blockwrite(first, w), v \o (head \o <<"P">>), 0, nw)
        /\ b \in Seq(Signal) /\ f \in Seq(Signal)
    BY <1>1, WriteEnds
  <2>2. head \o <<>> = head
    <3>1. <<"S">> \in Seq(Signal)
      BY DEF Signal
    <3> HIDE DEF b, f
    <3>2. <<"S">> \o b \in Seq(Signal)
      BY <2>1, <3>1, ConcatProperties
    <3>3. head \in Seq(Signal)
      BY <2>1, <3>2, ConcatProperties
    <3> HIDE DEF head
    <3> QED  BY <3>3
  <2>3. Free(P, v \o T, 0, nw)
    <3> HIDE DEF T, head, nw, R
    <3>1. T = head \o <<"P">>
      BY <1>4, <1>5, <2>2
    <3> QED  BY <1>3, <1>5, <2>1, <3>1
  <2>4. ~(nw > ProgramWords)
    <3>1. nw = k0 + 32 + (27 * L) /\ k0 <= 4 /\ k0 \in Nat
      OBVIOUS
    <3> HIDE DEF nw, k0, L, R
    <3> QED  BY <1>1, <1>2, <1>5, <3>1 DEF ProgramWords
  <2>5. (IF R > 1 THEN R - 1 ELSE 0) = 0
    BY <1>5
  <2>6. Signals(P) = v \o T /\ Len(P) = nw /\ Races(P, 1) = 0 /\ Races(P, 0) = 0
    <3> HIDE DEF T, nw
    <3> QED  BY ONLY <2>3, Ended
  <2> HIDE DEF T, nw, R
  <2>7. /\ Signals(P) = v \o T /\ ~(Len(P) > ProgramWords)
        /\ Races(P, 1) = 0 /\ Races(P, 0) = (IF R > 1 THEN R - 1 ELSE 0)
    BY <2>4, <2>5, <2>6
  <2> QED  BY <2>7 DEF T, R
<1>6. CASE R # 0
  <2> DEFINE M == (<<"S">> \o b2) \o g
  <2>1. Free(blockread(first, w), v \o ((head \o M) \o <<"P">>), R - 1, nr)
    <3>1. /\ first \in BOOLEAN /\ w \in [addr : 0 .. 127, value : Seq(0 .. 255), read : Nat]
          /\ w.read # 0 /\ v = (IF first THEN <<"S", "P">> ELSE <<>>)
      BY <1>1, <1>6
    <3>2. Pieces(first, w, v, b, f, b2, g, nr)
      BY DEF Pieces
    <3> HIDE DEF b, b2, f, g, nr
    <3> QED  BY ONLY <3>1, <3>2, ReadEnds DEF head, M, R
  <2>3. Free(P, v \o T, R - 1, nr)
    <3> HIDE DEF T, head, nr, R, M
    <3>1. T = (head \o M) \o <<"P">>
      BY <1>4, <1>6 DEF M
    <3> QED  BY <1>3, <1>6, <2>1, <3>1
  <2>4. ~(nr > ProgramWords)
    <3>1. nr = k0 + 62 + (27 * L) + (35 * R) /\ k0 <= 4 /\ k0 \in Nat
      OBVIOUS
    <3> HIDE DEF nr, k0, L, R
    <3> QED  BY <1>1, <1>2, <1>6, <3>1 DEF ProgramWords
  <2>5. (IF R > 1 THEN R - 1 ELSE 0) = R - 1
    BY <1>2, <1>6
  <2>6. Signals(P) = v \o T /\ Len(P) = nr /\ Races(P, 1) = 0 /\ Races(P, 0) = R - 1
    <3> HIDE DEF T, nr
    <3> QED  BY ONLY <2>3, Ended
  <2> HIDE DEF T, nr, R
  <2>7. /\ Signals(P) = v \o T /\ ~(Len(P) > ProgramWords)
        /\ Races(P, 1) = 0 /\ Races(P, 0) = (IF R > 1 THEN R - 1 ELSE 0)
    BY <2>4, <2>5, <2>6
  <2> QED  BY <2>7 DEF T, R
<1> QED
  BY <1>5, <1>6

\* Every program is what it should be.
LEMMA ProgramsSound ==
  ASSUME NEW p \in Programs
  PROVE  p \notin Misread \cup Racing
<1> DEFINE first == p[1]
           w == p[2]
           P == Program[p]
           v == IF first THEN <<"S", "P">> ELSE <<>>
<1>1. first \in BOOLEAN /\ w \in Blocks
  BY DEF Programs
<1>2. P = (IF w.read = 0 THEN blockwrite(first, w) ELSE blockread(first, w)) /\ Wire[p] = Signals(P)
  BY DEF Program, Wire
<1>3. v = (IF first THEN <<"S", "P">> ELSE <<>>)
  OBVIOUS
<1> HIDE DEF first, w, P, v
<1>4. /\ Signals(P) = v \o Transfer[w] /\ ~(Len(P) > ProgramWords)
      /\ Races(P, 1) = 0 /\ Races(P, 0) = (IF w.read > 1 THEN w.read - 1 ELSE 0)
  BY ONLY <1>1, <1>2, <1>3, ProgramTold
<1>5. p \notin Misread
  BY <1>2, <1>4 DEF Misread, P, v, first, w
<1>6. p \notin Racing
  BY <1>4 DEF Racing, P, w
<1> QED
  BY <1>5, <1>6

-----------------------------------------------------------------------------
(* What the chips see, part 2: the FIFO has the program of one of the transfers the *)
(* requests can lead to, also when it hangs and its answers mean nothing.          *)

\* A step belongs to one of the requests, and so does an answer to one.
Asking(c) == step[c] # "idle" \/ outcome[c] = "ok" => req[c] \in Requests[c]

\* The TS-IDs read so far are among the known ones, and those named have been read.
ReadSoFar(c) ==
  /\ ts_id[c] \in Seq(KnownTs)
  /\ step[c] \notin TsSteps => ts_id[c] = <<>>
  /\ step[c] = "ids" => /\ lp[c] \in 1 .. MAX_BS_TS_ID \div 2
                        /\ Len(ts_id[c]) = (2 * lp[c]) - 2
  /\ step[c] \in TsSteps \ {"ids"} => Len(ts_id[c]) = MAX_BS_TS_ID
  /\ step[c] \in {"slot", "set", "get"} => lp[c] \in 1 .. MAX_BS_TS_ID

\* A caller has one of the transfers, and while it polls, the FIFO has its program.
Handed(c) ==
  /\ pc[c] # "idle" => block[c] \in Transfers
  /\ Polling(c) => fifo[Card(c)] \in BOOLEAN \X {block[c]}

\* The invariant of this part
Ordered == \A c \in Callers : Asking(c) /\ ReadSoFar(c)
OrderInv == TuneInv /\ Ordered /\ \A c \in Callers : Handed(c)

\* Of the loop's round and the TS to lock, each transfer takes at most one.
LEMMA OrderOf ==
  ASSUME NEW kind, NEW r, NEW what, NEW n, NEW id, NEW m, NEW other
  PROVE  /\ what = "ids" => Order(kind, r, what, n, id) = Order(kind, r, what, n, other)
         /\ what = "set" => Order(kind, r, what, n, id) = Order(kind, r, what, m, id)
         /\ what \in Steps(kind) \ {"ids", "set"} =>
              Order(kind, r, what, n, id) = Order(kind, r, what, m, other)
<1> DEFINE commands == BsCommands(r.freq)
           ground == TCommand(r.freq, r.slot)
<1> HIDE DEF commands, ground
<1> QED
  BY DEF Order, Steps, BsSteps, TsSteps, GroundSteps, commands, ground

\* What a caller sends is one of the transfers.
LEMMA SendsTransfer ==
  ASSUME TuneInv, Ordered, NEW c \in Callers, step[c] # "idle"
  PROVE  Sends(c) \in Transfers
<1> DEFINE kind == KindOf[c]
           what == step[c]
           r == req[c]
           n == IF what = "ids" THEN lp[c] ELSE 1
           id == IF what = "set" THEN ts_id[c][lp[c]] ELSE 0
<1>1. r \in Requests[c] /\ ReadSoFar(c) /\ Working(c)
  BY DEF Ordered, Asking, TuneInv, Right
<1>2. what \in Steps(kind)
  BY <1>1 DEF Working, Quiet, Steps
<1>3. n \in 1 .. MAX_BS_TS_ID \div 2
  BY <1>1, TuningAssumption DEF ReadSoFar
<1>4. id \in KnownTs
  <2>1. CASE what = "set"
    <3>1. ts_id[c] \in Seq(KnownTs) /\ lp[c] \in 1 .. Len(ts_id[c])
      BY <1>1, <2>1 DEF ReadSoFar, TsSteps
    <3> QED
      BY <2>1, <3>1
  <2>2. CASE what # "set"
    BY <2>2 DEF KnownTs
  <2> QED
    BY <2>1, <2>2
<1>5. Sent(c) = Order(kind, r, what, n, id)
  <2>1. Sent(c) = Order(kind, r, what, lp[c], ts_id[c][lp[c]])
    BY DEF Sent
  <2>2. CASE what = "ids"
    BY <2>1, <2>2, OrderOf
  <2>3. CASE what = "set"
    BY <2>1, <2>3, OrderOf
  <2>4. CASE what \notin {"ids", "set"}
    BY <1>2, <2>1, <2>4, OrderOf
  <2> QED
    BY <2>2, <2>3, <2>4
<1> HIDE DEF n, id, kind, what, r
<1>6. Sends(c) \in {[addr |-> AddrOf[c], value |-> order[1], read |-> order[2]] :
                      order \in {Order(kind, q, what, m, j) :
                                   q \in Requests[c], m \in 1 .. MAX_BS_TS_ID \div 2, j \in KnownTs}}
  <2>1. Sent(c) \in {Order(kind, q, what, m, j) :
                       q \in Requests[c], m \in 1 .. MAX_BS_TS_ID \div 2, j \in KnownTs}
    BY <1>1, <1>3, <1>4, <1>5
  <2> QED
    BY <2>1 DEF Sends
<1> QED
  BY <1>2, <1>6 DEF Transfers, kind

\* What is left to show of a step that ends a transfer: the caller's own record
LEMMA OrderedOn ==
  ASSUME TuneInv, Ordered, NEW c \in Callers, step[c] # "idle", UNCHANGED req,
         \A d \in Callers : d # c => /\ step'[d] = step[d] /\ lp'[d] = lp[d]
                                     /\ ts_id'[d] = ts_id[d] /\ outcome'[d] = outcome[d],
         ReadSoFar(c)'
  PROVE  Ordered'
<1> SUFFICES ASSUME NEW d \in Callers  PROVE (Asking(d) /\ ReadSoFar(d))'
  BY DEF Ordered
<1>1. Asking(d) /\ ReadSoFar(d) /\ Asking(c)
  BY DEF Ordered
<1>2. Asking(d)'
  BY <1>1 DEF Asking
<1>3. CASE d # c
  BY <1>1, <1>2, <1>3 DEF ReadSoFar
<1> QED
  BY <1>2, <1>3

\* A call that ends leaves nothing behind.
LEMMA DoneOrdered ==
  ASSUME TuneInv, Ordered, NEW c \in Callers, NEW what, step[c] # "idle", Done(c, what),
         UNCHANGED req
  PROVE  Ordered'
<1>1. /\ step' = [step EXCEPT ![c] = "idle"] /\ outcome' = [outcome EXCEPT ![c] = what]
      /\ lp' = [lp EXCEPT ![c] = 0] /\ ts_id' = [ts_id EXCEPT ![c] = <<>>]
  BY DEF Done, Then
<1>2. /\ step'[c] = "idle" /\ ts_id'[c] = <<>>
      /\ \A d \in Callers : d # c => /\ step'[d] = step[d] /\ lp'[d] = lp[d]
                                     /\ ts_id'[d] = ts_id[d] /\ outcome'[d] = outcome[d]
  BY <1>1 DEF TuneInv, Domains
<1>3. ReadSoFar(c)'
  BY <1>2 DEF ReadSoFar, TsSteps
<1> QED
  BY <1>2, <1>3, OrderedOn

\* On to another step with the TS-IDs as they are
LEMMA ThenOrdered ==
  ASSUME TuneInv, Ordered, NEW c \in Callers, NEW next, step[c] # "idle", Then(c, next),
         UNCHANGED <<req, ts_id, outcome>>,
         \A d \in Callers : d # c => lp'[d] = lp[d],
         next \notin TsSteps => step[c] \notin TsSteps,
         next = "ids" => step[c] \notin TsSteps /\ lp'[c] = 1,
         next \in TsSteps \ {"ids"} => step[c] \in TsSteps \ {"ids"},
         next \in {"slot", "set", "get"} => lp'[c] \in 1 .. MAX_BS_TS_ID
  PROVE  Ordered'
<1>1. step' = [step EXCEPT ![c] = next]
  BY DEF Then
<1>2. /\ step'[c] = next
      /\ \A d \in Callers : d # c => step'[d] = step[d]
  BY <1>1 DEF TuneInv, Domains
<1>3. ReadSoFar(c)
  BY DEF Ordered
<1>4. 1 \in 1 .. MAX_BS_TS_ID \div 2 /\ Len(<<>>) = (2 * 1) - 2
  BY TuningAssumption
<1>5. next = "ids" => lp'[c] \in 1 .. MAX_BS_TS_ID \div 2 /\ Len(ts_id[c]) = (2 * lp'[c]) - 2
  BY <1>3, <1>4 DEF ReadSoFar
<1>6. ReadSoFar(c)'
  BY <1>2, <1>3, <1>5 DEF ReadSoFar
<1> QED
  BY <1>2, <1>6, OrderedOn

\* A loop goes round.
LEMMA AgainOrdered ==
  ASSUME TuneInv, Ordered, NEW c \in Callers, NotYet(c),
         UNCHANGED <<req, outcome, lp, ts_id>>
  PROVE  Ordered'
BY DEF Ordered, Asking, ReadSoFar, NotYet

LEMMA InitOrdered == TuningInit => Ordered
<1> SUFFICES ASSUME TuningInit, NEW c \in Callers  PROVE Asking(c) /\ ReadSoFar(c)
  BY DEF Ordered
<1>1. step[c] = "idle" /\ outcome[c] = "none" /\ ts_id[c] = <<>>
  BY DEF TuningInit
<1> QED
  BY <1>1 DEF Asking, ReadSoFar, TsSteps

\* A call begins, for one of the requests.
LEMMA AskedOrdered ==
  ASSUME TuneInv, Ordered, NEW c \in Callers, SetFreq(c) \/ read_signal_strength(c)
  PROVE  Ordered'
<1>1. CASE SetFreq(c)
  <2>1. PICK r \in Requests[c] : req' = [req EXCEPT ![c] = r]
    BY <1>1 DEF SetFreq
  <2>2. /\ step' = [step EXCEPT ![c] = IF KindOf[c] = "S" THEN "pll1" ELSE "base"]
        /\ outcome' = [outcome EXCEPT ![c] = "none"] /\ UNCHANGED <<lp, ts_id>>
        /\ step[c] = "idle"
    BY <1>1 DEF SetFreq
  <2>3. /\ step'[c] \in {"pll1", "base"} /\ req'[c] = r
        /\ \A d \in Callers : d # c => /\ step'[d] = step[d] /\ req'[d] = req[d]
                                       /\ outcome'[d] = outcome[d]
    BY <2>1, <2>2 DEF TuneInv, Domains
  <2>4. ASSUME NEW d \in Callers  PROVE (Asking(d) /\ ReadSoFar(d))'
    <3>1. Asking(d) /\ ReadSoFar(d) /\ ReadSoFar(c)
      BY DEF Ordered
    <3>2. CASE d = c
      BY <2>2, <2>3, <3>1, <3>2 DEF Asking, ReadSoFar, TsSteps
    <3>3. CASE d # c
      BY <2>2, <2>3, <3>1, <3>3 DEF Asking, ReadSoFar
    <3> QED
      BY <3>2, <3>3
  <2> QED
    BY <2>4 DEF Ordered
<1>2. CASE read_signal_strength(c)
  <2>1. /\ step' = [step EXCEPT ![c] = "signal1"] /\ outcome' = [outcome EXCEPT ![c] = "none"]
        /\ UNCHANGED <<req, lp, ts_id>> /\ step[c] = "idle" /\ outcome[c] = "ok"
    BY <1>2 DEF read_signal_strength
  <2>2. /\ step'[c] = "signal1"
        /\ \A d \in Callers : d # c => step'[d] = step[d] /\ outcome'[d] = outcome[d]
    BY <2>1 DEF TuneInv, Domains
  <2>3. ASSUME NEW d \in Callers  PROVE (Asking(d) /\ ReadSoFar(d))'
    <3>1. Asking(d) /\ ReadSoFar(d)
      BY DEF Ordered
    <3>2. CASE d = c
      BY <2>1, <2>2, <3>1, <3>2 DEF Asking, ReadSoFar, TsSteps
    <3>3. CASE d # c
      BY <2>1, <2>2, <3>1, <3>3 DEF Asking, ReadSoFar
    <3> QED
      BY <3>2, <3>3
  <2> QED
    BY <2>3 DEF Ordered
<1> QED
  BY <1>1, <1>2

\* The actions that end a transfer, one by one
LEMMA WroteOrdered ==
  ASSUME TuneInv, Ordered, NEW c \in Callers, Wrote(c)
  PROVE  Ordered'
<1>1. /\ step[c] \in DOMAIN AfterWrite /\ Then(c, AfterWrite[step[c]])
      /\ UNCHANGED <<req, lp, ts_id, outcome>> /\ ReadSoFar(c)
  BY DEF Wrote, Ordered
<1>2. /\ step[c] # "idle" /\ AfterWrite[step[c]] # "ids"
      /\ \/ step[c] \notin TsSteps /\ AfterWrite[step[c]] \notin TsSteps
         \/ step[c] = "set" /\ AfterWrite[step[c]] = "get"
  BY <1>1 DEF AfterWrite, TsSteps
<1>3. step[c] = "set" => lp[c] \in 1 .. MAX_BS_TS_ID
  BY <1>1 DEF ReadSoFar
<1> DEFINE next == AfterWrite[step[c]]
<1> HIDE DEF next
<1>4. /\ Then(c, next)
      /\ next \notin TsSteps => step[c] \notin TsSteps
      /\ next # "ids"
      /\ next \in TsSteps \ {"ids"} => step[c] \in TsSteps \ {"ids"}
      /\ next \in {"slot", "set", "get"} => lp'[c] \in 1 .. MAX_BS_TS_ID
  BY <1>1, <1>2, <1>3 DEF next, TsSteps
<1> QED
  BY <1>1, <1>2, <1>4, ThenOrdered

LEMMA LockedOrdered ==
  ASSUME TuneInv, Ordered, NEW c \in Callers, Locked(c) \/ NotLocked(c)
  PROVE  Ordered'
<1>1. step[c] \in {"pll", "tmcc", "lock", "tune"} /\ UNCHANGED req
  BY DEF Locked, NotLocked
<1>2. ASSUME NEW what, Done(c, what)  PROVE Ordered'
  BY <1>1, <1>2, DoneOrdered
<1>3. CASE NotLocked(c)
  BY <1>1, <1>2, <1>3, AgainOrdered DEF NotLocked
<1>4. CASE Locked(c) /\ step[c] = "tune"
  BY <1>2, <1>4 DEF Locked
<1>5. CASE Locked(c) /\ step[c] # "tune"
  <2> DEFINE next == AfterLock[step[c]]
  <2>1. /\ Then(c, next) /\ UNCHANGED <<ts_id, outcome>>
        /\ lp' = [lp EXCEPT ![c] = IF step[c] = "tmcc" THEN 1 ELSE @]
    BY <1>5 DEF Locked, On
  <2>2. /\ step[c] \notin TsSteps /\ next \notin TsSteps \ {"ids"} /\ step[c] # "idle"
        /\ next = "ids" => step[c] = "tmcc"
    BY <1>1, <1>5 DEF AfterLock, TsSteps
  <2>3. /\ step[c] = "tmcc" => lp'[c] = 1
        /\ \A d \in Callers : d # c => lp'[d] = lp[d]
    BY <2>1 DEF TuneInv, Domains
  <2>4. next \notin {"slot", "set", "get"}
    BY <2>2 DEF TsSteps
  <2> HIDE DEF next
  <2> QED
    BY <1>1, <2>1, <2>2, <2>3, <2>4, ThenOrdered
<1> QED
  BY <1>3, <1>4, <1>5

\* Whatever answers for a pair of TS-IDs names known ones: the chip, on the frequency
\* asked for, those on the air there.
LEMMA PairsKnown ==
  ASSUME TuneInv, Ordered, NEW c \in Callers, Return(c), step[c] = "ids",
         NEW pair \in PairsRead(c)
  PROVE  \E a, b \in KnownTs : pair = <<a, b>>
<1>1. \A x \in {0, 1, NoTs} : x \in KnownTs
  BY DEF KnownTs
<1>2. CASE pair = <<0, 0>> \/ pair = <<1, NoTs>>
  BY <1>1, <1>2
<1>3. CASE ~(pair = <<0, 0>> \/ pair = <<1, NoTs>>)
  <2>1. /\ Sound(c) /\ OnAirNow(c)
        /\ pair = <<Ids(c)[(2 * lp[c]) - 1], Ids(c)[2 * lp[c]]>>
    BY <1>3 DEF PairsRead
  <2>2. Working(c) /\ OnFrequency(c) /\ req[c] \in Requests[c] /\ KindOf[c] = "S"
    BY <2>1, AtReturn DEF Right, Sound, Working, Quiet, GroundSteps
  <2>3. chip[c].mhz = Asked(c)
    BY <2>2 DEF OnFrequency, Quiet, First
  <2>4. Ids(c) \in [1 .. MAX_BS_TS_ID -> Nat] /\ Ids(c) = TsOnAir[chip[c].mhz]
        /\ chip[c].mhz \in DOMAIN TsOnAir
    <3>1. Asked(c) = BsMHz(bs_pll[req[c].freq + 1])
      <4>1. req[c] \in [freq : Nat, slot : Nat, type : {"S", "T"}]
        BY <2>2, TuningAssumption
      <4> QED
        BY <2>2, <4>1 DEF Asked, Tuned
    <3> QED
      BY <2>1, <2>2, <2>3, <3>1, TuningAssumption DEF Ids, OnAirNow
  <2>5. (2 * lp[c]) - 1 \in 1 .. MAX_BS_TS_ID /\ 2 * lp[c] \in 1 .. MAX_BS_TS_ID
    <3>1. lp[c] \in 1 .. MAX_BS_TS_ID \div 2
      BY DEF Ordered, ReadSoFar
    <3>2. \A n \in 1 .. MAX_BS_TS_ID \div 2 : (2 * n) - 1 \in 1 .. MAX_BS_TS_ID /\ 2 * n \in 1 .. MAX_BS_TS_ID
      BY ONLY TuningAssumption
    <3> QED
      BY ONLY <3>1, <3>2
  <2>6. \A i \in 1 .. MAX_BS_TS_ID : Ids(c)[i] \in ToSet(TsOnAir[chip[c].mhz])
    BY <2>4 DEF ToSet
  <2>7. ToSet(TsOnAir[chip[c].mhz]) \subseteq KnownTs
    BY <2>4 DEF KnownTs
  <2> QED
    BY <2>1, <2>5, <2>6, <2>7
<1> QED
  BY <1>2, <1>3

LEMMA ReadIdsOrdered ==
  ASSUME TuneInv, Ordered, NEW c \in Callers, ReadIds(c)
  PROVE  Ordered'
<1>1. /\ step[c] = "ids" /\ Return(c) /\ UNCHANGED <<req, outcome>> /\ ReadSoFar(c)
  BY DEF ReadIds, Ordered
<1>2. PICK pair \in PairsRead(c) :
        \/ NotYet(c) /\ UNCHANGED <<lp, ts_id>>
        \/ /\ ts_id' = [ts_id EXCEPT ![c] = @ \o pair]
           /\ lp' = [lp EXCEPT ![c] = @ + 1]
           /\ Then(c, IF 2 * lp[c] < MAX_BS_TS_ID THEN "ids" ELSE "agc")
  BY DEF ReadIds, InOrder
<1>3. PICK a \in KnownTs, b \in KnownTs : pair = <<a, b>>
  BY <1>1, PairsKnown
<1>4. CASE NotYet(c) /\ UNCHANGED <<lp, ts_id>>
  BY <1>1, <1>4, AgainOrdered
<1>5. CASE /\ ts_id' = [ts_id EXCEPT ![c] = @ \o pair]
           /\ lp' = [lp EXCEPT ![c] = @ + 1]
           /\ Then(c, IF 2 * lp[c] < MAX_BS_TS_ID THEN "ids" ELSE "agc")
  <2> DEFINE next == IF 2 * lp[c] < MAX_BS_TS_ID THEN "ids" ELSE "agc"
  <2>1. step' = [step EXCEPT ![c] = next]
    BY <1>5 DEF Then
  <2>2. /\ step'[c] = next /\ lp'[c] = lp[c] + 1 /\ ts_id'[c] = ts_id[c] \o pair
        /\ \A d \in Callers : d # c => /\ step'[d] = step[d] /\ lp'[d] = lp[d]
                                       /\ ts_id'[d] = ts_id[d]
    BY <1>5, <2>1 DEF TuneInv, Domains
  <2>3. /\ lp[c] \in 1 .. MAX_BS_TS_ID \div 2 /\ Len(ts_id[c]) = (2 * lp[c]) - 2
        /\ ts_id[c] \in Seq(KnownTs)
    BY <1>1 DEF ReadSoFar
  <2>4. ts_id'[c] \in Seq(KnownTs) /\ Len(ts_id'[c]) = 2 * lp[c]
    <3>1. pair \in Seq(KnownTs) /\ Len(pair) = 2
      BY <1>3
    <3>2. /\ ts_id[c] \o pair \in Seq(KnownTs)
          /\ Len(ts_id[c] \o pair) = Len(ts_id[c]) + Len(pair)
      BY <2>3, <3>1, ConcatProperties
    <3>3. \A n \in 1 .. MAX_BS_TS_ID \div 2 : ((2 * n) - 2) + 2 = 2 * n
      BY ONLY TuningAssumption
    <3> QED
      BY ONLY <2>2, <2>3, <3>1, <3>2, <3>3
  <2>5. /\ next = "ids" => /\ lp'[c] \in 1 .. MAX_BS_TS_ID \div 2
                           /\ Len(ts_id'[c]) = (2 * lp'[c]) - 2
        /\ next = "agc" => Len(ts_id'[c]) = MAX_BS_TS_ID
        /\ next \in {"ids", "agc"}
    <3>1. \A n \in 1 .. MAX_BS_TS_ID \div 2 :
            /\ 2 * n < MAX_BS_TS_ID => n + 1 \in 1 .. MAX_BS_TS_ID \div 2
            /\ ~(2 * n < MAX_BS_TS_ID) => 2 * n = MAX_BS_TS_ID
            /\ 2 * n = (2 * (n + 1)) - 2
      BY ONLY TuningAssumption
    <3> QED
      BY ONLY <2>2, <2>3, <2>4, <3>1
  <2>6. ReadSoFar(c)'
    BY <2>2, <2>4, <2>5 DEF ReadSoFar, TsSteps
  <2> QED
    BY <1>1, <2>2, <2>6, OrderedOn
<1> QED
  BY <1>2, <1>4, <1>5

LEMMA TsLockedOrdered ==
  ASSUME TuneInv, Ordered, NEW c \in Callers, ts_locked(c)
  PROVE  Ordered'
<1>1. step[c] = "get" /\ UNCHANGED req /\ ReadSoFar(c)
  BY DEF ts_locked, Ordered
<1>2. CASE NotYet(c) /\ UNCHANGED <<outcome, lp, ts_id>>
  BY <1>1, <1>2, AgainOrdered
<1>3. CASE Done(c, "ok")
  BY <1>1, <1>3, DoneOrdered
<1>4. CASE On(c, "slot") /\ UNCHANGED lp
  <2>1. lp[c] \in 1 .. MAX_BS_TS_ID
    BY <1>1 DEF ReadSoFar
  <2> QED
    BY <1>1, <1>4, <2>1, ThenOrdered DEF On, TsSteps
<1> QED
  BY <1>2, <1>3, <1>4 DEF ts_locked

LEMMA MeasuredOrdered ==
  ASSUME TuneInv, Ordered, NEW c \in Callers, Measured(c)
  PROVE  Ordered'
<1>1. /\ step[c] \in {"agc", "slot", "clock", "carrier", "signal1", "signal2"}
      /\ UNCHANGED <<req, ts_id, outcome>> /\ Return(c) /\ step[c] # "idle"
      /\ DOMAIN lp = Callers
  BY DEF Measured, TuneInv, Domains
<1>2. ASSUME step[c] \in {"agc", "slot"}, NEW n \in Nat \ {0}, NextTs(c, n)  PROVE Ordered'
  <2>1. step[c] \in TsSteps \ {"ids"} /\ "clock" \in TsSteps \ {"ids"} /\ "set" \in TsSteps \ {"ids"}
    BY <1>2 DEF TsSteps
  <2>2. CASE Then(c, "clock") /\ UNCHANGED lp
    BY <1>1, <2>1, <2>2, ThenOrdered
  <2>3. CASE Then(c, "set") /\ \E i \in TsFrom(c, n) : GoTo(c, i)
    <3>1. PICK i \in n .. MAX_BS_TS_ID : lp' = [lp EXCEPT ![c] = i]
      BY <2>3 DEF TsFrom, GoTo
    <3>2. /\ lp'[c] \in 1 .. MAX_BS_TS_ID
          /\ \A d \in Callers : d # c => lp'[d] = lp[d]
      BY <1>1, <3>1, TuningAssumption
    <3> QED
      BY <1>1, <2>1, <2>3, <3>2, ThenOrdered
  <2> QED
    BY <1>2, <2>2, <2>3 DEF NextTs
<1>3. CASE step[c] = "agc"
  BY <1>2, <1>3 DEF Measured
<1>4. CASE step[c] = "slot"
  <2>1. lp[c] + 1 \in Nat \ {0}
    <3>1. lp[c] \in 1 .. MAX_BS_TS_ID
      BY <1>4 DEF Ordered, ReadSoFar
    <3> QED
      BY <3>1
  <2> QED
    BY <1>2, <1>4, <2>1 DEF Measured
<1>5. CASE step[c] = "carrier"
  <2>1. Then(c, "set") /\ lp' = [lp EXCEPT ![c] = Slot(c)]
    BY <1>5 DEF Measured
  <2>2. KindOf[c] = "S" /\ req[c] \in Requests[c]
    BY <1>1, <1>5, AtReturn DEF Right, Working, Quiet, GroundSteps
  <2>3. Slot(c) \in 1 .. MAX_BS_TS_ID
    <3>1. req[c].slot \in Nat /\ req[c].slot < MAX_BS_TS_ID
      BY <2>2, TuningAssumption
    <3> QED
      BY <3>1, TuningAssumption DEF Slot
  <2>4. /\ lp'[c] \in 1 .. MAX_BS_TS_ID
        /\ \A d \in Callers : d # c => lp'[d] = lp[d]
    BY <1>1, <2>1, <2>3
  <2>5. step[c] \in TsSteps \ {"ids"} /\ "set" \in TsSteps \ {"ids"}
    BY <1>5 DEF TsSteps
  <2> QED
    BY <1>1, <2>1, <2>4, <2>5, ThenOrdered
<1>6. CASE step[c] = "clock"
  <2>1. Then(c, "carrier") /\ UNCHANGED lp
    BY <1>6 DEF Measured
  <2>2. step[c] \in TsSteps \ {"ids"} /\ "carrier" \in TsSteps \ {"ids"}
    BY <1>6 DEF TsSteps
  <2> QED
    BY <1>1, <2>1, <2>2, ThenOrdered
<1>7. CASE step[c] \in {"signal1", "signal2"}
  <2>1. PICK next \in {"signal2", "idle"} : Then(c, next) /\ UNCHANGED lp
    BY <1>7 DEF Measured
  <2>2. step[c] \notin TsSteps /\ next \notin TsSteps /\ next \notin {"slot", "set", "get"}
        /\ next # "ids"
    BY <1>7 DEF TsSteps
  <2> QED
    BY <1>1, <2>1, <2>2, ThenOrdered
<1> QED
  BY <1>1, <1>3, <1>4, <1>5, <1>6, <1>7

\* Every other step leaves the record alone.
LEMMA NextOrdered ==
  ASSUME TuneInv, Ordered, [Next]_tuningVars
  PROVE  Ordered'
<1>1. ASSUME NEW c \in Callers, SetFreq(c) \/ read_signal_strength(c)  PROVE Ordered'
  BY <1>1, AskedOrdered
<1>2. ASSUME NEW c \in Callers, Answered(c)  PROVE Ordered'
  BY <1>2, WroteOrdered, LockedOrdered, ReadIdsOrdered, TsLockedOrdered, MeasuredOrdered
     DEF Answered
<1>3. CASE UNCHANGED jobVars
  BY <1>3 DEF jobVars, Ordered, Asking, ReadSoFar
<1> QED
  BY <1>1, <1>2, <1>3 DEF Next, Transmit, Runs, Bus, tuningVars

-----------------------------------------------------------------------------
LEMMA InitHanded == TuningInit => \A c \in Callers : Handed(c)
BY DEF TuningInit, Init, Handed, Polling

\* A transfer begins with one of the transfers, and only Start writes a program.
LEMMA NextHanded ==
  ASSUME TuneInv, Ordered, \A c \in Callers : Handed(c), [Next]_tuningVars
  PROVE  \A c \in Callers : Handed(c)'
<1>0. /\ pc \in [Callers -> {"idle", "lock", "poll", "return"}]
      /\ DOMAIN block = Callers /\ DOMAIN fifo = Cards
  BY DEF TuneInv, BusInv, BusTypes, Domains
<1>1. ASSUME NEW c \in Callers, Transmit(c)  PROVE \A d \in Callers : Handed(d)'
  <2>1. /\ step[c] # "idle" /\ block' = [block EXCEPT ![c] = Sends(c)]
        /\ pc' = [pc EXCEPT ![c] = "lock"] /\ UNCHANGED fifo
    BY <1>1 DEF Transmit, Call, Sends, hwVars
  <2>2. Sends(c) \in Transfers
    BY <2>1, SendsTransfer
  <2> QED
    BY <1>0, <2>1, <2>2 DEF Handed, Polling, Card
<1>2. ASSUME NEW c \in Callers, Start(c)  PROVE \A d \in Callers : Handed(d)'
  <2>1. /\ pc[c] = "lock" /\ holder[Card(c)] = None /\ pc' = [pc EXCEPT ![c] = "poll"]
        /\ fifo' = [fifo EXCEPT ![Card(c)] = <<state = "stop", block[c]>>] /\ UNCHANGED block
    BY <1>2 DEF Start, MayLock
  <2>2. <<state = "stop", block[c]>> \in BOOLEAN \X {block[c]}
    OBVIOUS
  <2>3. ASSUME NEW d \in Callers, d # c  PROVE Handed(d)'
    <3>1. Card(d) \in Cards /\ d # None
      BY CardType
    <3>2. Polling(d) => Card(d) # Card(c)
      BY <2>1, <3>1 DEF Polling, TuneInv, BusInv, Holds
    <3>3. pc'[d] = pc[d] /\ (Polling(d) => fifo'[Card(d)] = fifo[Card(d)])
      BY <1>0, <2>1, <2>3, <3>1, <3>2
    <3> QED
      BY <2>1, <3>3 DEF Handed, Polling, Card
  <2>4. Handed(c)'
    <3>1. Card(c) \in Cards
      BY CardType
    <3>2. fifo'[Card(c)] = <<state = "stop", block[c]>> /\ pc'[c] = "poll"
      BY <1>0, <2>1, <3>1
    <3> QED
      BY <2>1, <2>2, <3>2 DEF Handed, Polling, Card
  <2> QED
    BY <2>3, <2>4
<1>3. ASSUME NEW c \in Callers, PollWrite(c) \/ PollRead(c) \/ Return(c)
      PROVE  \A d \in Callers : Handed(d)'
  <2>1. UNCHANGED <<fifo, block>> /\ Polling(c)
    BY <1>3 DEF PollWrite, PollRead, Return, hwVars, Polling
  <2>2. \A d \in Callers : pc'[d] # "idle" => pc[d] # "idle"
    BY <1>0, <1>3 DEF PollWrite, PollRead, Return
  <2>3. \A d \in Callers : Polling(d)' => Polling(d)
    BY <1>0, <1>3, <2>1 DEF PollWrite, PollRead, Return, Polling
  <2> QED
    BY <2>1, <2>2, <2>3 DEF Handed, Card
<1>4. CASE UNCHANGED <<fifo, pc, block>>
  BY <1>4 DEF Handed, Polling, Card
<1>5. CASE \E c \in Callers : SetFreq(c) \/ read_signal_strength(c)
  BY <1>4, <1>5 DEF SetFreq, read_signal_strength, vars
<1>6. ASSUME NEW c \in Callers, Answered(c)  PROVE Return(c)
  BY <1>6 DEF Answered, Wrote, Locked, NotLocked, ReadIds, ts_locked, Measured
<1>7. CASE Bus
  BY <1>2, <1>3, <1>4, <1>7 DEF Bus, Inside, HwHang
<1>8. CASE (\E k \in Cards : Runs(k)) \/ UNCHANGED tuningVars
  BY <1>4, <1>8 DEF Runs, HwDone, tuningVars, vars
<1> QED
  BY <1>1, <1>3, <1>5, <1>6, <1>7, <1>8 DEF Next

\* ChipsSee for every instance: whatever transfers the requests lead to, a program that
\* begins is that of the caller's transfer, the chips see that transfer, and no line races
\* but where a longer read is acknowledged.
THEOREM ChipsSeeTransfers == Spec => []ChipsSee
<1>1. TuningInit => OrderInv
  BY InitTune, InitOrdered, InitHanded DEF OrderInv
<1>2. OrderInv /\ [Next]_tuningVars => OrderInv'
  BY NextTune, NextOrdered, NextHanded DEF OrderInv
<1>3. OrderInv => ChipsSee
  <2> SUFFICES ASSUME OrderInv, NEW c \in Callers, Begun(c)
               PROVE  /\ fifo[Card(c)][2] = block[c]
                      /\ fifo[Card(c)] \notin Misread \cup Racing
    BY DEF ChipsSee
  <2>1. /\ fifo[Card(c)] \in BOOLEAN \X {block[c]} /\ block[c] \in Transfers
    BY DEF OrderInv, Handed, Polling, Begun
  <2>2. fifo[Card(c)] \in Programs
    BY <2>1, TransfersAssumption DEF Programs
  <2> QED
    BY <2>1, <2>2, ProgramsSound
<1> QED
  BY <1>1, <1>2, <1>3, PTL DEF Spec
=============================================================================
