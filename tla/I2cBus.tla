------------------------------ MODULE I2cBus ------------------------------
(***************************************************************************)
(* How the driver talks to the tuner chips (pt1_i2c.c): i2c_write and       *)
(* i2c_read build a program of words in the card's FIFO under the card's    *)
(* lock, start it, and poll until the FIFO has run it.                      *)
(*                                                                         *)
(* A word pulls the two lines of the bus low (data, clock: 1 is low) and    *)
(* names the word that follows it.  Wire reads a program as a chip on the   *)
(* bus does: a START or STOP is a change of the data line while the clock   *)
(* is high, a bit is what the data line holds during a clock pulse, and a   *)
(* word in read mode samples what the chip answers.                         *)
(***************************************************************************)
EXTENDS Integers, SequencesExt

CONSTANTS
  Callers, Cards, CardOf,   \* threads that program tuners, and whose card
  Blocks,      \* what they transfer: [addr, value, read]; read bytes are wanted back
  MaxPolls,    \* 100 in the code
  HwTime,      \* a sound FIFO has run any program after so many sleeps
  MayHang      \* a FIFO may never finish

None == "none"      \* nobody

ASSUME I2cAssumption ==
  /\ MaxPolls \in Nat /\ HwTime \in Nat /\ HwTime < MaxPolls /\ None \notin Callers
  /\ CardOf \in [Callers -> Cards]

ProgramWords == 1024    \* I2C_ADDRESS: ten bits for the next word

\* Seven bits of address, bytes, and no more of them than a program can hold
ASSUME BlocksAssumption ==
  \A w \in Blocks :
    /\ w \in [addr : 0 .. 127, value : Seq(0 .. 255), read : Nat]
    /\ 66 + (27 * Len(w.value)) + (35 * w.read) <= ProgramWords

VARIABLES
  state,        \* "stop" until the driver's first transfer, on whichever card
  fifo,         \* per card: the program in the FIFO: <<first, wblock>>, or <<>>
  running,      \* per card: whose program the FIFO runs, or "none"
  hung,         \* per card: it will not finish
  result,       \* per card: whose transfer I2C_RESULT answers, or "none"
  holder,       \* per card: who holds its lock, or "none"
  pc, block,    \* per caller: "idle", "lock", "poll", "return"; its wblock
  polls         \* per caller: lp, the number of its sleeps

vars == <<state, fifo, running, hung, result, holder, pc, block, polls>>

-----------------------------------------------------------------------------
(* The program.  Words are numbered as they are written; each names its        *)
(* successor, the last one word 0, where the FIFO rests with the bus free.     *)

Word(mode, data, clock) == [mode |-> mode, data |-> data, clock |-> clock]

begin_i2c == <<Word(0, 0, 0), Word(0, 0, 0)>>

\* A new bit is set up while the clock is low, then the clock pulses.
WriteAtOnce(old, bit) == <<Word(0, 1 - bit, 1), Word(0, 1 - bit, 0)>>   \* mutant
writebits(old, bit) == <<Word(0, 1 - old, 1), Word(0, 1 - bit, 1), Word(0, 1 - bit, 0)>>

\* Every call finds data free (1); clock says whether the clock is held low.
start_i2c(clock) == (IF clock THEN <<Word(0, 0, 0)>> ELSE <<>>) \o <<Word(0, 1, 0)>>

\* Only the empty transfer ends with data already low and the clock free.
stop_i2c(data) ==
  (IF data = 1 THEN <<Word(0, 1, 1), Word(0, 1, 0)>> ELSE <<>>) \o <<Word(0, 0, 0)>>

WriteSeq(old, bits) ==
  FlattenSeq([k \in DOMAIN bits |-> writebits(IF k = 1 THEN old ELSE bits[k-1], bits[k])])

\* The n lower bits of v, the highest first
BitsOf(v, n) == [k \in 1 .. n |-> (v \div (2 ^ (n - k))) % 2]

\* After an address or a byte comes a slot for the chip's acknowledgement.
Address(addr, type) == WriteSeq(0, BitsOf(addr, 7) \o <<type, 1>>)
Bytes(value) == FlattenSeq([n \in DOMAIN value |-> WriteSeq(1, BitsOf(value[n], 8) \o <<1>>)])

\* What blockwrite and blockread begin with: on the driver's first transfer an
\* empty one, then the bytes written, and a falling clock.
Written(first, w) ==
  begin_i2c \o (IF first THEN start_i2c(FALSE) \o stop_i2c(0) ELSE <<>>)
  \o start_i2c(FALSE) \o Address(w.addr, 0) \o Bytes(w.value) \o <<Word(0, 0, 1)>>

blockwrite(first, w) == Written(first, w) \o stop_i2c(1)

\* One byte read: eight samples, acknowledged unless it is the last
ReadByte(last) ==
  FlattenSeq([k \in 1 .. 8 |-> writebits(1, 1) \o <<Word(1, 0, 0)>>])
  \o writebits(1, IF last THEN 1 ELSE 0)

blockread(first, w) ==
  Written(first, w) \o start_i2c(TRUE) \o Address(w.addr, 1)
  \o FlattenSeq([n \in 1 .. w.read |-> ReadByte(n = w.read)])
  \o <<Word(0, 0, 1)>> \o stop_i2c(1)

\* The programs by what goes into them: <<first, wblock>>
Programs == BOOLEAN \X Blocks
Program == [p \in Programs |->
              IF p[2].read = 0 THEN blockwrite(p[1], p[2]) ELSE blockread(p[1], p[2])]

-----------------------------------------------------------------------------
(* The calls *)

Init ==
  /\ state = "stop"
  /\ fifo = [k \in Cards |-> <<>>] /\ running = [k \in Cards |-> None]
  /\ hung = [k \in Cards |-> FALSE] /\ result = [k \in Cards |-> None]
  /\ holder = [k \in Cards |-> None]
  /\ pc = [c \in Callers |-> "idle"] /\ block = [c \in Callers |-> CHOOSE w \in Blocks : TRUE]
  /\ polls = [c \in Callers |-> 0]

Card(c) == CardOf[c]
hwVars == <<fifo, running, hung, result>>

Call(c, w) ==
  /\ pc[c] = "idle"
  /\ block' = [block EXCEPT ![c] = w]
  /\ pc' = [pc EXCEPT ![c] = "lock"]
  /\ UNCHANGED <<state, hwVars, holder, polls>>

\* mutex_lock, the program into the FIFO, FIFO_GO
MayLock(c) == holder[Card(c)] = None

Start(c) ==
  /\ pc[c] = "lock" /\ MayLock(c)
  /\ holder' = [holder EXCEPT ![Card(c)] = c]
  /\ fifo' = [fifo EXCEPT ![Card(c)] = <<state = "stop", block[c]>>]
  /\ state' = "start"
  /\ running' = [running EXCEPT ![Card(c)] = c]
  /\ pc' = [pc EXCEPT ![c] = "poll"]
  /\ UNCHANGED <<hung, result, block, polls>>

\* The FIFO has run its program: the chips have the bytes, or the answer is there.
HwDone(k) ==
  /\ running[k] # None /\ ~hung[k]
  /\ result' = [result EXCEPT ![k] = running[k]]
  /\ running' = [running EXCEPT ![k] = None]
  /\ UNCHANGED <<state, fifo, hung, holder, pc, block, polls>>

HwHang(k) ==
  /\ MayHang /\ running[k] # None /\ ~hung[k]
  /\ hung' = [hung EXCEPT ![k] = TRUE]
  /\ UNCHANGED <<state, fifo, running, result, holder, pc, block, polls>>

\* The loop of at most MaxPolls rounds.  i2c_write looks at FIFO_DONE before it
\* sleeps, i2c_read (read # 0) after; each round is one step.  A sound FIFO is ready
\* after HwTime sleeps, which no signal shortens.
NoLook(c) == TRUE                   \* mutant: without a look at FIFO_DONE
Finished(c) == running[Card(c)] = None
NoLimit(c) == FALSE                 \* mutant: it polls until the FIFO has finished
OutOfPolls(c) == polls[c] >= MaxPolls - 1
Sleeps(c) == hung[Card(c)] \/ polls[c] < HwTime \/ running[Card(c)] = None
CountPoll(c) == polls' = [polls EXCEPT ![c] = IF @ = MaxPolls THEN @ ELSE @ + 1]

PollWrite(c) ==
  /\ pc[c] = "poll" /\ block[c].read = 0
  /\ IF Finished(c)
     THEN pc' = [pc EXCEPT ![c] = "return"] /\ UNCHANGED polls
     ELSE /\ Sleeps(c) /\ CountPoll(c)
          /\ pc' = [pc EXCEPT ![c] = IF OutOfPolls(c) THEN "return" ELSE @]
  /\ UNCHANGED <<state, hwVars, holder, block>>

PollRead(c) ==
  /\ pc[c] = "poll" /\ block[c].read # 0
  /\ Sleeps(c) /\ CountPoll(c)
  /\ pc' = [pc EXCEPT ![c] = IF Finished(c) \/ OutOfPolls(c) THEN "return" ELSE @]
  /\ UNCHANGED <<state, hwVars, holder, block>>

\* i2c_read takes I2C_RESULT, whoever's it is; both unlock.
Answer(c) == result[Card(c)]
Return(c) ==
  /\ pc[c] = "return"
  /\ holder' = [holder EXCEPT ![Card(c)] = None]
  /\ pc' = [pc EXCEPT ![c] = "idle"]
  /\ polls' = [polls EXCEPT ![c] = 0]
  /\ UNCHANGED <<state, hwVars, block>>

Inside(c) == Start(c) \/ PollWrite(c) \/ PollRead(c)

-----------------------------------------------------------------------------
(* What a chip on the bus sees *)

\* What it takes from the step to word i: a START or STOP, the bit of a pulse that
\* ends here, or nothing.  Data that moved during the pulse made it no bit.
PulseWords == 8     \* no pulse is longer
Seen(words, i) ==
  LET was == words[i-1]
      is == words[i]
      from == {j \in (i - PulseWords) .. (i - 1) :
                 /\ j > 1 /\ words[j-1].clock = 1
                 /\ \A k \in j .. i - 1 : words[k].clock = 0 /\ words[k].data = was.data}
  IN  IF i = 1 \/ was.clock = 1 THEN <<>>
      ELSE IF is.clock = 0
      THEN IF is.data = was.data THEN <<>> ELSE IF is.data = 1 THEN <<"S">> ELSE <<"P">>
      ELSE IF from = {} THEN <<>>
      ELSE IF \E j \in from : \E k \in j .. i - 1 : words[k].mode = 1 THEN <<"read">>
      ELSE IF was.data = 1 THEN <<"0">> ELSE <<"1">>

Signals(words) == FlattenSeq([i \in DOMAIN words |-> Seen(words, i)])
Wire == [p \in Programs |-> Signals(Program[p])]

\* What it should see: START, the address and the bytes, each with a slot in which
\* the data line is free for the acknowledgement; for a read a second START, the
\* address again, and the bytes sampled, all but the last acknowledged; STOP.
Bytewise(v) == [k \in 1 .. 8 |-> IF BitsOf(v, 8)[k] = 1 THEN "1" ELSE "0"] \o <<"1">>
Transfer == [w \in Blocks |->
  <<"S">> \o Bytewise(2 * w.addr) \o FlattenSeq([n \in DOMAIN w.value |-> Bytewise(w.value[n])])
  \o (IF w.read = 0 THEN <<>>
      ELSE <<"S">> \o Bytewise((2 * w.addr) + 1)
           \o FlattenSeq([n \in 1 .. w.read |->
                [k \in 1 .. 8 |-> "read"] \o <<IF n = w.read THEN "1" ELSE "0">>]))
  \o <<"P">>]

-----------------------------------------------------------------------------
(* Properties *)

Misread ==
  {p \in Programs : \/ Wire[p] # (IF p[1] THEN <<"S", "P">> ELSE <<>>) \o Transfer[p[2]]
                    \/ Len(Program[p]) > ProgramWords}
Begun(c) == running[Card(c)] = c /\ pc[c] = "poll" /\ polls[c] = 0

Races(words, clock) ==
  Cardinality({i \in 1 .. Len(words) - 1 :
    /\ words[i].clock = clock /\ words[i+1].clock = 1 - clock
    /\ words[i].data # words[i+1].data})
Racing ==
  {p \in Programs : \/ Races(Program[p], 1) # 0
                    \/ Races(Program[p], 0) # (IF p[2].read > 1 THEN p[2].read - 1 ELSE 0)}

\* The chips see the transfer the caller asked for, bit for bit, and before the
\* driver's first one an empty START-STOP; the program fits the FIFO; and the data
\* line never moves while the clock rises, and with a falling clock only after a byte
\* of a longer read was acknowledged.
ChipsSee ==
  \A c \in Callers :
    Begun(c) => /\ fifo[Card(c)][2] = block[c]
                /\ fifo[Card(c)] \notin Misread \cup Racing

\* i2c_read returns the answer to its own transfer, although the tuners of a card
\* share it, unless the FIFO hangs.
OwnAnswer ==
  [][\A c \in Callers : pc[c] = "return" /\ pc'[c] = "idle" /\ block[c].read # 0 =>
       Answer(c) = c \/ hung[Card(c)]]_vars
=============================================================================
