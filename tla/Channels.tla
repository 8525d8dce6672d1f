----------------------------- MODULE Channels -----------------------------
(***************************************************************************)
(* From the name of a channel to the tuner's frequency: searchrecoff and     *)
(* the tables of pt1_dev.base.h turn a name into a frequency number and a     *)
(* slot; the driver turns the number into the words of a PLL (bs_pll in       *)
(* pt1_tuner_data.c, getfrequency in pt1_tuner.c).  A name is a pair of its    *)
(* letters and its number, a BS name has its slot as well.                    *)
(***************************************************************************)
EXTENDS Integers, Sequences

Plain == "plain"      \* the letters of a name that is a number alone

MAX_BS_CHANNEL == 36
ISDB_T_NODE_LIMIT == 24
ISDB_T_SLOT_LIMIT == 8

-----------------------------------------------------------------------------
(* pt1_dev.base.h *)

\* The services listed with a satellite channel: <<set_freq, add_freq, name>>.
Services == {
  <<0, 0, 151>>, <<0, 1, 161>>, <<0, 2, 171>>, <<1, 0, 191>>, <<1, 1, 236>>, <<1, 2, 251>>,
  <<2, 0, 192>>, <<2, 1, 193>>, <<3, 0, 451>>, <<3, 1, 471>>, <<3, 2, 441>>, <<4, 0, 211>>,
  <<4, 1, 222>>, <<6, 0, 141>>, <<6, 1, 181>>, <<6, 2, 231>>, <<6, 2, 232>>, <<6, 2, 531>>,
  <<7, 0, 101>>, <<7, 0, 102>>, <<7, 1, 201>>, <<7, 2, 200>>, <<8, 0, 401>>, <<8, 1, 461>>,
  <<8, 2, 481>>, <<9, 0, 245>>, <<9, 1, 242>>, <<9, 2, 243>>, <<9, 3, 244>>, <<10, 0, 252>>,
  <<10, 1, 255>>, <<10, 2, 234>>, <<11, 0, 256>>, <<11, 1, 265>>, <<11, 2, 260>> }

\* CS2, CS4 and so on: even numbers, from 12 on
CsEntry(n) == [freq |-> 11 + (n \div 2), slot |-> 0, type |-> "S"]

\* Terrestrial names in the order of their frequencies
Ground(letter, n) ==
  CASE letter = "C" /\ n \in 13 .. 22 -> n - 10
    [] letter = "C" /\ n \in 23 .. 63 -> n - 1
    [] letter = Plain /\ n \in 1 .. 3 -> n - 1
    [] letter = Plain /\ n \in 4 .. 12 -> n + 9
    [] letter = Plain /\ n \in 13 .. 62 -> n + 50
GroundNames == ({"C"} \X (13 .. 63)) \cup ({Plain} \X (1 .. 62))

-----------------------------------------------------------------------------
(* searchrecoff *)

Invalid == [freq |-> -1, slot |-> 0, type |-> "none"]

\* BS<node>_<slot>: an odd node below the limit, a slot of one digit
NodeAsIs(node) == node                                     \* mutant
NodeToFreq(node) == node \div 2
BsEntry(node, slot) ==
  IF node % 2 = 1 /\ node < ISDB_T_NODE_LIMIT /\ slot < ISDB_T_SLOT_LIMIT
  THEN [freq |-> NodeToFreq(node), slot |-> slot, type |-> "S"]
  ELSE Invalid

searchrecoff(name) ==
  IF name[1] = "BS" THEN BsEntry(name[2], name[3])
  ELSE IF name[1] = "CS"
  THEN IF name[2] \in 2 .. 24 /\ name[2] % 2 = 0 THEN CsEntry(name[2]) ELSE Invalid
  ELSE IF name \in GroundNames
  THEN [freq |-> Ground(name[1], name[2]), slot |-> 0, type |-> "T"]
  ELSE IF \E s \in Services : s[3] = name[2] /\ name[1] = Plain
  THEN LET s == CHOOSE s \in Services : s[3] = name[2]
       IN  [freq |-> s[1], slot |-> s[2], type |-> "S"]
  ELSE Invalid

-----------------------------------------------------------------------------
(* The driver's tables *)

\* Per satellite channel the frequency word of its first block and the last byte,
\* which names the band: BS-1 to BS-23, ND-2 to ND-24, ND-1 to ND-23.
BsWords == <<
  <<18473, 210>>, <<17472, 226>>, <<17510, 226>>, <<17549, 32>>, <<17587, 32>>, <<17625, 32>>,
  <<17664, 32>>, <<17702, 64>>, <<17740, 64>>, <<17779, 64>>, <<17817, 64>>, <<17855, 96>> >>
NdEvenWords == <<
  <<17997, 96>>, <<18037, 128>>, <<18077, 128>>, <<18117, 128>>, <<18157, 128>>, <<18197, 160>>,
  <<18237, 160>>, <<18277, 160>>, <<18317, 160>>, <<18357, 192>>, <<18397, 192>>, <<18437, 192>> >>
NdOddWords == <<
  <<17977, 96>>, <<18017, 128>>, <<18057, 128>>, <<18097, 128>>, <<18137, 128>>, <<18177, 160>>,
  <<18217, 160>>, <<18257, 160>>, <<18297, 160>>, <<18337, 160>>, <<18377, 192>>, <<18417, 192>> >>
bs_pll == BsWords \o NdEvenWords \o NdOddWords

\* The three commands of a satellite channel: word and band, the common one, and
\* the band again with bit 2 set.
Bytes2(word) == <<word \div 256, word % 256>>
BsCommands(channel) ==
  LET entry == bs_pll[channel + 1] IN
  << <<254, 192>> \o Bytes2(entry[1]) \o <<224, entry[2]>>,
     <<254, 192, 228>>,
     <<254, 192, 244, entry[2] + 4>> >>

\* The offsets of the terrestrial plan, with the unsigned arithmetic of the code
FrequencyOffset(channel) ==
  IF channel < 12 THEN 0 ELSE IF channel < 17 THEN 2 ELSE IF channel < 63 THEN 0 ELSE 2
getfrequency(channel, addfreq) == (7 * (93 + (channel * 6) + FrequencyOffset(channel) + addfreq)) + 400

isdb_t_freq_add == <<
  <<7, 32897>>, <<12, 32929>>, <<21, 32866>>, <<39, 32930>>, <<51, 32994>>,
  <<59, 32868>>, <<75, 32900>>, <<84, 32932>>, <<100, 32964>>, <<112, 32996>> >>
getfrequency_add(channel) ==
  LET fits == {row \in DOMAIN isdb_t_freq_add : channel <= isdb_t_freq_add[row][1]} IN
  IF fits = {} THEN 0
  ELSE isdb_t_freq_add[CHOOSE row \in fits : \A k \in fits : row <= k][2]

TCommand(channel, addfreq) ==
  <<254, 194>> \o Bytes2(getfrequency(channel, addfreq)) \o Bytes2(getfrequency_add(channel))

-----------------------------------------------------------------------------
(* What the words mean to the PLLs, in MHz: the satellite one divides by N * P + A,  *)
(* with P = 32, or 16 in the lowest band; the terrestrial one counts sevenths of   *)
(* a MHz above its intermediate frequency of 57 MHz.                                *)

BsMHz(entry) ==
  (((entry[1] % 16384) \div 32) * (IF entry[2] = 210 THEN 16 ELSE 32)) + (entry[1] % 32)
TMHz(word) == (word \div 7) - 57

\* The tuner's frequency after SetFreq, if the number is one of the table
Tuned(entry) ==
  IF entry.type = "S" THEN BsMHz(bs_pll[entry.freq + 1])
  ELSE TMHz(getfrequency(entry.freq, entry.slot))

\* The broadcasters' plan, in 1/100 MHz: BS 19.18 MHz apart from 1049.48, CS 40 MHz
\* apart from 1613; television channels in their bands, 6 MHz apart.
Bs(node) == 104948 + (1918 * (node - 1))
Band(n, first, mhz) == 100 * (mhz + (6 * (n - first)))
Plan(name) ==
  LET n == name[2] IN
  CASE name[1] = "BS" -> Bs(n)
    [] name[1] = "CS" -> 161300 + (2000 * (n - 2))
    [] name[1] = "C" /\ n \in 13 .. 21 -> Band(n, 13, 111)
    [] name = <<"C", 22>> -> 16700
    [] name[1] = "C" /\ n \in 23 .. 63 -> Band(n, 23, 225)
    [] name[1] = Plain /\ n \in 1 .. 3 -> Band(n, 1, 93)
    [] name[1] = Plain /\ n \in 4 .. 7 -> Band(n, 4, 173)
    [] name[1] = Plain /\ n \in 8 .. 12 -> Band(n, 8, 195)
    [] name[1] = Plain /\ n \in 13 .. 62 -> Band(n, 13, 473)

\* A tuner is on the plan's frequency to half a MHz.
OnPlan(mhz, name) == LET off == (100 * mhz) - Plan(name) IN -50 <= off /\ off <= 50

BsNames == {<<"BS", node, slot>> : node \in {2 * k - 1 : k \in 1 .. 12}, slot \in 0 .. 7}
CsNames == {<<"CS", 2 * k>> : k \in 1 .. 12}
=============================================================================
