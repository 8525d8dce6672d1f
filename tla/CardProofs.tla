----------------------------- MODULE CardProofs -----------------------------
(***************************************************************************)
(* Proofs about Card: for any number of cards, slots, tuners and DMA pages, *)
(* nothing is given back that is not held and nothing but the known is left *)
(* (NothingLeft), open meets no freed memory (OpenSafe) and finds the card  *)
(* (Reachable), the card writes into no freed buffer (DmaSafe), and the     *)
(* tuners that nobody uses sleep (AsleepUnlessOpen).                        *)
(*                                                                         *)
(* One inductive invariant carries all five: for every phase the resources  *)
(* that a card holds at least and at most, and how device[] and card_number *)
(* point at each other.                                                     *)
(***************************************************************************)
EXTENDS Card, WellFoundedInduction, TLAPS

-----------------------------------------------------------------------------
(* The invariant *)

Phases ==
  {"absent", "allocate", "map", "fpga", "tuners", "register", "channels", "dma", "start",
   "ready", "stop", "channelsoff", "clear", "free", "removed",
   "refused", "regbase", "late", "nomemory", "oops"}

TypeOK ==
  /\ phase \in [Confs -> Phases]
  /\ held \in [Confs -> SUBSET Resources]
  /\ chip \in [Confs -> [Chans -> {"off", "reset", "sleep", "awake"}]]
  /\ dma \in [Confs -> {"off", "on", "stopping", "hung"}]
  /\ polls \in [Confs -> Nat]
  /\ user \in [Confs -> SUBSET Chans]
  /\ device \in [Slots -> Confs \cup {None}]
  /\ card_number \in [Confs -> Slots]
  /\ vacated \subseteq Slots

\* From the probe's loop over the channels to the end of the removal's
Working == {"channels", "dma", "start", "ready", "stop", "channelsoff"}

\* What a card in phase p with k in its loop holds at least ...
AtLeast(p, k, h) ==
  /\ p \in Working \cup {"map", "fpga", "tuners", "register"} => Memory \subseteq h
  /\ p \in Working \cup {"fpga", "tuners", "register"} => Registers \subseteq h
  /\ p \in Working \cup {"tuners", "register"} => Power \in h
  /\ p \in Working => One("chrdev") \in h
  /\ p \in {"clear", "free", "nomemory", "oops"} => One("conf") \in h
  /\ p = "channels" => {r \in PerChannel : r[2] < k} \subseteq h
  /\ p = "channelsoff" => {r \in PerChannel : r[2] >= k} \subseteq h
  /\ p \in {"dma", "start", "ready", "stop"} => PerChannel \subseteq h
  /\ p \in {"start", "ready", "stop"} => Pages \cup Data \subseteq h

\* ... and at most, by the kind of the resource
Failed == {"nomemory", "oops"}
Buffered == {"dma", "start", "ready", "stop", "oops"}

MayHave(p, k, r) ==
  /\ r[1] = "dmactl" =>
       p \in Working \cup Failed \cup {"map", "fpga", "tuners", "register", "regbase"}
  /\ r[1] = "conf" =>
       p \in Working \cup Failed
            \cup {"map", "fpga", "tuners", "register", "regbase", "clear", "free"}
  /\ r[1] = "region" =>
       p \in Working \cup Failed \cup {"fpga", "tuners", "register", "regbase"}
  /\ r[1] = "regs" => p \in Working \cup Failed \cup {"fpga", "tuners", "register"}
  /\ r[1] = "power" => p \in Working \cup Failed \cup {"tuners", "register"}
  /\ r[1] = "chrdev" => p \in Working \cup Failed \cup {"late"}
  /\ r[1] \in {"cdev", "node"} => p \in Working \cup Failed \cup {"late"}
  /\ r[1] \in {"channel", "buf"} => p \in Working \cup Failed
  /\ r[1] \in {"channel", "buf", "node"} /\ p = "channels" => r[2] < k
  /\ r[1] \in {"cdev", "channel", "buf", "node"} /\ p = "channelsoff" => r[2] >= k
  /\ r[1] \in {"dmaptr", "data"} => p \in Buffered
  /\ r[1] = "kthread" => p = "ready"

\* A buffer's page is taken before it and freed with it.
AtMost(p, k, h) ==
  \A r \in h : MayHave(p, k, r) /\ (r[1] = "data" => PageOf(r) \in h)

Fits(c) ==
  AtLeast(phase[c], polls[c], held[c]) /\ AtMost(phase[c], polls[c], held[c])

\* The card's DMA runs only for a card with its thread, and while remove waits for it.
DmaTimed(c) ==
  /\ phase[c] \in {"start", "ready"} => polls[c] = 0
  /\ dma[c] = "on" => phase[c] = "ready" /\ One("kthread") \in held[c]
  /\ dma[c] = "stopping" => phase[c] = "stop" /\ polls[c] <= StopTime

\* The chips, from the end of tuner_init until the removal
ChipsFit(c) ==
  /\ phase[c] \in {"absent", "allocate", "map", "fpga", "tuners", "register"} => user[c] = {}
  /\ phase[c] \in {"register", "channels", "dma", "start", "ready"} =>
       \A lp \in Chans : chip[c][lp] = IF lp \in user[c] THEN "awake" ELSE "sleep"

\* device[]: a card in it is at the place its card_number says ...
Listed == Working \cup {"clear", "late", "nomemory", "oops"}

InPlace ==
  \A i \in Slots : device[i] # None =>
    card_number[device[i]] = i /\ phase[device[i]] \in Listed

\* ... and, if there were never more cards than places, the other way round; an empty
\* place below it is one that a removal left.
Placed(c) ==
  phase[c] \in Listed =>
    /\ device[card_number[c]] = c
    /\ \A i \in Slots : i < card_number[c] /\ device[i] = None => i \in vacated

Table == InPlace /\ (~crowded => \A c \in Confs : Placed(c))

Inv ==
  /\ TypeOK
  /\ spurious = {}
  /\ \A c \in Confs : Fits(c) /\ DmaTimed(c) /\ ChipsFit(c)
  /\ Table
-----------------------------------------------------------------------------
(* Resources by their kind *)

LEMMA Constants ==
  /\ MAX_PCI_DEVICE \in Nat /\ MAX_PCI_DEVICE > 0
  /\ MAX_TUNER \in Nat /\ MAX_CHANNEL \in Nat
  /\ DMA_RING_SIZE \in Nat /\ DMA_RING_SIZE > 0
  /\ DMA_RING_MAX \in Nat /\ DMA_RING_MAX > 0
  /\ StopPolls \in Nat /\ StopTime \in Nat /\ StopTime < StopPolls
  /\ None \notin Confs
BY CardAssumption DEF MAX_CHANNEL

\* The buffer i of the ring lies behind one of its pages.
LEMMA Behind ==
  ASSUME NEW s \in Nat, NEW m \in Nat, m > 0, NEW i \in Nat, i < s * m
  PROVE  i \div m \in 0 .. s - 1
<1> DEFINE q == i \div m
           r == i % m
<1>1. q \in Int /\ r \in 0 .. m - 1 /\ i = m * q + r
  BY SMT
<1> HIDE DEF q, r
<1>2. q >= 0
  <2> SUFFICES ASSUME q <= 0 - 1  PROVE FALSE
    BY <1>1
  <2>1. m * q <= m * (0 - 1)
    BY <1>1, SMT
  <2> QED
    BY <1>1, <2>1
<1>3. q <= s - 1
  <2> SUFFICES ASSUME q >= s  PROVE FALSE
    BY <1>1
  <2>1. m * q >= s * m
    BY <1>1, SMT
  <2> QED
    BY <1>1, <2>1
<1> QED
  BY <1>1, <1>2, <1>3 DEF q

\* The kind of a resource says which set it is in.
LEMMA Kinds ==
  ASSUME NEW r
  PROVE  /\ r \in Ctl => r[1] = "dmactl" /\ r[2] \in Nat
         /\ r \in Pages => r[1] = "dmaptr" /\ r[2] \in Nat
         /\ r \in Data => r[1] = "data" /\ r[2] \in Nat
         /\ r \in PerChannel => r[1] \in {"cdev", "channel", "buf", "node"} /\ r[2] \in Chans
BY Constants DEF Ctl, Pages, Data, PerChannel, All, Chans

LEMMA OfKind ==
  ASSUME NEW r \in Resources
  PROVE  /\ r[1] = "dmactl" => r \in Ctl
         /\ r[1] = "dmaptr" => r \in Pages
         /\ r[1] = "data" => r \in Data
         /\ r[1] \in {"cdev", "channel", "buf", "node"} =>
              r \in PerChannel /\ r = <<r[1], r[2]>>
         /\ r[1] = "conf" => r = One("conf")
         /\ r[1] = "region" => r = One("region")
         /\ r[1] = "regs" => r = One("regs")
         /\ r[1] = "power" => r = Power
         /\ r[1] = "chrdev" => r = One("chrdev")
         /\ r[1] = "kthread" => r = One("kthread")
<1>1. \/ r \in Ctl \/ r \in Pages \/ r \in Data \/ r \in PerChannel
      \/ r \in {One("region"), One("regs"), One("conf"), One("enabled"), Power,
                One("chrdev"), One("kthread")}
  BY DEF Resources, Registers, Memory
<1>2. r \in PerChannel => r = <<r[1], r[2]>>
  BY DEF PerChannel
<1> QED
  BY <1>1, <1>2, Kinds DEF One, Power

\* A buffer's page is one of the pages.
LEMMA PageIsOne ==
  ASSUME NEW d \in Data
  PROVE  PageOf(d) \in Pages
<1>1. d[2] \in Nat /\ d[2] < DMA_RING_SIZE * DMA_RING_MAX
  <2>1. DMA_RING_SIZE * DMA_RING_MAX \in Nat
    BY Constants
  <2> QED
    BY <2>1 DEF Data, All
<1>2. d[2] \div DMA_RING_MAX \in 0 .. DMA_RING_SIZE - 1
  BY <1>1, Behind, Constants
<1> QED
  BY <1>2 DEF PageOf, Pages, All

-----------------------------------------------------------------------------
(* What a step leaves alone *)

Elsewhere(c) ==
  \A d \in Confs \ {c} :
    /\ phase'[d] = phase[d] /\ polls'[d] = polls[d] /\ held'[d] = held[d]
    /\ dma'[d] = dma[d] /\ chip'[d] = chip[d] /\ user'[d] = user[d]

\* A step of one card has to keep the invariant for that card and the table.
LEMMA Alone ==
  ASSUME Inv, TypeOK', NEW c \in Confs, Elsewhere(c), spurious' = {},
         AtLeast(phase[c], polls[c], held[c])', AtMost(phase[c], polls[c], held[c])',
         DmaTimed(c)', ChipsFit(c)', Table'
  PROVE  Inv'
<1>1. ASSUME NEW d \in Confs, d # c
      PROVE  (Fits(d) /\ DmaTimed(d) /\ ChipsFit(d))'
  <2>1. /\ phase'[d] = phase[d] /\ polls'[d] = polls[d] /\ held'[d] = held[d]
        /\ dma'[d] = dma[d] /\ chip'[d] = chip[d] /\ user'[d] = user[d]
    BY <1>1 DEF Elsewhere
  <2>2. Fits(d) /\ DmaTimed(d) /\ ChipsFit(d)
    BY DEF Inv
  <2>3. Fits(d)'
    BY <2>1, <2>2 DEF Fits
  <2>4. DmaTimed(d)'
    BY <2>1, <2>2 DEF DmaTimed
  <2>5. ChipsFit(d)'
    BY <2>1, <2>2 DEF ChipsFit
  <2> QED
    BY <2>3, <2>4, <2>5
<1>2. (Fits(c) /\ DmaTimed(c) /\ ChipsFit(c))'
  BY DEF Fits
<1> QED
  BY <1>1, <1>2 DEF Inv

\* device[] is as it was, and so is what is said of it, unless a card comes into the
\* table's phases or leaves them.
LEMMA TableStays ==
  ASSUME Inv, NEW c \in Confs, Elsewhere(c), UNCHANGED table,
         phase[c] \in Listed <=> phase'[c] \in Listed
  PROVE  Table'
<1>1. \A d \in Confs : phase[d] \in Listed <=> phase'[d] \in Listed
  BY DEF Elsewhere
<1>2. device' = device /\ card_number' = card_number /\ vacated' = vacated
  BY DEF table
<1>3. crowded' = crowded
  BY DEF table
<1>4. InPlace'
  <2> SUFFICES ASSUME NEW i \in Slots, device[i] # None
               PROVE  card_number[device[i]] = i /\ phase'[device[i]] \in Listed
    BY <1>2 DEF InPlace
  <2>1. device[i] \in Confs
    BY DEF Inv, TypeOK
  <2> QED
    BY <2>1, <1>1 DEF Inv, Table, InPlace
<1>5. \A d \in Confs : Placed(d) => Placed(d)'
  BY <1>1, <1>2 DEF Placed
<1> QED
  BY <1>3, <1>4, <1>5 DEF Inv, Table

\* What an error label does, if it gives back what the card has
LEMMA Failing ==
  ASSUME Inv, NEW c \in Confs, NEW freed, NEW p \in {"refused", "late"},
         Fail(c, freed, p), freed \subseteq held[c],
         phase[c] \in {"fpga", "tuners", "register", "dma"},
         p = "late" <=> phase[c] = "dma",
         \A r \in held[c] \ freed : MayHave(p, polls[c], r) /\ r[1] # "data"
  PROVE  Inv'
<1>1. /\ phase' = [phase EXCEPT ![c] = p] /\ held' = [held EXCEPT ![c] = @ \ freed]
      /\ chip' = [chip EXCEPT ![c] = [lp \in Chans |-> "off"]]
      /\ UNCHANGED <<dma, polls, user, table>>
  BY DEF Fail, Free, Goto, PowerOff
<1>2. spurious' = {}
  BY DEF Fail, Free, Inv
<1>3. TypeOK'
  BY <1>1 DEF Inv, TypeOK, Phases, table
<1>4. Elsewhere(c)
  BY <1>1 DEF Elsewhere, Inv, TypeOK
<1>5. phase'[c] = p /\ held'[c] = held[c] \ freed /\ polls'[c] = polls[c] /\ dma' = dma
  BY <1>1 DEF Inv, TypeOK
<1>6. AtLeast(phase[c], polls[c], held[c])'
  BY <1>5 DEF AtLeast, Working
<1>7. AtMost(phase[c], polls[c], held[c])'
  BY <1>5 DEF AtMost
<1>8. DmaTimed(c)'
  BY <1>5 DEF Inv, DmaTimed
<1>9. ChipsFit(c)'
  BY <1>5 DEF ChipsFit
<1>10. Table'
  <2>1. phase[c] \in Listed <=> phase'[c] \in Listed
    BY <1>5 DEF Listed, Working
  <2> QED
    BY <1>1, <1>4, <2>1, TableStays
<1> QED
  BY <1>2, <1>3, <1>4, <1>6, <1>7, <1>8, <1>9, <1>10, Alone

-----------------------------------------------------------------------------
(* The probe, step by step *)

LEMMA EnableStep ==
  ASSUME Inv, NEW c \in Confs, Enable(c)
  PROVE  Inv'
<1>1. PICK p \in {"allocate", "refused"}, h \in {{}, {One("enabled")}} :
        Take(c, h) /\ Goto(c, p)
  BY DEF Enable
<1>2. /\ phase[c] = "absent" /\ UNCHANGED <<chip, dma, polls, user, table>>
      /\ phase' = [phase EXCEPT ![c] = p] /\ held' = [held EXCEPT ![c] = @ \cup h]
  BY <1>1 DEF Enable, Goto, Take, hardware
<1>3. spurious' = {}
  BY <1>1 DEF Take, Inv
<1>4. h \subseteq Resources /\ \A r \in h : r[1] = "enabled"
  BY DEF Resources, One
<1>5. TypeOK'
  BY <1>2, <1>4 DEF Inv, TypeOK, Phases, table
<1>6. Elsewhere(c)
  BY <1>2 DEF Elsewhere, Inv, TypeOK
<1>7. phase'[c] = p /\ held'[c] = held[c] \cup h /\ polls'[c] = polls[c]
  BY <1>2 DEF Inv, TypeOK
<1>8. AtLeast(phase[c], polls[c], held[c])'
  BY <1>7 DEF AtLeast, Working
<1>9. AtMost(phase[c], polls[c], held[c])'
  <2>1. AtMost("absent", polls[c], held[c])
    BY <1>2 DEF Inv, Fits
  <2>2. \A r \in held[c] \cup h : MayHave(p, polls[c], r) /\ r[1] # "data"
    BY <1>4, <2>1 DEF AtMost, MayHave, Working, Failed, Buffered
  <2> QED
    BY <1>7, <2>2 DEF AtMost
<1>10. DmaTimed(c)' /\ ChipsFit(c)'
  BY <1>2, <1>7 DEF Inv, DmaTimed, ChipsFit
<1>11. Table'
  <2>1. phase[c] \notin Listed /\ phase'[c] \notin Listed
    BY <1>2, <1>7 DEF Listed, Working
  <2> QED
    BY <1>2, <1>6, <2>1, TableStays
<1> QED
  BY <1>3, <1>5, <1>6, <1>8, <1>9, <1>10, <1>11, Alone

LEMMA AllocateStep ==
  ASSUME Inv, NEW c \in Confs, Allocate(c)
  PROVE  Inv'
<1>1. PICK p \in {"map", "refused"}, h \in {{}, Memory} :
        Take(c, h) /\ Goto(c, p) /\ (p = "map" <=> h = Memory) /\ (p = "refused" <=> h = {})
  <2>1. Memory # {}
    BY DEF Memory
  <2> QED
    BY <2>1 DEF Allocate
<1>2. /\ phase[c] = "allocate" /\ UNCHANGED <<chip, dma, polls, user, table>>
      /\ phase' = [phase EXCEPT ![c] = p] /\ held' = [held EXCEPT ![c] = @ \cup h]
  BY <1>1 DEF Allocate, Goto, Take, hardware
<1>3. spurious' = {}
  BY <1>1 DEF Take, Inv
<1>4. h \subseteq Resources /\ \A r \in h : r[1] \in {"dmactl", "conf"}
  BY Kinds DEF Resources, Memory, One
<1>5. TypeOK'
  BY <1>2, <1>4 DEF Inv, TypeOK, Phases, table
<1>6. Elsewhere(c)
  BY <1>2 DEF Elsewhere, Inv, TypeOK
<1>7. phase'[c] = p /\ held'[c] = held[c] \cup h /\ polls'[c] = polls[c]
  BY <1>2 DEF Inv, TypeOK
<1>8. AtLeast(phase[c], polls[c], held[c])'
  BY <1>1, <1>7 DEF AtLeast, Working
<1>9. AtMost(phase[c], polls[c], held[c])'
  <2>1. AtMost("allocate", polls[c], held[c])
    BY <1>2 DEF Inv, Fits
  <2>2. \A r \in held[c] \cup h : MayHave(p, polls[c], r) /\ r[1] # "data"
    BY <1>1, <1>4, <2>1 DEF AtMost, MayHave, Working, Failed, Buffered
  <2> QED
    BY <1>7, <2>2 DEF AtMost
<1>10. DmaTimed(c)' /\ ChipsFit(c)'
  BY <1>2, <1>7 DEF Inv, DmaTimed, ChipsFit
<1>11. Table'
  <2>1. phase[c] \notin Listed /\ phase'[c] \notin Listed
    BY <1>2, <1>7 DEF Listed, Working
  <2> QED
    BY <1>2, <1>6, <2>1, TableStays
<1> QED
  BY <1>3, <1>5, <1>6, <1>8, <1>9, <1>10, <1>11, Alone

\* out_err_regbase gives nothing back, and the invariant allows for that.
LEMMA MapRegistersStep ==
  ASSUME Inv, NEW c \in Confs, MapRegisters(c)
  PROVE  Inv'
<1>1. PICK p \in {"fpga", "regbase"}, h \in {{}, {One("region")}, Registers} :
        Take(c, h) /\ Goto(c, p) /\ (p = "fpga" <=> h = Registers)
  <2>1. Registers # {} /\ Registers # {One("region")}
    <3>1. One("regs") \in Registers /\ One("regs") # One("region")
      BY DEF Registers, One
    <3> QED
      BY <3>1
  <2> QED
    BY <2>1 DEF MapRegisters
<1>2. /\ phase[c] = "map" /\ UNCHANGED <<chip, dma, polls, user, table>>
      /\ phase' = [phase EXCEPT ![c] = p] /\ held' = [held EXCEPT ![c] = @ \cup h]
  BY <1>1 DEF MapRegisters, Goto, Take, hardware
<1>3. spurious' = {}
  BY <1>1 DEF Take, Inv
<1>4. /\ h \subseteq Resources
      /\ \A r \in h : r[1] = "region" \/ (p = "fpga" /\ r[1] = "regs")
  BY <1>1 DEF Resources, Registers, One
<1>5. TypeOK'
  BY <1>2, <1>4 DEF Inv, TypeOK, Phases, table
<1>6. Elsewhere(c)
  BY <1>2 DEF Elsewhere, Inv, TypeOK
<1>7. phase'[c] = p /\ held'[c] = held[c] \cup h /\ polls'[c] = polls[c]
  BY <1>2 DEF Inv, TypeOK
<1>8. AtLeast(phase[c], polls[c], held[c])'
  <2>1. AtLeast("map", polls[c], held[c])
    BY <1>2 DEF Inv, Fits
  <2> QED
    BY <1>1, <1>7, <2>1 DEF AtLeast, Working
<1>9. AtMost(phase[c], polls[c], held[c])'
  <2>1. AtMost("map", polls[c], held[c])
    BY <1>2 DEF Inv, Fits
  <2>2. \A r \in held[c] \cup h : MayHave(p, polls[c], r) /\ r[1] # "data"
    BY <1>4, <2>1 DEF AtMost, MayHave, Working, Failed, Buffered
  <2> QED
    BY <1>7, <2>2 DEF AtMost
<1>10. DmaTimed(c)' /\ ChipsFit(c)'
  BY <1>2, <1>7 DEF Inv, DmaTimed, ChipsFit
<1>11. Table'
  <2>1. phase[c] \notin Listed /\ phase'[c] \notin Listed
    BY <1>2, <1>7 DEF Listed, Working
  <2> QED
    BY <1>2, <1>6, <2>1, TableStays
<1> QED
  BY <1>3, <1>5, <1>6, <1>8, <1>9, <1>10, <1>11, Alone

\* What out_err_fpga gives back is all that such a card has, but that it is enabled.
LEMMA AllGiven ==
  ASSUME Inv, NEW c \in Confs, phase[c] \in {"tuners", "register"}
  PROVE  /\ out_err_fpga(c) \subseteq held[c]
         /\ \A r \in held[c] \ out_err_fpga(c) :
              MayHave("refused", polls[c], r) /\ r[1] # "data"
<1>1. AtLeast(phase[c], polls[c], held[c]) /\ AtMost(phase[c], polls[c], held[c])
  BY DEF Inv, Fits
<1>2. out_err_fpga(c) \subseteq held[c]
  BY <1>1 DEF AtLeast, out_err_fpga
<1>3. ASSUME NEW r \in held[c], r \notin out_err_fpga(c)
      PROVE  MayHave("refused", polls[c], r) /\ r[1] # "data"
  <2>1. r \in Resources
    BY DEF Inv, TypeOK
  <2>2. r[1] \notin {"dmactl", "conf", "region", "regs", "power"}
    BY <1>3, <2>1, OfKind DEF out_err_fpga, Memory, Registers
  <2>3. MayHave(phase[c], polls[c], r)
    BY <1>1 DEF AtMost
  <2> QED
    BY <2>2, <2>3 DEF MayHave, Working, Failed, Buffered
<1> QED
  BY <1>2, <1>3

LEMMA FpgaStep ==
  ASSUME Inv, NEW c \in Confs, Fpga(c)
  PROVE  Inv'
<1>0. /\ phase[c] = "fpga"
      /\ AtLeast("fpga", polls[c], held[c]) /\ AtMost("fpga", polls[c], held[c])
  BY DEF Fpga, Inv, Fits
<1>1. CASE Fail(c, out_err_fpga(c) \ {Power}, "refused")
  <2>1. out_err_fpga(c) \ {Power} \subseteq held[c]
    BY <1>0 DEF AtLeast, out_err_fpga
  <2>2. ASSUME NEW r \in held[c], r \notin out_err_fpga(c) \ {Power}
        PROVE  MayHave("refused", polls[c], r) /\ r[1] # "data"
    <3>1. r \in Resources
      BY DEF Inv, TypeOK
    <3>2. MayHave("fpga", polls[c], r)
      BY <1>0 DEF AtMost
    <3>3. r[1] # "power"
      BY <3>2 DEF MayHave, Working, Failed
    <3>4. r # Power
      BY <3>3 DEF Power, One
    <3>5. r[1] \notin {"dmactl", "conf", "region", "regs"}
      BY <2>2, <3>1, <3>4, OfKind DEF out_err_fpga, Memory, Registers
    <3> QED
      BY <3>2, <3>3, <3>5 DEF MayHave, Working, Failed, Buffered
  <2> QED
    BY <1>0, <1>1, <2>1, <2>2, Failing
<1>2. CASE /\ Take(c, {Power}) /\ Goto(c, "tuners")
           /\ chip' = [chip EXCEPT ![c] = [lp \in Chans |-> "reset"]]
           /\ UNCHANGED <<dma, polls, user, table>>
  <2>1. /\ phase' = [phase EXCEPT ![c] = "tuners"]
        /\ held' = [held EXCEPT ![c] = @ \cup {Power}] /\ spurious' = {}
    BY <1>2 DEF Goto, Take, Inv
  <2>2. Power \in Resources /\ Power[1] = "power"
    BY DEF Resources, Power, One
  <2>3. TypeOK'
    BY <1>2, <2>1, <2>2 DEF Inv, TypeOK, Phases, table
  <2>4. Elsewhere(c)
    BY <1>2, <2>1 DEF Elsewhere, Inv, TypeOK
  <2>5. phase'[c] = "tuners" /\ held'[c] = held[c] \cup {Power} /\ polls'[c] = polls[c]
    BY <1>2, <2>1 DEF Inv, TypeOK
  <2>6. AtLeast(phase[c], polls[c], held[c])'
    BY <1>0, <2>5 DEF AtLeast, Working
  <2>7. AtMost(phase[c], polls[c], held[c])'
    <3>1. \A r \in held[c] \cup {Power} : MayHave("tuners", polls[c], r) /\ r[1] # "data"
      BY <1>0, <2>2 DEF AtMost, MayHave, Working, Failed, Buffered
    <3> QED
      BY <2>5, <3>1 DEF AtMost
  <2>8. DmaTimed(c)' /\ ChipsFit(c)'
    BY <1>0, <1>2, <2>5 DEF Inv, DmaTimed, ChipsFit
  <2>9. Table'
    <3>1. phase[c] \notin Listed /\ phase'[c] \notin Listed
      BY <1>0, <2>5 DEF Listed, Working
    <3> QED
      BY <1>2, <2>4, <3>1, TableStays
  <2> QED
    BY <2>1, <2>3, <2>4, <2>6, <2>7, <2>8, <2>9, Alone
<1> QED
  BY <1>1, <1>2 DEF Fpga

\* tuner_init ends with both chips asleep, which is where ChipsFit begins.
LEMMA TunersStep ==
  ASSUME Inv, NEW c \in Confs, Tuners(c)
  PROVE  Inv'
<1>0. /\ phase[c] = "tuners"
      /\ AtLeast("tuners", polls[c], held[c]) /\ AtMost("tuners", polls[c], held[c])
  BY DEF Tuners, Inv, Fits
<1>1. CASE Fail(c, out_err_fpga(c), "refused")
  BY <1>0, <1>1, AllGiven, Failing
<1>2. CASE /\ chip' = [chip EXCEPT ![c] = Sleep(@)]
           /\ Goto(c, "register") /\ Take(c, {})
           /\ UNCHANGED <<dma, polls, user, table>>
  <2>1. /\ phase' = [phase EXCEPT ![c] = "register"] /\ held' = held /\ spurious' = {}
        /\ chip' = [chip EXCEPT ![c] = [lp \in Chans |-> "sleep"]]
    BY <1>2 DEF Goto, Take, Inv, TypeOK, Sleep
  <2>2. TypeOK'
    BY <1>2, <2>1 DEF Inv, TypeOK, Phases, table
  <2>3. Elsewhere(c)
    BY <1>2, <2>1 DEF Elsewhere, Inv, TypeOK
  <2>4. phase'[c] = "register" /\ held'[c] = held[c] /\ polls'[c] = polls[c]
    BY <1>2, <2>1 DEF Inv, TypeOK
  <2>5. AtLeast(phase[c], polls[c], held[c])'
    BY <1>0, <2>4 DEF AtLeast, Working
  <2>6. AtMost(phase[c], polls[c], held[c])'
    BY <1>0, <2>4 DEF AtMost, MayHave, Working, Failed, Buffered
  <2>7. DmaTimed(c)'
    BY <1>0, <1>2, <2>4 DEF Inv, DmaTimed
  <2>8. ChipsFit(c)'
    <3>1. chip'[c] = [lp \in Chans |-> "sleep"] /\ user'[c] = {}
      BY <1>0, <1>2, <2>1 DEF Inv, TypeOK, ChipsFit
    <3> QED
      BY <3>1 DEF ChipsFit
  <2>9. Table'
    <3>1. phase[c] \notin Listed /\ phase'[c] \notin Listed
      BY <1>0, <2>4 DEF Listed, Working
    <3> QED
      BY <1>2, <2>3, <3>1, TableStays
  <2> QED
    BY <2>1, <2>2, <2>3, <2>5, <2>6, <2>7, <2>8, <2>9, Alone
<1> QED
  BY <1>1, <1>2 DEF Tuners

\* The first of some places is one of them, and no other is before it.
LEMMA First ==
  ASSUME NEW S \in SUBSET Slots, S # {}
  PROVE  Min(S) \in S /\ \A i \in S : Min(S) <= i
<1>1. IsWellFoundedOn(OpToRel(<, Nat), Nat)
  BY NatLessThanWellFounded
<1>2. S \subseteq Nat
  BY Constants DEF Slots
<1>3. PICK x \in S : \A y \in S : ~(<<y, x>> \in OpToRel(<, Nat))
  BY <1>1, <1>2, WFMin
<1>4. \A y \in S : x <= y
  <2> SUFFICES ASSUME NEW y \in S, ~(x <= y)  PROVE FALSE
    OBVIOUS
  <2>1. x \in Nat /\ y \in Nat /\ y < x
    BY <1>2
  <2>2. <<y, x>> \in OpToRel(<, Nat)
    BY <2>1 DEF OpToRel
  <2> QED
    BY <1>3, <2>2
<1> QED
  BY <1>4 DEF Min

\* A card that registers takes the first free place; what is empty below it was
\* left by a removal, because its place was the first.
LEMMA RegisterStep ==
  ASSUME Inv, NEW c \in Confs, Register(c)
  PROVE  Inv'
<1>0. /\ phase[c] = "register"
      /\ AtLeast("register", polls[c], held[c]) /\ AtMost("register", polls[c], held[c])
  BY DEF Register, Inv, Fits
<1>1. CASE Fail(c, out_err_fpga(c), "refused")
  BY <1>0, <1>1, AllGiven, Failing
<1> DEFINE free == {i \in Slots : Free_(i)}
           Places ==
             IF free = {}
             THEN crowded' = TRUE /\ UNCHANGED <<device, card_number, vacated>>
             ELSE /\ device' = [device EXCEPT ![Min(free)] = c]
                  /\ card_number' = [card_number EXCEPT ![c] = Min(free)]
                  /\ vacated' = vacated \ {Min(free)}
                  /\ UNCHANGED crowded
<1>2. CASE ~Fail(c, out_err_fpga(c), "refused")
  <2>1. /\ phase' = [phase EXCEPT ![c] = "channels"]
        /\ held' = [held EXCEPT ![c] = @ \cup {One("chrdev")}] /\ spurious' = {}
        /\ polls' = [polls EXCEPT ![c] = 0]
        /\ UNCHANGED <<chip, dma, user>>
    BY <1>2 DEF Register, Goto, Take, Inv, hardware
  <2>2. Places
    BY <1>2 DEF Register, FirstFree, Number
  <2>3. One("chrdev") \in Resources /\ One("chrdev")[1] = "chrdev"
    BY DEF Resources, One
  <2>4. free # {} => Min(free) \in Slots /\ Free_(Min(free)) /\ \A i \in free : Min(free) <= i
    <3> SUFFICES ASSUME free # {}  PROVE Min(free) \in free /\ \A i \in free : Min(free) <= i
      OBVIOUS
    <3> QED
      BY First
  <2>5. /\ device' \in [Slots -> Confs \cup {None}] /\ card_number' \in [Confs -> Slots]
        /\ vacated' \subseteq Slots
    BY <2>2, <2>4 DEF Inv, TypeOK
  <2>6. TypeOK'
    BY <2>1, <2>3, <2>5 DEF Inv, TypeOK, Phases
  <2>7. Elsewhere(c)
    BY <2>1 DEF Elsewhere, Inv, TypeOK
  <2>8. phase'[c] = "channels" /\ held'[c] = held[c] \cup {One("chrdev")} /\ polls'[c] = 0
    BY <2>1 DEF Inv, TypeOK
  <2>9. AtLeast(phase[c], polls[c], held[c])'
    <3>1. \A r \in PerChannel : ~(r[2] < 0)
      BY Kinds, Constants DEF Chans
    <3> QED
      BY <1>0, <2>8, <3>1 DEF AtLeast, Working
  <2>10. AtMost(phase[c], polls[c], held[c])'
    <3>1. \A r \in held[c] \cup {One("chrdev")} : MayHave("channels", 0, r) /\ r[1] # "data"
      BY <1>0, <2>3 DEF AtMost, MayHave, Working, Failed, Buffered
    <3> QED
      BY <2>8, <3>1 DEF AtMost
  <2>11. DmaTimed(c)' /\ ChipsFit(c)'
    BY <1>0, <2>1, <2>8 DEF Inv, DmaTimed, ChipsFit
  <2>12. \A d \in Confs : phase'[d] \in Listed <=> phase[d] \in Listed \/ d = c
    BY <2>7, <2>8 DEF Elsewhere, Listed, Working
  <2>13. phase[c] \notin Listed
    BY <1>0 DEF Listed, Working
  <2>14. Table'
    <3>1. CASE free = {}
      <4>1. crowded' /\ UNCHANGED <<device, card_number>>
        BY <2>2, <3>1
      <4>2. InPlace'
        BY <4>1, <2>12 DEF InPlace, Inv, Table, TypeOK
      <4> QED
        BY <4>1, <4>2 DEF Table
    <3>2. CASE free # {}
      <4>1. PICK n \in Slots : /\ n = Min(free) /\ device[n] = None
                               /\ \A i \in Slots : device[i] = None => n <= i
        BY <2>4, <3>2 DEF Free_
      <4>2. /\ device' = [device EXCEPT ![n] = c]
            /\ card_number' = [card_number EXCEPT ![c] = n]
            /\ vacated' = vacated \ {n}
        BY <2>2, <3>2, <4>1
      <4>3. crowded' = crowded
        BY <2>2, <3>2
      <4>4. \A i \in Slots : device[i] # c
        BY <2>13, Constants DEF Inv, Table, InPlace
      <4>5. \A i \in Slots : device'[i] = IF i = n THEN c ELSE device[i]
        BY <4>2 DEF Inv, TypeOK
      <4>6. \A d \in Confs : card_number'[d] = IF d = c THEN n ELSE card_number[d]
        BY <4>2 DEF Inv, TypeOK
      <4>7. InPlace'
        <5> SUFFICES ASSUME NEW i \in Slots, device'[i] # None
                     PROVE  card_number'[device'[i]] = i /\ phase'[device'[i]] \in Listed
          BY DEF InPlace
        <5>1. CASE i = n
          BY <5>1, <4>5, <4>6, <2>12
        <5>2. CASE i # n
          <6>1. device'[i] = device[i] /\ device[i] \in Confs /\ device[i] # c
            BY <5>2, <4>4, <4>5 DEF Inv, TypeOK
          <6> QED
            BY <6>1, <4>6, <2>12 DEF Inv, Table, InPlace
        <5> QED
          BY <5>1, <5>2
      <4>8. ASSUME NEW d \in Confs, ~crowded  PROVE Placed(d)'
        <5>1. CASE d = c
          <6>1. card_number'[c] = n /\ device'[n] = c
            BY <4>5, <4>6
          <6>2. \A i \in Slots : i < n => device[i] # None /\ i # n
            BY <4>1, Constants DEF Slots
          <6>3. \A i \in Slots : i < n => device'[i] # None
            BY <6>2, <4>5
          <6> QED
            BY <5>1, <6>1, <6>3 DEF Placed
        <5>2. CASE d # c
          <6> SUFFICES ASSUME phase[d] \in Listed
                       PROVE  /\ device'[card_number[d]] = d
                              /\ \A i \in Slots : i < card_number[d] /\ device'[i] = None
                                   => i \in vacated'
            BY <5>2, <2>12, <4>6 DEF Placed
          <6>1. /\ device[card_number[d]] = d
                /\ \A i \in Slots : i < card_number[d] /\ device[i] = None => i \in vacated
            BY <4>8 DEF Inv, Table, Placed
          <6>2. card_number[d] \in Slots /\ card_number[d] # n
            BY <6>1, <4>1, Constants DEF Inv, TypeOK
          <6>3. \A i \in Slots : device'[i] = None => device[i] = None /\ i # n
            BY <4>5, Constants
          <6> QED
            BY <6>1, <6>2, <6>3, <4>2, <4>5
        <5> QED
          BY <5>1, <5>2
      <4> QED
        BY <4>3, <4>7, <4>8 DEF Table
    <3> QED
      BY <3>1, <3>2
  <2> QED
    BY <2>1, <2>6, <2>7, <2>9, <2>10, <2>11, <2>14, Alone
<1> QED
  BY <1>1, <1>2

\* A round of the loop over the channels; the three ways out of it differ in what
\* stays: the channel and all, all of it for good, or the cdev only.
LEMMA AddChannelStep ==
  ASSUME Inv, NEW c \in Confs, AddChannel(c)
  PROVE  Inv'
<1> DEFINE lp == polls[c]
           kinds == {"cdev", "channel", "buf", "node"}
<1>0. /\ phase[c] = "channels" /\ lp \in Chans /\ lp \in Nat
      /\ AtLeast("channels", lp, held[c]) /\ AtMost("channels", lp, held[c])
  BY Constants DEF AddChannel, Inv, Fits, TypeOK, Chans
<1>1. /\ kinds \X {lp} \subseteq PerChannel /\ <<"cdev", lp>> \in PerChannel
      /\ PerChannel \subseteq Resources
  BY <1>0 DEF PerChannel, Resources
<1>2. UNCHANGED <<dma, user, table>>
  BY DEF AddChannel, hardware
<1>3. CASE /\ Take(c, kinds \X {lp})
           /\ polls' = [polls EXCEPT ![c] = lp + 1]
           /\ UNCHANGED <<phase, hardware, user, table>>
  <2>1. held' = [held EXCEPT ![c] = @ \cup (kinds \X {lp})] /\ spurious' = {} /\ chip' = chip
    BY <1>3 DEF Take, Inv, hardware
  <2>2. TypeOK'
    <3>1. held' \in [Confs -> SUBSET Resources]
      BY <2>1, <1>1 DEF Inv, TypeOK
    <3>2. polls' \in [Confs -> Nat]
      BY <1>3, <1>0 DEF Inv, TypeOK
    <3> QED
      BY <3>1, <3>2, <2>1, <1>2, <1>3 DEF Inv, TypeOK, table
  <2>3. Elsewhere(c)
    BY <1>2, <1>3, <2>1 DEF Elsewhere, Inv, TypeOK
  <2>4. /\ phase'[c] = "channels" /\ polls'[c] = lp + 1
        /\ held'[c] = held[c] \cup (kinds \X {lp})
    BY <1>0, <1>3, <2>1 DEF Inv, TypeOK
  <2>5. AtLeast(phase[c], polls[c], held[c])'
    <3>1. ASSUME NEW r \in PerChannel, r[2] < lp + 1
          PROVE  r \in held'[c]
      <4>1. r[1] \in kinds /\ r[2] \in Nat /\ r = <<r[1], r[2]>>
        BY Constants DEF PerChannel, Chans
      <4>2. r[2] < lp \/ r[2] = lp
        BY <4>1, <3>1, <1>0
      <4>3. CASE r[2] < lp
        BY <4>3, <1>0, <2>4 DEF AtLeast
      <4>4. CASE r[2] = lp
        <5>1. r \in kinds \X {lp}
          BY <4>1, <4>4
        <5> QED
          BY <5>1, <2>4
      <4> QED
        BY <4>2, <4>3, <4>4
    <3>2. held[c] \subseteq held'[c]
      BY <2>4
    <3> QED
      BY <1>0, <2>4, <3>1, <3>2 DEF AtLeast, Working
  <2>6. AtMost(phase[c], polls[c], held[c])'
    <3>1. ASSUME NEW r \in held[c]
          PROVE  MayHave("channels", lp + 1, r) /\ r[1] # "data"
      <4>1. MayHave("channels", lp, r) /\ r \in Resources
        BY <1>0 DEF AtMost, Inv, TypeOK
      <4>2. r[1] \in {"channel", "buf", "node"} => r[2] \in Nat
        BY <4>1, OfKind, Kinds, Constants DEF Chans
      <4>3. r[1] \in {"channel", "buf", "node"} => r[2] < lp + 1
        BY <4>1, <4>2, <1>0 DEF MayHave
      <4> QED
        BY <4>1, <4>3 DEF MayHave, Working, Failed, Buffered
    <3>2. ASSUME NEW r \in kinds \X {lp}
          PROVE  MayHave("channels", lp + 1, r) /\ r[1] # "data"
      <4>1. r[1] \in kinds /\ r[2] = lp
        OBVIOUS
      <4>2. r[2] < lp + 1
        BY <4>1, <1>0
      <4> QED
        BY <4>1, <4>2 DEF MayHave, Working, Failed, Buffered
    <3> QED
      BY <2>4, <3>1, <3>2 DEF AtMost
  <2>7. DmaTimed(c)' /\ ChipsFit(c)'
    BY <1>0, <1>2, <2>1, <2>4 DEF Inv, DmaTimed, ChipsFit
  <2>8. Table'
    BY <1>0, <1>2, <2>3, <2>4, TableStays
  <2> QED
    BY <2>1, <2>2, <2>3, <2>5, <2>6, <2>7, <2>8, Alone
<1>4. CASE /\ Take(c, {<<"cdev", lp>>}) /\ Goto(c, "nomemory")
           /\ UNCHANGED <<hardware, polls, user, table>>
  <2>1. /\ held' = [held EXCEPT ![c] = @ \cup {<<"cdev", lp>>}] /\ spurious' = {}
        /\ phase' = [phase EXCEPT ![c] = "nomemory"] /\ chip' = chip
    BY <1>4 DEF Take, Goto, Inv, hardware
  <2>2. TypeOK'
    BY <2>1, <1>1, <1>2, <1>4 DEF Inv, TypeOK, Phases, table
  <2>3. Elsewhere(c)
    BY <1>2, <1>4, <2>1 DEF Elsewhere, Inv, TypeOK
  <2>4. /\ phase'[c] = "nomemory" /\ polls'[c] = lp
        /\ held'[c] = held[c] \cup {<<"cdev", lp>>}
    BY <1>4, <2>1 DEF Inv, TypeOK
  <2>5. AtLeast(phase[c], polls[c], held[c])'
    BY <1>0, <2>4 DEF AtLeast, Working, Memory
  <2>6. AtMost(phase[c], polls[c], held[c])'
    <3>1. \A r \in held[c] \cup {<<"cdev", lp>>} :
            MayHave("nomemory", lp, r) /\ r[1] # "data"
      BY <1>0 DEF AtMost, MayHave, Working, Failed, Buffered
    <3> QED
      BY <2>4, <3>1 DEF AtMost
  <2>7. DmaTimed(c)' /\ ChipsFit(c)'
    BY <1>0, <1>2, <2>4 DEF Inv, DmaTimed, ChipsFit
  <2>8. Table'
    <3>1. phase[c] \in Listed /\ phase'[c] \in Listed
      BY <1>0, <2>4 DEF Listed, Working
    <3> QED
      BY <1>2, <2>3, <3>1, TableStays
  <2> QED
    BY <2>1, <2>2, <2>3, <2>5, <2>6, <2>7, <2>8, Alone
<1>5. CASE /\ held' = [held EXCEPT ![c] = (@ \cup {<<"cdev", lp>>}) \ out_err_v4l(c)]
           /\ spurious' = spurious \cup {<<c, r>> : r \in out_err_v4l(c) \ held[c]}
           /\ Goto(c, "late") /\ PowerOff(c)
           /\ UNCHANGED <<dma, polls, user, table>>
  <2>1. /\ phase' = [phase EXCEPT ![c] = "late"]
        /\ chip' = [chip EXCEPT ![c] = [k \in Chans |-> "off"]]
    BY <1>5 DEF Goto, PowerOff
  <2>2. spurious' = {}
    <3>1. out_err_v4l(c) \subseteq held[c]
      BY <1>0 DEF AtLeast, Working, out_err_v4l, out_err_fpga, Channels, Given
    <3> QED
      BY <3>1, <1>5 DEF Inv
  <2>3. TypeOK'
    BY <2>1, <1>1, <1>2, <1>5 DEF Inv, TypeOK, Phases, table
  <2>4. Elsewhere(c)
    BY <1>2, <1>5, <2>1 DEF Elsewhere, Inv, TypeOK
  <2>5. /\ phase'[c] = "late" /\ polls'[c] = lp
        /\ held'[c] = (held[c] \cup {<<"cdev", lp>>}) \ out_err_v4l(c)
    BY <1>5, <2>1 DEF Inv, TypeOK
  <2>6. AtLeast(phase[c], polls[c], held[c])'
    BY <2>5 DEF AtLeast, Working
  <2>7. AtMost(phase[c], polls[c], held[c])'
    <3>1. ASSUME NEW r \in held[c], r \notin out_err_v4l(c)
          PROVE  MayHave("late", lp, r) /\ r[1] # "data"
      <4>1. MayHave("channels", lp, r) /\ r \in Resources
        BY <1>0 DEF AtMost, Inv, TypeOK
      <4>2. r[1] \notin {"dmactl", "conf", "region", "regs", "power"}
        BY <3>1, <4>1, OfKind DEF out_err_v4l, out_err_fpga, Memory, Registers
      <4>3. r[1] \notin {"channel", "buf"}
        <5> SUFFICES ASSUME r[1] \in {"channel", "buf"}  PROVE FALSE
          OBVIOUS
        <5>1. r \in PerChannel /\ r = <<r[1], r[2]>>
          BY <4>1, OfKind
        <5>2. r[2] \in Chans
          BY <5>1, Kinds
        <5>3. r \in {"buf", "channel"} \X Chans
          BY <5>1, <5>2
        <5> QED
          BY <3>1, <5>3 DEF out_err_v4l, Channels, Given
      <4> QED
        BY <4>1, <4>2, <4>3 DEF MayHave, Working, Failed, Buffered
    <3>2. MayHave("late", lp, <<"cdev", lp>>)
      BY DEF MayHave, Working, Failed, Buffered
    <3> QED
      BY <2>5, <3>1, <3>2 DEF AtMost
  <2>8. DmaTimed(c)' /\ ChipsFit(c)'
    BY <1>0, <1>2, <2>5 DEF Inv, DmaTimed, ChipsFit
  <2>9. Table'
    <3>1. phase[c] \in Listed /\ phase'[c] \in Listed
      BY <1>0, <2>5 DEF Listed, Working
    <3> QED
      BY <1>2, <2>4, <3>1, TableStays
  <2> QED
    BY <2>2, <2>3, <2>4, <2>6, <2>7, <2>8, <2>9, Alone
<1> QED
  BY <1>3, <1>4, <1>5 DEF AddChannel

\* Whatever pt1_dma_init and pt1_makering had when they failed, a buffer's page is
\* among it; with all of it they have succeeded.
LEMMA TakenFits ==
  ASSUME NEW n \in 0 .. AllBuffers
  PROVE  /\ Taken(n) \subseteq Pages \cup Data
         /\ \A r \in Taken(n) : r[1] = "data" => PageOf(r) \in Taken(n)
         /\ n = AllBuffers => Taken(n) = Pages \cup Data
<1> DEFINE size == DMA_RING_SIZE * DMA_RING_MAX
<1>1. /\ size \in Nat /\ AllBuffers = DMA_RING_SIZE + size /\ n \in Nat
      /\ size > 0 /\ DMA_RING_SIZE \in Nat
  <2>1. DMA_RING_SIZE * DMA_RING_MAX \in Nat /\ DMA_RING_SIZE * DMA_RING_MAX > 0
    BY Constants
  <2> QED
    BY <2>1, Constants DEF AllBuffers
<1>2. /\ Pages = {"dmaptr"} \X (0 .. DMA_RING_SIZE - 1)
      /\ Data = {"data"} \X (0 .. size - 1)
  BY DEF Pages, Data, All
<1> HIDE DEF size
<1>3. CASE n <= DMA_RING_SIZE
  <2>1. Taken(n) = {<<"dmaptr", i>> : i \in 0 .. n - 1}
    BY <1>3 DEF Taken
  <2>2. \A i \in 0 .. n - 1 : i \in 0 .. DMA_RING_SIZE - 1
    BY <1>1, <1>3
  <2>3. \A i \in 0 .. n - 1 : <<"dmaptr", i>> \in Pages
    BY <1>2, <2>2
  <2>4. n # AllBuffers
    BY <1>1, <1>3
  <2> QED
    BY <2>1, <2>3, <2>4
<1>4. CASE ~(n <= DMA_RING_SIZE)
  <2>1. Taken(n) = Pages \cup {<<"data", i>> : i \in 0 .. n - DMA_RING_SIZE - 1}
    BY <1>4 DEF Taken
  <2>2. \A i \in 0 .. n - DMA_RING_SIZE - 1 : i \in 0 .. size - 1
    BY <1>1
  <2>3. \A i \in 0 .. n - DMA_RING_SIZE - 1 : <<"data", i>> \in Data
    BY <1>2, <2>2
  <2>4. Taken(n) \subseteq Pages \cup Data
    BY <2>1, <2>3
  <2>5. ASSUME NEW r \in Taken(n), r[1] = "data"
        PROVE  PageOf(r) \in Taken(n)
    <3>1. r \in Data
      BY <2>4, <2>5, Kinds
    <3> QED
      BY <3>1, <2>1, PageIsOne
  <2>6. ASSUME n = AllBuffers
        PROVE  Data \subseteq Taken(n)
    <3>1. 0 .. n - DMA_RING_SIZE - 1 = 0 .. size - 1
      BY <2>6, <1>1
    <3>2. \A r \in Data : r = <<"data", r[2]>> /\ r[2] \in 0 .. size - 1
      BY <1>2
    <3> QED
      BY <3>1, <3>2, <2>1
  <2> QED
    BY <2>1, <2>4, <2>5, <2>6
<1> QED
  BY <1>3, <1>4

LEMMA DmaInitStep ==
  ASSUME Inv, NEW c \in Confs, DmaInit(c)
  PROVE  Inv'
<1>0. /\ phase[c] = "channels" /\ polls[c] = MAX_CHANNEL
      /\ AtLeast("channels", polls[c], held[c]) /\ AtMost("channels", polls[c], held[c])
  BY DEF DmaInit, Inv, Fits
<1>1. PICK n \in 0 .. AllBuffers :
        /\ Take(c, Taken(n))
        /\ Goto(c, IF n = AllBuffers THEN "start" ELSE "dma")
  BY DEF DmaInit
<1>2. PICK p \in {"dma", "start"} : p = IF n = AllBuffers THEN "start" ELSE "dma"
  OBVIOUS
<1>3. PICK h \in SUBSET (Pages \cup Data) :
        /\ h = Taken(n)
        /\ \A r \in h : r[1] = "data" => PageOf(r) \in h
        /\ p = "start" => h = Pages \cup Data
  BY <1>2, TakenFits
<1>4. /\ phase' = [phase EXCEPT ![c] = p] /\ held' = [held EXCEPT ![c] = @ \cup h]
      /\ spurious' = {} /\ polls' = [polls EXCEPT ![c] = 0]
      /\ UNCHANGED <<chip, dma, user, table>>
  BY <1>1, <1>2, <1>3 DEF DmaInit, Take, Goto, Inv, hardware
<1>5. h \subseteq Resources /\ \A r \in h : r[1] \in {"dmaptr", "data"}
  BY <1>3, Kinds DEF Resources
<1>6. TypeOK'
  BY <1>4, <1>5 DEF Inv, TypeOK, Phases, table
<1>7. Elsewhere(c)
  BY <1>4 DEF Elsewhere, Inv, TypeOK
<1>8. phase'[c] = p /\ held'[c] = held[c] \cup h /\ polls'[c] = 0
  BY <1>4 DEF Inv, TypeOK
<1>9. AtLeast(phase[c], polls[c], held[c])'
  <2>1. PerChannel \subseteq held[c]
    <3>1. \A r \in PerChannel : r[2] < MAX_CHANNEL
      BY Kinds, Constants DEF Chans
    <3> QED
      BY <3>1, <1>0 DEF AtLeast
  <2> QED
    BY <1>0, <1>3, <1>8, <2>1 DEF AtLeast, Working
<1>10. AtMost(phase[c], polls[c], held[c])'
  <2>1. \A r \in held[c] : MayHave(p, 0, r) /\ r[1] # "data"
    BY <1>0 DEF AtMost, MayHave, Working, Failed, Buffered
  <2>2. \A r \in h : MayHave(p, 0, r) /\ (r[1] = "data" => PageOf(r) \in h)
    BY <1>3, <1>5 DEF MayHave, Working, Failed, Buffered
  <2> QED
    BY <1>8, <2>1, <2>2 DEF AtMost
<1>11. DmaTimed(c)' /\ ChipsFit(c)'
  BY <1>0, <1>4, <1>8 DEF Inv, DmaTimed, ChipsFit
<1>12. Table'
  <2>1. phase[c] \in Listed /\ phase'[c] \in Listed
    BY <1>0, <1>8 DEF Listed, Working
  <2> QED
    BY <1>4, <1>7, <2>1, TableStays
<1> QED
  BY <1>4, <1>6, <1>7, <1>9, <1>10, <1>11, <1>12, Alone

\* The late labels: with a buffer goes its page, so nothing of the ring is left.
LEMMA DmaInitFailStep ==
  ASSUME Inv, NEW c \in Confs, DmaInitFail(c)
  PROVE  Inv'
<1>1. /\ phase[c] = "dma" /\ Fail(c, out_err_dma(c), "late")
      /\ AtLeast("dma", polls[c], held[c]) /\ AtMost("dma", polls[c], held[c])
  BY DEF DmaInitFail, Inv, Fits
<1>2. out_err_dma(c) \subseteq held[c]
  BY <1>1 DEF AtLeast, Working, out_err_dma, out_err_v4l, out_err_fpga, Channels, Given,
              pt1_dma_free
<1>3. ASSUME NEW r \in held[c], r \notin out_err_dma(c)
      PROVE  MayHave("late", polls[c], r) /\ r[1] # "data"
  <2>1. MayHave("dma", polls[c], r) /\ r \in Resources /\ (r[1] = "data" => PageOf(r) \in held[c])
    BY <1>1 DEF AtMost, Inv, TypeOK
  <2>2. r[1] \notin {"dmactl", "conf", "region", "regs", "power"}
    BY <1>3, <2>1, OfKind DEF out_err_dma, out_err_v4l, out_err_fpga, Memory, Registers
  <2>3. r[1] \notin {"channel", "buf"}
    <3> SUFFICES ASSUME r[1] \in {"channel", "buf"}  PROVE FALSE
      OBVIOUS
    <3>1. r \in PerChannel /\ r = <<r[1], r[2]>>
      BY <2>1, OfKind
    <3>2. r \in {"buf", "channel"} \X Chans
      BY <3>1, Kinds
    <3> QED
      BY <1>3, <3>2 DEF out_err_dma, out_err_v4l, Channels, Given
  <2>4. r[1] # "dmaptr"
    BY <1>3, <2>1, OfKind DEF out_err_dma, pt1_dma_free, Given
  <2>5. r[1] # "data"
    <3> SUFFICES ASSUME r[1] = "data"  PROVE FALSE
      OBVIOUS
    <3>1. r \in Data /\ PageOf(r) \in Pages /\ PageOf(r) \in held[c]
      BY <2>1, OfKind, PageIsOne
    <3> QED
      BY <1>3, <3>1 DEF out_err_dma, pt1_dma_free, Given
  <2> QED
    BY <2>1, <2>2, <2>3, <2>4, <2>5 DEF MayHave, Working, Failed, Buffered
<1> QED
  BY <1>1, <1>2, <1>3, Failing

LEMMA StartStep ==
  ASSUME Inv, NEW c \in Confs, Start(c)
  PROVE  Inv'
<1>0. /\ phase[c] = "start" /\ polls[c] = 0
      /\ AtLeast("start", polls[c], held[c]) /\ AtMost("start", polls[c], held[c])
  BY DEF Start, Inv, Fits, DmaTimed
<1>1. PICK h \in {{}, {One("kthread")}}, m \in {dma[c], "on"} :
        /\ Take(c, h) /\ dma' = [dma EXCEPT ![c] = m]
        /\ m = "on" => One("kthread") \in h
  <2>1. dma[c] # "on"
    BY <1>0 DEF Inv, DmaTimed
  <2>2. dma = [dma EXCEPT ![c] = dma[c]]
    BY DEF Inv, TypeOK
  <2>3. CASE Take(c, {One("kthread")}) /\ dma' = [dma EXCEPT ![c] = "on"]
    BY <2>3
  <2>4. CASE Take(c, {}) /\ UNCHANGED dma
    BY <2>1, <2>2, <2>4
  <2> QED
    BY <2>3, <2>4 DEF Start
<1>2. /\ phase' = [phase EXCEPT ![c] = "ready"] /\ held' = [held EXCEPT ![c] = @ \cup h]
      /\ spurious' = {} /\ UNCHANGED <<chip, polls, user, table>>
  BY <1>1 DEF Start, Take, Goto, Inv
<1>3. h \subseteq Resources /\ \A r \in h : r[1] = "kthread"
  BY DEF Resources, One
<1>4. TypeOK'
  BY <1>1, <1>2, <1>3 DEF Inv, TypeOK, Phases, table
<1>5. Elsewhere(c)
  BY <1>1, <1>2 DEF Elsewhere, Inv, TypeOK
<1>6. /\ phase'[c] = "ready" /\ held'[c] = held[c] \cup h /\ polls'[c] = 0
      /\ dma'[c] = m /\ polls[c] = 0
  BY <1>0, <1>1, <1>2 DEF Inv, TypeOK
<1>7. AtLeast(phase[c], polls[c], held[c])'
  BY <1>0, <1>6 DEF AtLeast, Working
<1>8. AtMost(phase[c], polls[c], held[c])'
  <2>1. \A r \in held[c] \cup h : MayHave("ready", 0, r)
    BY <1>0, <1>3, <1>6 DEF AtMost, MayHave, Working, Failed, Buffered
  <2>2. \A r \in held[c] \cup h : r[1] = "data" => PageOf(r) \in held[c] \cup h
    BY <1>0, <1>3 DEF AtMost
  <2> QED
    BY <1>6, <2>1, <2>2 DEF AtMost
<1>9. DmaTimed(c)'
  BY <1>0, <1>1, <1>6 DEF Inv, DmaTimed
<1>10. ChipsFit(c)'
  BY <1>0, <1>2, <1>6 DEF Inv, ChipsFit
<1>11. Table'
  <2>1. phase[c] \in Listed /\ phase'[c] \in Listed
    BY <1>0, <1>6 DEF Listed, Working
  <2> QED
    BY <1>2, <1>5, <2>1, TableStays
<1> QED
  BY <1>2, <1>4, <1>5, <1>7, <1>8, <1>9, <1>10, <1>11, Alone

-----------------------------------------------------------------------------
(* The removal, step by step *)

\* The DMA can be running only with the thread that started it.
LEMMA RemoveStep ==
  ASSUME Inv, NEW c \in Confs, Remove(c)
  PROVE  Inv'
<1>0. /\ phase[c] = "ready" /\ polls[c] = 0
      /\ AtLeast("ready", polls[c], held[c]) /\ AtMost("ready", polls[c], held[c])
      /\ dma[c] = "on" => One("kthread") \in held[c]
      /\ dma[c] # "stopping"
  BY DEF Remove, Inv, Fits, DmaTimed
<1>1. UNCHANGED <<chip, polls, user, table>>
  BY DEF Remove
<1>2. CASE Holds(c, One("kthread"))
  <2>1. PICK m \in {"stopping", "hung"} : dma' = [dma EXCEPT ![c] = m]
    BY <1>2 DEF Remove
  <2>2. /\ phase' = [phase EXCEPT ![c] = "stop"] /\ spurious' = {}
        /\ held' = [held EXCEPT ![c] = @ \ {One("kthread")}]
    BY <1>2 DEF Remove, Free, Goto, Holds, Inv
  <2>3. TypeOK'
    BY <1>1, <2>1, <2>2 DEF Inv, TypeOK, Phases, table
  <2>4. Elsewhere(c)
    BY <1>1, <2>1, <2>2 DEF Elsewhere, Inv, TypeOK
  <2>5. /\ phase'[c] = "stop" /\ held'[c] = held[c] \ {One("kthread")}
        /\ polls'[c] = 0 /\ dma'[c] = m
    BY <1>0, <1>1, <2>1, <2>2 DEF Inv, TypeOK
  <2>6. AtLeast(phase[c], polls[c], held[c])'
    <3>1. /\ One("kthread") \notin Memory \cup Registers \cup PerChannel \cup Pages \cup Data
          /\ One("kthread") # Power /\ One("kthread") # One("chrdev")
      BY Kinds DEF Memory, Registers, Power, One
    <3> QED
      BY <1>0, <2>5, <3>1 DEF AtLeast, Working
  <2>7. AtMost(phase[c], polls[c], held[c])'
    <3>1. ASSUME NEW r \in held[c], r # One("kthread")
          PROVE  /\ MayHave("stop", 0, r)
                 /\ r[1] = "data" => PageOf(r) \in held[c] \ {One("kthread")}
      <4>1. MayHave("ready", 0, r) /\ r \in Resources
            /\ (r[1] = "data" => PageOf(r) \in held[c])
        BY <1>0 DEF AtMost, Inv, TypeOK
      <4>2. r[1] # "kthread"
        BY <3>1, <4>1, OfKind
      <4>3. PageOf(r) # One("kthread")
        BY DEF PageOf, One
      <4> QED
        BY <4>1, <4>2, <4>3 DEF MayHave, Working, Failed, Buffered
    <3> QED
      BY <2>5, <3>1 DEF AtMost
  <2>8. DmaTimed(c)'
    BY <2>5, Constants DEF DmaTimed
  <2>9. ChipsFit(c)'
    BY <2>5 DEF ChipsFit
  <2>10. Table'
    <3>1. phase[c] \in Listed /\ phase'[c] \in Listed
      BY <1>0, <2>5 DEF Listed, Working
    <3> QED
      BY <1>1, <2>4, <3>1, TableStays
  <2> QED
    BY <2>2, <2>3, <2>4, <2>6, <2>7, <2>8, <2>9, <2>10, Alone
<1>3. CASE ~Holds(c, One("kthread"))
  <2>1. /\ phase' = [phase EXCEPT ![c] = "oops"] /\ UNCHANGED <<held, dma>> /\ spurious' = {}
    BY <1>3 DEF Remove, Goto, Inv
  <2>2. TypeOK'
    BY <1>1, <2>1 DEF Inv, TypeOK, Phases, table
  <2>3. Elsewhere(c)
    BY <1>1, <2>1 DEF Elsewhere, Inv, TypeOK
  <2>4. phase'[c] = "oops" /\ held'[c] = held[c] /\ polls'[c] = 0 /\ polls[c] = 0
    BY <1>0, <1>1, <2>1 DEF Inv, TypeOK
  <2>5. AtLeast(phase[c], polls[c], held[c])'
    BY <1>0, <2>4 DEF AtLeast, Working, Memory
  <2>6. AtMost(phase[c], polls[c], held[c])'
    <3>1. ASSUME NEW r \in held[c]
          PROVE  MayHave("oops", 0, r) /\ (r[1] = "data" => PageOf(r) \in held[c])
      <4>1. MayHave("ready", 0, r) /\ r \in Resources
            /\ (r[1] = "data" => PageOf(r) \in held[c])
        BY <1>0 DEF AtMost, Inv, TypeOK
      <4>2. r[1] # "kthread"
        BY <4>1, OfKind, <1>3 DEF Holds
      <4> QED
        BY <4>1, <4>2 DEF MayHave, Working, Failed, Buffered
    <3> QED
      BY <2>4, <3>1 DEF AtMost
  <2>7. DmaTimed(c)' /\ ChipsFit(c)'
    BY <1>0, <1>3, <2>1, <2>4 DEF DmaTimed, ChipsFit, Holds
  <2>8. Table'
    <3>1. phase[c] \in Listed /\ phase'[c] \in Listed
      BY <1>0, <2>4 DEF Listed, Working
    <3> QED
      BY <1>1, <2>3, <3>1, TableStays
  <2> QED
    BY <2>1, <2>2, <2>3, <2>5, <2>6, <2>7, <2>8, Alone
<1> QED
  BY <1>2, <1>3

LEMMA DmaOffStep ==
  ASSUME Inv, NEW c \in Confs, DmaOff(c)
  PROVE  Inv'
<1>1. /\ dma' = [dma EXCEPT ![c] = "off"]
      /\ UNCHANGED <<phase, held, chip, polls, user, table, spurious>>
  BY DEF DmaOff
<1>2. TypeOK'
  BY <1>1 DEF Inv, TypeOK, table
<1>3. Elsewhere(c)
  BY <1>1 DEF Elsewhere, Inv, TypeOK
<1>4. Fits(c)'
  BY <1>1 DEF Inv, Fits
<1>5. DmaTimed(c)' /\ ChipsFit(c)'
  BY <1>1 DEF Inv, TypeOK, DmaTimed, ChipsFit
<1>6. Table'
  BY <1>1, <1>3, TableStays
<1>7. spurious' = {}
  BY <1>1 DEF Inv
<1> QED
  BY <1>2, <1>3, <1>4, <1>5, <1>6, <1>7, Alone DEF Fits

\* While a sound card's DMA still stops, fewer looks than StopTime have been made.
LEMMA PollStep ==
  ASSUME Inv, NEW c \in Confs, Poll(c)
  PROVE  Inv'
<1>1. /\ phase[c] = "stop" /\ polls[c] \in Nat /\ ~(polls[c] >= StopPolls)
      /\ dma[c] = "stopping" => polls[c] < StopTime
      /\ UNCHANGED <<phase, held, chip, dma, user, table, spurious>>
  BY DEF Poll, Inv, TypeOK, hardware, OutOfPolls
<1>2. polls' = [polls EXCEPT ![c] = polls[c] + 1]
  <2>1. polls' = [polls EXCEPT ![c] = IF polls[c] = StopPolls THEN polls[c] ELSE polls[c] + 1]
    BY DEF Poll
  <2>2. polls[c] # StopPolls
    BY <1>1, Constants
  <2> QED
    BY <2>1, <2>2
<1>3. TypeOK'
  BY <1>1, <1>2 DEF Inv, TypeOK, table
<1>4. Elsewhere(c)
  BY <1>1, <1>2 DEF Elsewhere, Inv, TypeOK
<1>5. polls'[c] = polls[c] + 1
  BY <1>2 DEF Inv, TypeOK
<1>6. AtLeast(phase[c], polls[c], held[c])'
  BY <1>1 DEF Inv, Fits, AtLeast
<1>7. AtMost(phase[c], polls[c], held[c])'
  BY <1>1 DEF Inv, Fits, AtMost, MayHave
<1>8. DmaTimed(c)'
  BY <1>1, <1>5, Constants DEF Inv, DmaTimed
<1>9. ChipsFit(c)'
  BY <1>1 DEF Inv, ChipsFit
<1>10. Table'
  BY <1>1, <1>4, TableStays
<1>11. spurious' = {}
  BY <1>1 DEF Inv
<1> QED
  BY <1>3, <1>4, <1>6, <1>7, <1>8, <1>9, <1>10, <1>11, Alone

\* The buffers go when the DMA has stopped, or when the removal gives up; by then a
\* sound card's DMA has stopped.
LEMMA RemoveDmaStep ==
  ASSUME Inv, NEW c \in Confs, RemoveDma(c)
  PROVE  Inv'
<1>0. /\ phase[c] = "stop" /\ polls[c] \in Nat
      /\ AtLeast("stop", polls[c], held[c]) /\ AtMost("stop", polls[c], held[c])
      /\ dma[c] \notin {"on", "stopping"}
  <2>1. phase[c] = "stop" /\ polls[c] \in Nat /\ (dma[c] = "off" \/ polls[c] >= StopPolls)
    BY DEF RemoveDma, Inv, TypeOK, DmaStopped, OutOfPolls
  <2>2. dma[c] = "stopping" => polls[c] <= StopTime
    BY DEF Inv, DmaTimed
  <2>3. dma[c] # "on"
    BY <2>1 DEF Inv, DmaTimed
  <2>4. dma[c] # "stopping"
    BY <2>1, <2>2, Constants
  <2> QED
    BY <2>1, <2>3, <2>4 DEF Inv, Fits
<1>1. /\ phase' = [phase EXCEPT ![c] = "channelsoff"] /\ polls' = [polls EXCEPT ![c] = 0]
      /\ held' = [held EXCEPT ![c] = @ \ pt1_dma_free(c)]
      /\ UNCHANGED <<chip, dma, user, table>>
  BY DEF RemoveDma, Free, Goto, hardware
<1>2. spurious' = {}
  BY DEF RemoveDma, Free, pt1_dma_free, Given, Inv
<1>3. TypeOK'
  BY <1>1 DEF Inv, TypeOK, Phases, table
<1>4. Elsewhere(c)
  BY <1>1 DEF Elsewhere, Inv, TypeOK
<1>5. /\ phase'[c] = "channelsoff" /\ polls'[c] = 0 /\ dma'[c] = dma[c]
      /\ held'[c] = held[c] \ pt1_dma_free(c)
  BY <1>1 DEF Inv, TypeOK
<1>6. pt1_dma_free(c) \subseteq Pages \cup Data
  BY DEF pt1_dma_free, Given
<1>7. AtLeast(phase[c], polls[c], held[c])'
  <2>1. \A r \in Pages \cup Data :
          /\ r \notin Memory \cup Registers \cup PerChannel
          /\ r # Power /\ r # One("chrdev")
    BY Kinds DEF Memory, Registers, Power, One
  <2>2. Memory \subseteq held'[c] /\ Registers \subseteq held'[c] /\ PerChannel \subseteq held'[c]
    BY <1>0, <1>5, <1>6, <2>1 DEF AtLeast, Working
  <2>3. Power \in held'[c] /\ One("chrdev") \in held'[c]
    BY <1>0, <1>5, <1>6, <2>1 DEF AtLeast, Working
  <2> QED
    BY <1>5, <2>2, <2>3 DEF AtLeast, Working
<1>8. AtMost(phase[c], polls[c], held[c])'
  <2>1. ASSUME NEW r \in held[c], r \notin pt1_dma_free(c)
        PROVE  MayHave("channelsoff", 0, r) /\ r[1] # "data"
    <3>1. MayHave("stop", polls[c], r) /\ r \in Resources
          /\ (r[1] = "data" => PageOf(r) \in held[c])
      BY <1>0 DEF AtMost, Inv, TypeOK
    <3>2. r[1] # "dmaptr"
      BY <2>1, <3>1, OfKind DEF pt1_dma_free, Given
    <3>3. r[1] # "data"
      BY <2>1, <3>1, OfKind, PageIsOne DEF pt1_dma_free, Given
    <3>4. r[1] \in {"cdev", "channel", "buf", "node"} => r[2] >= 0
      BY <3>1, OfKind, Kinds DEF Chans
    <3> QED
      BY <3>1, <3>2, <3>3, <3>4 DEF MayHave, Working, Failed, Buffered
  <2> QED
    BY <1>5, <2>1 DEF AtMost
<1>9. DmaTimed(c)'
  BY <1>0, <1>5 DEF DmaTimed
<1>10. ChipsFit(c)'
  BY <1>5 DEF ChipsFit
<1>11. Table'
  <2>1. phase[c] \in Listed /\ phase'[c] \in Listed
    BY <1>0, <1>5 DEF Listed, Working
  <2> QED
    BY <1>1, <1>4, <2>1, TableStays
<1> QED
  BY <1>2, <1>3, <1>4, <1>7, <1>8, <1>9, <1>10, <1>11, Alone

LEMMA RemoveChannelStep ==
  ASSUME Inv, NEW c \in Confs, RemoveChannel(c)
  PROVE  Inv'
<1> DEFINE lp == polls[c]
           gone == {"cdev", "channel", "buf", "node"} \X {lp}
<1>0. /\ phase[c] = "channelsoff" /\ lp \in Nat /\ lp \in Chans
      /\ AtLeast("channelsoff", lp, held[c]) /\ AtMost("channelsoff", lp, held[c])
  BY Constants DEF RemoveChannel, Inv, Fits, TypeOK, Chans
<1>1. /\ polls' = [polls EXCEPT ![c] = @ + 1] /\ held' = [held EXCEPT ![c] = @ \ gone]
      /\ UNCHANGED <<phase, chip, dma, user, table>>
  BY DEF RemoveChannel, Free, hardware
<1>2. \A r \in gone : r[1] \in {"cdev", "channel", "buf", "node"} /\ r[2] = lp /\ r \in PerChannel
  BY <1>0 DEF PerChannel
<1>3. spurious' = {}
  <2>1. gone \subseteq held[c]
    BY <1>0, <1>2 DEF AtLeast
  <2> QED
    BY <2>1 DEF RemoveChannel, Free, Inv
<1>4. TypeOK'
  BY <1>1 DEF Inv, TypeOK, table
<1>5. Elsewhere(c)
  BY <1>1 DEF Elsewhere, Inv, TypeOK
<1>6. phase'[c] = "channelsoff" /\ polls'[c] = lp + 1 /\ held'[c] = held[c] \ gone
  BY <1>0, <1>1 DEF Inv, TypeOK
<1>7. AtLeast(phase[c], polls[c], held[c])'
  <2>1. /\ \A r \in gone : r \notin Memory \cup Registers
        /\ Power \notin gone /\ One("chrdev") \notin gone
    BY <1>2, Kinds DEF Memory, Registers, Power, One
  <2>2. \A r \in PerChannel : r[2] >= lp + 1 => r[2] >= lp /\ r \notin gone
    BY <1>0, <1>2, Kinds, Constants DEF Chans
  <2> QED
    BY <1>0, <1>6, <2>1, <2>2 DEF AtLeast, Working
<1>8. AtMost(phase[c], polls[c], held[c])'
  <2>1. ASSUME NEW r \in held[c], r \notin gone
        PROVE  MayHave("channelsoff", lp + 1, r) /\ r[1] # "data"
    <3>1. MayHave("channelsoff", lp, r) /\ r \in Resources
      BY <1>0 DEF AtMost, Inv, TypeOK
    <3>2. ASSUME r[1] \in {"cdev", "channel", "buf", "node"}  PROVE r[2] >= lp + 1
      <4>1. r \in PerChannel /\ r = <<r[1], r[2]>> /\ r[2] >= lp
        BY <3>1, <3>2, OfKind DEF MayHave
      <4>2. r[2] \in Nat
        BY <4>1, Kinds, Constants DEF Chans
      <4>3. r[2] # lp
        BY <2>1, <3>2, <4>1
      <4> QED
        BY <4>1, <4>2, <4>3, <1>0
    <3> QED
      BY <3>1, <3>2 DEF MayHave, Working, Failed, Buffered
  <2> QED
    BY <1>6, <2>1 DEF AtMost
<1>9. DmaTimed(c)' /\ ChipsFit(c)'
  BY <1>0, <1>1, <1>6 DEF Inv, DmaTimed, ChipsFit
<1>10. Table'
  BY <1>0, <1>1, <1>5, <1>6, TableStays
<1> QED
  BY <1>3, <1>4, <1>5, <1>7, <1>8, <1>9, <1>10, Alone

LEMMA UnregisterStep ==
  ASSUME Inv, NEW c \in Confs, Unregister(c)
  PROVE  Inv'
<1> DEFINE freed == {One("chrdev"), Power} \cup Registers \cup Ctl
<1>0. /\ phase[c] = "channelsoff" /\ polls[c] = MAX_CHANNEL
      /\ AtLeast("channelsoff", MAX_CHANNEL, held[c])
      /\ AtMost("channelsoff", MAX_CHANNEL, held[c])
  BY DEF Unregister, Inv, Fits
<1>1. /\ phase' = [phase EXCEPT ![c] = "clear"] /\ held' = [held EXCEPT ![c] = @ \ freed]
      /\ chip' = [chip EXCEPT ![c] = [lp \in Chans |-> "off"]]
      /\ UNCHANGED <<dma, polls, user, table>>
  BY DEF Unregister, Free, Goto, PowerOff
<1>2. spurious' = {}
  <2>1. freed \subseteq held[c]
    BY <1>0 DEF AtLeast, Working, Memory
  <2> QED
    BY <2>1 DEF Unregister, Free, Inv
<1>3. TypeOK'
  BY <1>1 DEF Inv, TypeOK, Phases, table
<1>4. Elsewhere(c)
  BY <1>1 DEF Elsewhere, Inv, TypeOK
<1>5. phase'[c] = "clear" /\ held'[c] = held[c] \ freed /\ polls'[c] = MAX_CHANNEL
  BY <1>0, <1>1 DEF Inv, TypeOK
<1>6. AtLeast(phase[c], polls[c], held[c])'
  <2>1. One("conf") \notin freed /\ One("conf") \in held[c]
    BY <1>0, Kinds DEF AtLeast, Working, Memory, Registers, Power, One
  <2> QED
    BY <1>5, <2>1 DEF AtLeast, Working
<1>7. AtMost(phase[c], polls[c], held[c])'
  <2>1. ASSUME NEW r \in held[c], r \notin freed
        PROVE  MayHave("clear", MAX_CHANNEL, r) /\ r[1] # "data"
    <3>1. MayHave("channelsoff", MAX_CHANNEL, r) /\ r \in Resources
      BY <1>0 DEF AtMost, Inv, TypeOK
    <3>2. r[1] \notin {"dmactl", "region", "regs", "power", "chrdev"}
      BY <2>1, <3>1, OfKind DEF Registers
    <3>3. r[1] \notin {"cdev", "channel", "buf", "node"}
      <4> SUFFICES ASSUME r[1] \in {"cdev", "channel", "buf", "node"}  PROVE FALSE
        OBVIOUS
      <4>1. r[2] \in Chans /\ r[2] >= MAX_CHANNEL
        BY <3>1, OfKind, Kinds DEF MayHave
      <4> QED
        BY <4>1, Constants DEF Chans
    <3> QED
      BY <3>1, <3>2, <3>3 DEF MayHave, Working, Failed, Buffered
  <2> QED
    BY <1>5, <2>1 DEF AtMost
<1>8. DmaTimed(c)' /\ ChipsFit(c)'
  BY <1>0, <1>1, <1>5 DEF Inv, DmaTimed, ChipsFit
<1>9. Table'
  <2>1. phase[c] \in Listed /\ phase'[c] \in Listed
    BY <1>0, <1>5 DEF Listed, Working
  <2> QED
    BY <1>1, <1>4, <2>1, TableStays
<1> QED
  BY <1>2, <1>3, <1>4, <1>6, <1>7, <1>8, <1>9, Alone

\* The card leaves device[] before its conf is freed.  Without a crowd the place it
\* clears is its own, so no other card loses its place.
LEMMA ClearSlotStep ==
  ASSUME Inv, NEW c \in Confs, ClearSlot(c)
  PROVE  Inv'
<1> DEFINE n == card_number[c]
<1>0. /\ phase[c] = "clear" /\ n \in Slots
      /\ AtLeast("clear", polls[c], held[c]) /\ AtMost("clear", polls[c], held[c])
  BY DEF ClearSlot, Inv, Fits, TypeOK
<1>1. /\ phase' = [phase EXCEPT ![c] = "free"] /\ device' = [device EXCEPT ![n] = None]
      /\ vacated' = vacated \cup {n}
      /\ UNCHANGED <<held, chip, dma, polls, user, card_number>> /\ spurious' = {}
  BY DEF ClearSlot, Cleared, Goto, hardware, Inv
<1>2. crowded' = crowded
  BY DEF ClearSlot
<1>3. TypeOK'
  BY <1>0, <1>1 DEF Inv, TypeOK, Phases
<1>4. Elsewhere(c)
  BY <1>1 DEF Elsewhere, Inv, TypeOK
<1>5. phase'[c] = "free" /\ held'[c] = held[c] /\ polls'[c] = polls[c]
  BY <1>1 DEF Inv, TypeOK
<1>6. AtLeast(phase[c], polls[c], held[c])'
  BY <1>0, <1>5 DEF AtLeast, Working
<1>7. AtMost(phase[c], polls[c], held[c])'
  <2>1. \A r \in held[c] : MayHave("free", polls[c], r) /\ r[1] # "data"
    BY <1>0 DEF AtMost, MayHave, Working, Failed, Buffered
  <2> QED
    BY <1>5, <2>1 DEF AtMost
<1>8. DmaTimed(c)' /\ ChipsFit(c)'
  BY <1>0, <1>1, <1>5 DEF Inv, DmaTimed, ChipsFit
<1>9. \A d \in Confs : phase'[d] \in Listed <=> phase[d] \in Listed /\ d # c
  BY <1>4, <1>5 DEF Elsewhere, Listed, Working
<1>10. \A i \in Slots : device'[i] = IF i = n THEN None ELSE device[i]
  BY <1>1 DEF Inv, TypeOK
<1>11. InPlace'
  <2> SUFFICES ASSUME NEW i \in Slots, device'[i] # None
               PROVE  card_number[device'[i]] = i /\ phase'[device'[i]] \in Listed
    BY <1>1 DEF InPlace
  <2>1. i # n /\ device'[i] = device[i] /\ device[i] \in Confs
    BY <1>10 DEF Inv, TypeOK
  <2>2. card_number[device[i]] = i /\ phase[device[i]] \in Listed
    BY <2>1 DEF Inv, Table, InPlace
  <2>3. device[i] # c
    BY <2>1, <2>2
  <2> QED
    BY <2>1, <2>2, <2>3, <1>9
<1>12. ASSUME NEW d \in Confs, ~crowded, phase'[d] \in Listed
       PROVE  /\ device'[card_number[d]] = d
              /\ \A i \in Slots : i < card_number[d] /\ device'[i] = None => i \in vacated'
  <2>1. d # c /\ phase[d] \in Listed
    BY <1>12, <1>9
  <2>2. /\ device[card_number[d]] = d /\ card_number[d] \in Slots
        /\ \A i \in Slots : i < card_number[d] /\ device[i] = None => i \in vacated
    BY <1>12, <2>1 DEF Inv, Table, Placed, TypeOK
  <2>3. device[n] = c
    <3>1. phase[c] \in Listed
      BY <1>0 DEF Listed, Working
    <3> QED
      BY <1>12, <3>1 DEF Inv, Table, Placed
  <2>4. card_number[d] # n
    BY <2>1, <2>2, <2>3
  <2> QED
    BY <2>2, <2>4, <1>1, <1>10
<1>13. ~crowded => \A d \in Confs : Placed(d)'
  BY <1>1, <1>12 DEF Placed
<1>14. Table'
  BY <1>2, <1>11, <1>13 DEF Table
<1> QED
  BY <1>1, <1>3, <1>4, <1>6, <1>7, <1>8, <1>14, Alone

LEMMA FreeConfStep ==
  ASSUME Inv, NEW c \in Confs, FreeConf(c)
  PROVE  Inv'
<1>0. /\ phase[c] = "free"
      /\ AtLeast("free", polls[c], held[c]) /\ AtMost("free", polls[c], held[c])
  BY DEF FreeConf, Inv, Fits
<1>1. /\ phase' = [phase EXCEPT ![c] = "removed"]
      /\ held' = [held EXCEPT ![c] = @ \ {One("conf")}]
      /\ UNCHANGED <<chip, dma, polls, user, table>>
  BY DEF FreeConf, Free, Goto, hardware
<1>2. spurious' = {}
  <2>1. One("conf") \in held[c]
    BY <1>0 DEF AtLeast
  <2> QED
    BY <2>1 DEF FreeConf, Free, Inv
<1>3. TypeOK'
  BY <1>1 DEF Inv, TypeOK, Phases, table
<1>4. Elsewhere(c)
  BY <1>1 DEF Elsewhere, Inv, TypeOK
<1>5. phase'[c] = "removed" /\ held'[c] = held[c] \ {One("conf")} /\ polls'[c] = polls[c]
  BY <1>1 DEF Inv, TypeOK
<1>6. AtLeast(phase[c], polls[c], held[c])'
  BY <1>5 DEF AtLeast, Working
<1>7. AtMost(phase[c], polls[c], held[c])'
  <2>1. ASSUME NEW r \in held[c], r # One("conf")
        PROVE  MayHave("removed", polls[c], r) /\ r[1] # "data"
    <3>1. MayHave("free", polls[c], r) /\ r[1] # "conf"
      BY <1>0, <2>1, OfKind DEF AtMost, Inv, TypeOK
    <3> QED
      BY <3>1 DEF MayHave, Working, Failed, Buffered
  <2> QED
    BY <1>5, <2>1 DEF AtMost
<1>8. DmaTimed(c)' /\ ChipsFit(c)'
  BY <1>0, <1>1, <1>5 DEF Inv, DmaTimed, ChipsFit
<1>9. Table'
  <2>1. phase[c] \notin Listed /\ phase'[c] \notin Listed
    BY <1>0, <1>5 DEF Listed, Working
  <2> QED
    BY <1>1, <1>4, <2>1, TableStays
<1> QED
  BY <1>2, <1>3, <1>4, <1>6, <1>7, <1>8, <1>9, Alone

-----------------------------------------------------------------------------
(* Programs *)

LEMMA OpenStep ==
  ASSUME Inv, NEW c \in Confs, NEW lp \in Chans, Open(c, lp)
  PROVE  Inv'
<1>1. /\ phase[c] \in InProbe \cup {"ready"}
      /\ user' = [user EXCEPT ![c] = @ \cup {lp}]
      /\ chip' = [chip EXCEPT ![c][lp] = "awake"]
      /\ UNCHANGED <<phase, held, dma, polls, table, spurious>>
  BY DEF Open
<1>2. TypeOK'
  BY <1>1 DEF Inv, TypeOK, table
<1>3. Elsewhere(c)
  BY <1>1 DEF Elsewhere, Inv, TypeOK
<1>4. Fits(c)' /\ DmaTimed(c)'
  BY <1>1 DEF Inv, Fits, DmaTimed
<1>5. ChipsFit(c)'
  <2>1. user'[c] = user[c] \cup {lp} /\ chip'[c] = [chip[c] EXCEPT ![lp] = "awake"]
    BY <1>1 DEF Inv, TypeOK
  <2>2. phase'[c] \notin {"absent", "allocate", "map", "fpga", "tuners", "register"}
    BY <1>1 DEF InProbe
  <2>3. \A k \in Chans : chip[c][k] = IF k \in user[c] THEN "awake" ELSE "sleep"
    BY <1>1 DEF Inv, ChipsFit, InProbe
  <2>4. \A k \in Chans : chip'[c][k] = IF k = lp THEN "awake" ELSE chip[c][k]
    BY <2>1 DEF Inv, TypeOK
  <2> QED
    BY <2>1, <2>2, <2>3, <2>4 DEF ChipsFit
<1>6. Table'
  BY <1>1, <1>3, TableStays
<1>7. spurious' = {}
  BY <1>1 DEF Inv
<1> QED
  BY <1>2, <1>3, <1>4, <1>5, <1>6, <1>7, Alone DEF Fits

LEMMA ReleaseStep ==
  ASSUME Inv, NEW c \in Confs, NEW lp \in Chans, Release(c, lp)
  PROVE  Inv'
<1>1. /\ lp \in user[c] /\ user' = [user EXCEPT ![c] = @ \ {lp}]
      /\ chip' = [chip EXCEPT ![c][lp] = "sleep"]
      /\ UNCHANGED <<phase, held, dma, polls, table, spurious>>
  BY DEF Release
<1>2. TypeOK'
  BY <1>1 DEF Inv, TypeOK, table
<1>3. Elsewhere(c)
  BY <1>1 DEF Elsewhere, Inv, TypeOK
<1>4. Fits(c)' /\ DmaTimed(c)'
  BY <1>1 DEF Inv, Fits, DmaTimed
<1>5. ChipsFit(c)'
  <2>1. user'[c] = user[c] \ {lp} /\ chip'[c] = [chip[c] EXCEPT ![lp] = "sleep"]
    BY <1>1 DEF Inv, TypeOK
  <2>2. \A k \in Chans : chip'[c][k] = IF k = lp THEN "sleep" ELSE chip[c][k]
    BY <2>1 DEF Inv, TypeOK
  <2>3. phase'[c] = phase[c] /\ ChipsFit(c)
    BY <1>1 DEF Inv
  <2> QED
    BY <1>1, <2>1, <2>2, <2>3 DEF ChipsFit
<1>6. Table'
  BY <1>1, <1>3, TableStays
<1>7. spurious' = {}
  BY <1>1 DEF Inv
<1> QED
  BY <1>2, <1>3, <1>4, <1>5, <1>6, <1>7, Alone DEF Fits

-----------------------------------------------------------------------------
(* The invariant holds always *)

LEMMA Begin == Init => Inv
<1> SUFFICES ASSUME Init  PROVE Inv
  OBVIOUS
<1>1. TypeOK
  BY Constants DEF Init, TypeOK, Phases, Slots
<1>2. ASSUME NEW c \in Confs
      PROVE  Fits(c) /\ DmaTimed(c) /\ ChipsFit(c)
  <2>1. phase[c] = "absent" /\ held[c] = {} /\ dma[c] = "off" /\ user[c] = {}
    BY DEF Init
  <2>2. Fits(c)
    BY <2>1 DEF Fits, AtLeast, AtMost, Working
  <2>3. DmaTimed(c) /\ ChipsFit(c)
    BY <2>1 DEF DmaTimed, ChipsFit
  <2> QED
    BY <2>2, <2>3
<1>3. InPlace
  BY DEF Init, InPlace
<1>4. \A c \in Confs : Placed(c)
  BY DEF Init, Placed, Listed, Working
<1>5. Table
  BY <1>3, <1>4 DEF Table
<1> QED
  BY <1>1, <1>2, <1>5 DEF Inv, Init

LEMMA Same ==
  ASSUME Inv, UNCHANGED vars
  PROVE  Inv'
<1>1. TypeOK' /\ spurious' = {}
  BY DEF Inv, TypeOK, vars
<1>2. ASSUME NEW c \in Confs
      PROVE  (Fits(c) /\ DmaTimed(c) /\ ChipsFit(c))'
  BY DEF Inv, Fits, DmaTimed, ChipsFit, vars
<1>3. InPlace'
  BY DEF Inv, Table, InPlace, vars
<1>4. ~crowded' => \A c \in Confs : Placed(c)'
  BY DEF Inv, Table, Placed, vars
<1> QED
  BY <1>1, <1>2, <1>3, <1>4 DEF Inv, Table

\* In every reachable state each card holds what its phase says, its DMA runs only
\* while it may, its chips are where their users put them, and device[] is in order.
THEOREM Invariance == Spec => []Inv
<1>1. Inv /\ [Next]_vars => Inv'
  <2> SUFFICES ASSUME Inv, [Next]_vars  PROVE Inv'
    OBVIOUS
  <2>1. ASSUME NEW c \in Confs, Probe(c)  PROVE Inv'
    BY <2>1, EnableStep, AllocateStep, MapRegistersStep, FpgaStep, TunersStep, RegisterStep,
       AddChannelStep, DmaInitStep, DmaInitFailStep, StartStep DEF Probe
  <2>2. ASSUME NEW c \in Confs, Removal(c)  PROVE Inv'
    BY <2>2, PollStep, RemoveDmaStep, RemoveChannelStep, UnregisterStep, ClearSlotStep,
       FreeConfStep DEF Removal
  <2> QED
    BY <2>1, <2>2, RemoveStep, DmaOffStep, OpenStep, ReleaseStep, Same DEF Next
<1> QED
  BY Begin, <1>1, PTL DEF Spec

-----------------------------------------------------------------------------
(* What follows from it *)

\* The error labels and the removal give back only what the card has, and leave
\* nothing but what is known: the theorem of NothingLeft.
THEOREM AllGivenBack == Spec => []NothingLeft
<1>1. Inv => NothingLeft
  <2> SUFFICES ASSUME Inv, NEW c \in Confs, phase[c] \in Refused \cup {"removed"},
                      NEW r \in held[c]
               PROVE  r \in Known(c)
    BY DEF NothingLeft, Inv
  <2>1. r \in Resources /\ MayHave(phase[c], polls[c], r)
    BY DEF Inv, TypeOK, Fits, AtMost
  <2>2. r[1] = "enabled" => r = One("enabled")
    <3> SUFFICES ASSUME r[1] = "enabled"  PROVE r = One("enabled")
      OBVIOUS
    <3>1. /\ r \notin Ctl /\ r \notin Pages /\ r \notin Data /\ r \notin PerChannel
      BY Kinds
    <3> QED
      BY <2>1, <3>1 DEF Resources, Registers, Memory, Power, One
  <2>3. r[1] \in {"dmactl", "dmaptr", "data", "cdev", "channel", "buf", "node", "conf",
                  "region", "regs", "power", "chrdev", "kthread", "enabled"}
    BY <2>1, Kinds DEF Resources, Registers, Memory, Power, One
  <2>4. CASE phase[c] \in {"refused", "removed"}
    <3>1. r[1] = "enabled"
      BY <2>1, <2>3, <2>4 DEF MayHave, Working, Failed, Buffered
    <3> QED
      BY <2>2, <3>1 DEF Known
  <2>5. CASE phase[c] = "regbase"
    <3>1. r[1] \in {"enabled", "dmactl", "conf", "region"}
      BY <2>1, <2>3, <2>5 DEF MayHave, Working, Failed, Buffered
    <3>2. r \in Memory \cup {One("region"), One("enabled")}
      BY <2>1, <2>2, <3>1, OfKind DEF Memory
    <3> QED
      BY <2>5, <3>2 DEF Known
  <2>6. CASE phase[c] = "nomemory"
    <3>1. r[1] \notin {"dmaptr", "data"}
      BY <2>1, <2>6 DEF MayHave, Working, Failed, Buffered
    <3>2. r \notin Pages \cup Data
      BY <3>1, Kinds
    <3> QED
      BY <2>1, <2>6, <3>2 DEF Known
  <2>7. CASE phase[c] = "late"
    <3>1. r[1] \in {"enabled", "chrdev", "cdev", "node"}
      BY <2>1, <2>3, <2>7 DEF MayHave, Working, Failed, Buffered
    <3>2. CASE r[1] \in {"cdev", "node"}
      <4>1. r \in PerChannel /\ r = <<r[1], r[2]>>
        BY <2>1, <3>2, OfKind
      <4>2. r \in {"cdev", "node"} \X Chans
        BY <3>2, <4>1, Kinds
      <4> QED
        BY <2>7, <4>2 DEF Known
    <3>3. CASE r[1] \in {"enabled", "chrdev"}
      <4>1. r \in {One("enabled"), One("chrdev")}
        BY <2>1, <2>2, <3>3, OfKind
      <4> QED
        BY <2>7, <4>1 DEF Known
    <3> QED
      BY <3>1, <3>2, <3>3
  <2> QED
    BY <2>4, <2>5, <2>6, <2>7 DEF Refused
<1> QED
  BY Invariance, <1>1, PTL

\* Every conf that the search of pt1_open passes is still there, unless its probe
\* failed late, and the channel it opens too: the theorem of OpenSafe.
THEOREM NoFreedConf == Spec => []OpenSafe
<1>1. Inv => OpenSafe
  <2> SUFFICES ASSUME Inv, NEW c \in Confs, NEW lp \in Chans,
                      phase[c] \in InProbe \cup {"ready"}, Holds(c, <<"node", lp>>),
                      \A b \in Searched(c) : phase[b] # "late"
               PROVE  /\ \A b \in Searched(c) : Holds(b, One("conf"))
                      /\ \A k \in 0 .. lp : Holds(c, <<"channel", k>>)
    BY DEF OpenSafe
  <2>1. ASSUME NEW b \in Searched(c)
        PROVE  Holds(b, One("conf"))
    <3>1. PICK i \in Slots : b = device[i] /\ device[i] # None
      BY DEF Searched
    <3>2. b \in Confs /\ phase[b] \in Listed /\ phase[b] # "late"
      BY <3>1 DEF Inv, TypeOK, Table, InPlace
    <3>3. AtLeast(phase[b], polls[b], held[b])
      BY <3>2 DEF Inv, Fits
    <3> QED
      BY <3>2, <3>3 DEF AtLeast, Listed, Memory, Holds
  <2>2. ASSUME NEW k \in 0 .. lp
        PROVE  Holds(c, <<"channel", k>>)
    <3>1. /\ AtLeast(phase[c], polls[c], held[c])
          /\ AtMost(phase[c], polls[c], held[c]) /\ polls[c] \in Nat
      BY DEF Inv, Fits, TypeOK
    <3>2. k \in Chans /\ k <= lp /\ k \in Nat /\ lp \in Nat
      BY Constants DEF Chans
    <3>3. <<"channel", k>> \in PerChannel
      BY <3>2 DEF PerChannel
    <3>4. CASE phase[c] = "channels"
      <4>1. MayHave("channels", polls[c], <<"node", lp>>)
        BY <3>1, <3>4 DEF AtMost, Holds
      <4>2. lp < polls[c]
        BY <4>1 DEF MayHave
      <4>3. k < polls[c]
        BY <3>1, <3>2, <4>2
      <4> QED
        BY <3>1, <3>3, <3>4, <4>3 DEF AtLeast, Holds
    <3>5. CASE phase[c] \in {"dma", "start", "ready"}
      BY <3>1, <3>3, <3>5 DEF AtLeast, Holds
    <3> QED
      BY <3>4, <3>5 DEF InProbe
  <2> QED
    BY <2>1, <2>2
<1> QED
  BY Invariance, <1>1, PTL

\* The search ends at a hole only where a removal left one: the theorem of Reachable.
THEOREM Findable == Spec => []Reachable
<1>1. Inv => Reachable
  <2> SUFFICES ASSUME Inv, NEW c \in Confs, phase[c] = "ready", ~crowded,
                      \A i \in vacated : ~(i < card_number[c])
               PROVE  Found(c)
    BY DEF Reachable
  <2>1. PICK n \in Slots : n = card_number[c]
    BY DEF Inv, TypeOK
  <2>2. /\ device[n] = c
        /\ \A i \in Slots : i < n => device[i] # None
    BY <2>1 DEF Inv, Table, Placed, Listed, Working
  <2>3. n \in Stops(c)
    BY <2>2 DEF Stops
  <2>4. \A i \in Stops(c) : n <= i
    <3> SUFFICES ASSUME NEW i \in Stops(c)  PROVE n <= i
      OBVIOUS
    <3>1. i \in Slots /\ (device[i] = None \/ device[i] = c)
      BY DEF Stops
    <3>2. CASE device[i] = c
      BY <3>1, <3>2, <2>1, Constants DEF Inv, Table, InPlace, Slots
    <3>3. CASE device[i] = None
      BY <3>1, <3>3, <2>2, Constants DEF Slots
    <3> QED
      BY <3>1, <3>2, <3>3
  <2>5. Min(Stops(c)) \in Stops(c) /\ Min(Stops(c)) <= n
    <3>1. Stops(c) \in SUBSET Slots
      BY DEF Stops
    <3> QED
      BY <2>3, <3>1, First
  <2>6. Min(Stops(c)) = n
    <3>1. Min(Stops(c)) \in Slots /\ n <= Min(Stops(c))
      BY <2>4, <2>5 DEF Stops
    <3> QED
      BY <2>5, <3>1, Constants DEF Slots
  <2> QED
    BY <2>2, <2>3, <2>6 DEF Found
<1> QED
  BY Invariance, <1>1, PTL

\* As long as a card's DMA runs, or still stops within its time, all its buffers are
\* allocated: the theorem of DmaSafe.
THEOREM NoStrayDma == Spec => []DmaSafe
<1>1. Inv => DmaSafe
  <2> SUFFICES ASSUME Inv, NEW c \in Confs, dma[c] \in {"on", "stopping"}
               PROVE  Pages \cup Data \subseteq held[c]
    BY DEF DmaSafe
  <2>1. phase[c] \in {"ready", "stop"}
    BY DEF Inv, DmaTimed
  <2> QED
    BY <2>1 DEF Inv, Fits, AtLeast
<1> QED
  BY Invariance, <1>1, PTL

\* Between its probe and its removal a card has exactly the tuners in use awake: the
\* theorem of AsleepUnlessOpen.
THEOREM OnlyUsedAwake == Spec => []AsleepUnlessOpen
<1>1. Inv => AsleepUnlessOpen
  BY DEF Inv, ChipsFit, AsleepUnlessOpen
<1> QED
  BY Invariance, <1>1, PTL
=============================================================================
