------------------------------- MODULE Card -------------------------------
(***************************************************************************)
(* How a card comes and goes (pt1_pci_init_one and pt1_pci_remove_one in    *)
(* pt1_pci.c, with xc3s_init and tuner_init behind them): what the driver   *)
(* acquires step by step, what each error label gives back, the table       *)
(* device[] that pt1_open searches, and the end of the DMA.                 *)
(*                                                                         *)
(* A conf is the PT1_DEVICE of one probe.  A card that is probed again gets *)
(* another one.  The kernel probes one card after the other; a card may go  *)
(* at any time, also during the probe of another one.                       *)
(***************************************************************************)
EXTENDS Integers, FiniteSetsExt, TLC

CONSTANTS
  Confs,
  MAX_PCI_DEVICE, MAX_TUNER,
  DMA_RING_SIZE, DMA_RING_MAX,     \* pages of pointers, buffers behind each
  StopPolls,     \* 10 in the code: how often remove looks whether the DMA has stopped
  StopTime,      \* a sound card stops its DMA within so many looks
  MayHang,       \* a card's DMA may not stop
  MaxOpen        \* bound: files that are open at a time

None == "none"        \* NULL in device[]

ASSUME CardAssumption ==
  /\ None \notin Confs
  /\ {MAX_PCI_DEVICE, MAX_TUNER, DMA_RING_SIZE, DMA_RING_MAX, StopPolls} \subseteq Nat \ {0}
  /\ StopTime \in Nat /\ StopTime < StopPolls

MAX_CHANNEL == 2 * MAX_TUNER          \* the satellite ones first
Slots == 0 .. MAX_PCI_DEVICE - 1
Chans == 0 .. MAX_CHANNEL - 1

VARIABLES
  phase,        \* per conf: how far its probe or removal is
  held,         \* per conf: the resources it has
  chip,         \* per conf: its demodulators
  dma,          \* per conf: "off", "on", "stopping"; or "hung"
  polls,        \* per conf: lp of the loop at 989, or of the channels at 866 and 998
  user,         \* per conf: the channels that programs have open
  device, card_number,
  vacated,      \* history: slots emptied by a removal and not taken since
  crowded,      \* history: a card found device[] full
  spurious      \* history: what was given back without being held

vars == <<phase, held, chip, dma, polls, user, device, card_number, vacated, crowded, spurious>>

-----------------------------------------------------------------------------
(* Resources *)

All(kind, n) == {kind} \X (0 .. n - 1)
One(kind) == <<kind, 0>>
Ctl == All("dmactl", DMA_RING_SIZE)
Pages == All("dmaptr", DMA_RING_SIZE)
Data == All("data", DMA_RING_SIZE * DMA_RING_MAX)
PageOf(d) == <<"dmaptr", d[2] \div DMA_RING_MAX>>
PerChannel == {"cdev", "channel", "buf", "node"} \X Chans
Registers == {One("region"), One("regs")}
Memory == Ctl \cup {One("conf")}
Power == One("power")
Resources == Registers \cup Memory \cup Pages \cup Data \cup PerChannel
             \cup {One("enabled"), Power, One("chrdev"), One("kthread")}

Holds(c, r) == r \in held[c]
Take(c, set) == held' = [held EXCEPT ![c] = @ \cup set] /\ UNCHANGED spurious
Free(c, set) ==
  /\ held' = [held EXCEPT ![c] = @ \ set]
  /\ spurious' = spurious \cup {<<c, r>> : r \in set \ held[c]}

\* kfree and vfree take NULL; dma_free_coherent does not.
Given(c, set) == set \cap held[c]

Goto(c, p) == phase' = [phase EXCEPT ![c] = p]

Init ==
  /\ phase = [c \in Confs |-> "absent"]
  /\ held = [c \in Confs |-> {}]
  /\ chip = [c \in Confs |-> [lp \in Chans |-> "off"]]
  /\ dma = [c \in Confs |-> "off"]
  /\ polls = [c \in Confs |-> 0]
  /\ user = [c \in Confs |-> {}]
  /\ device = [i \in Slots |-> None]
  /\ card_number = [c \in Confs |-> 0]
  /\ vacated = {} /\ crowded = FALSE /\ spurious = {}

table == <<device, card_number, vacated, crowded>>
hardware == <<chip, dma>>

-----------------------------------------------------------------------------
(* Giving back *)

\* The buffers behind a page are looked for only if the page is there.
pt1_dma_free(c) ==
  LET pages == Given(c, Pages) IN pages \cup {d \in Given(c, Data) : PageOf(d) \in pages}

Channels(c) == Given(c, {"buf", "channel"} \X Chans)

\* The labels; each goes on into the next.  The slot of device[], the region of
\* device numbers, the cdevs and the device nodes stay.
KeepRegion(c) == Memory \cup {One("regs"), Power}     \* mutant
out_err_fpga(c) == Memory \cup Registers \cup {Power}
out_err_v4l(c) == Channels(c) \cup out_err_fpga(c)
out_err_dma(c) == pt1_dma_free(c) \cup out_err_v4l(c)

\* 0 to the power register: tuners, LNB and reset off
PowerOff(c) == chip' = [chip EXCEPT ![c] = [lp \in Chans |-> "off"]]

Fail(c, freed, p) ==
  /\ Free(c, freed) /\ Goto(c, p) /\ PowerOff(c)
  /\ UNCHANGED <<dma, polls, user, table>>

-----------------------------------------------------------------------------
(* pt1_pci_init_one *)

\* Enabling, the DMA mask and bus mastering may each fail; the device stays enabled.
Probing == {"allocate", "map", "fpga", "tuners", "register", "channels", "dma", "start"}

Enable(c) ==
  /\ phase[c] = "absent" /\ \A b \in Confs : phase[b] \notin Probing
  /\ \/ Take(c, {One("enabled")}) /\ \E p \in {"allocate", "refused"} : Goto(c, p)
     \/ Take(c, {}) /\ Goto(c, "refused")
  /\ UNCHANGED <<hardware, polls, user, table>>

\* The conf, and a DMA_CONTROL per page; a failure gives back those it had.
Allocate(c) ==
  /\ phase[c] = "allocate"
  /\ \/ Take(c, Memory) /\ Goto(c, "map")
     \/ Take(c, {}) /\ Goto(c, "refused")
  /\ UNCHANGED <<hardware, polls, user, table>>

\* out_err_regbase gives nothing back.
MapRegisters(c) ==
  /\ phase[c] = "map"
  /\ \/ Take(c, Registers) /\ Goto(c, "fpga")
     \/ \E taken \in {{}, {One("region")}} : Take(c, taken) /\ Goto(c, "regbase")
  /\ UNCHANGED <<hardware, polls, user, table>>

\* xc3s_init: unlock (3 looks), PCI and RAM enabled, each answered in time, the RAM
\* pulsed; settuner_reset with reset on, then off, powers the tuners.
Fpga(c) ==
  /\ phase[c] = "fpga"
  /\ \/ /\ Take(c, {Power}) /\ Goto(c, "tuners")
        /\ chip' = [chip EXCEPT ![c] = [lp \in Chans |-> "reset"]]
        /\ UNCHANGED <<dma, polls, user, table>>
     \/ Fail(c, out_err_fpga(c) \ {Power}, "refused")

\* tuner_init for each tuner: both chips are programmed when the satellite one
\* answers with the card's id; then all are put to sleep.
LeaveAwake(was) == [lp \in Chans |-> "ready"]            \* mutant
Sleep(was) == [lp \in Chans |-> "sleep"]

Tuners(c) ==
  /\ phase[c] = "tuners"
  /\ \/ /\ chip' = [chip EXCEPT ![c] = Sleep(@)]
        /\ Goto(c, "register") /\ Take(c, {})
        /\ UNCHANGED <<dma, polls, user, table>>
     \/ Fail(c, out_err_fpga(c), "refused")

\* alloc_chrdev_region, and the first free slot, if there is one.  Without one
\* card_number stays 0, as kzalloc left it.
Free_(i) == device[i] = None
LastFree(s) == Max(s)                                     \* mutant
FirstFree(s) == Min(s)
Number(i) == i

Register(c) ==
  /\ phase[c] = "register"
  /\ \/ /\ Take(c, {One("chrdev")}) /\ Goto(c, "channels")
        /\ LET free == {i \in Slots : Free_(i)} IN
             IF free = {}
             THEN crowded' = TRUE /\ UNCHANGED <<device, card_number, vacated>>
             ELSE LET lp == FirstFree(free) IN
                  /\ device' = [device EXCEPT ![lp] = c]
                  /\ card_number' = [card_number EXCEPT ![c] = Number(lp)]
                  /\ vacated' = vacated \ {lp}
                  /\ UNCHANGED crowded
        /\ polls' = [polls EXCEPT ![c] = 0]
        /\ UNCHANGED <<hardware, user>>
     \/ Fail(c, out_err_fpga(c), "refused")

\* One round of the loop: cdev_add, the channel, its buffer, the device node,
\* from which on programs open it.  Without memory for the channel everything stays.
AddChannel(c) ==
  /\ phase[c] = "channels" /\ polls[c] < MAX_CHANNEL
  /\ LET lp == polls[c] IN
     \/ /\ Take(c, {"cdev", "channel", "buf", "node"} \X {lp})
        /\ polls' = [polls EXCEPT ![c] = lp + 1]
        /\ UNCHANGED <<phase, hardware, user, table>>
     \/ /\ Take(c, {<<"cdev", lp>>}) /\ Goto(c, "nomemory")
        /\ UNCHANGED <<hardware, polls, user, table>>
     \/ /\ held' = [held EXCEPT ![c] = (@ \cup {<<"cdev", lp>>}) \ out_err_v4l(c)]
        /\ spurious' = spurious \cup {<<c, r>> : r \in out_err_v4l(c) \ held[c]}
        /\ Goto(c, "late") /\ PowerOff(c)
        /\ UNCHANGED <<dma, polls, user, table>>

\* pt1_dma_init and pt1_makering take a page each and then the buffers, and may
\* fail at any; what they had then is freed.
Taken(n) ==
  IF n <= DMA_RING_SIZE THEN {<<"dmaptr", i>> : i \in 0 .. n - 1}
  ELSE Pages \cup {<<"data", i>> : i \in 0 .. n - DMA_RING_SIZE - 1}
AllBuffers == DMA_RING_SIZE + (DMA_RING_SIZE * DMA_RING_MAX)

DmaInit(c) ==
  /\ phase[c] = "channels" /\ polls[c] = MAX_CHANNEL
  /\ \E n \in 0 .. AllBuffers :
       /\ Take(c, Taken(n))
       /\ Goto(c, IF n = AllBuffers THEN "start" ELSE "dma")
  /\ polls' = [polls EXCEPT ![c] = 0]
  /\ UNCHANGED <<hardware, user, table>>

DmaInitFail(c) == phase[c] = "dma" /\ Fail(c, out_err_dma(c), "late")

\* kthread_run; its result is not looked at.  The thread starts the DMA.
Start(c) ==
  /\ phase[c] = "start"
  /\ \/ Take(c, {One("kthread")}) /\ dma' = [dma EXCEPT ![c] = "on"]
     \/ Take(c, {}) /\ UNCHANGED dma
  /\ Goto(c, "ready")
  /\ UNCHANGED <<chip, polls, user, table>>

-----------------------------------------------------------------------------
(* pt1_pci_remove_one *)

\* kthread_stop, and the order to the card to stop its DMA.  With the error that
\* kthread_run returned the kernel stops here.  A card goes when it is not in use.
Remove(c) ==
  /\ phase[c] = "ready" /\ user[c] = {}
  /\ IF Holds(c, One("kthread"))
     THEN /\ Free(c, {One("kthread")})
          /\ \E d \in {"stopping"} \cup (IF MayHang THEN {"hung"} ELSE {}) :
               dma' = [dma EXCEPT ![c] = d]
          /\ Goto(c, "stop")
     ELSE Goto(c, "oops") /\ UNCHANGED <<held, spurious, dma>>
  /\ UNCHANGED <<chip, polls, user, table>>

\* The card's DMA stops.
DmaOff(c) ==
  /\ dma[c] = "stopping"
  /\ dma' = [dma EXCEPT ![c] = "off"]
  /\ UNCHANGED <<phase, held, chip, polls, user, table, spurious>>

\* The loop at 989: it looks, and sleeps; a sound card is in time.
LookNot(c) == TRUE                                          \* mutant
DmaStopped(c) == dma[c] = "off"
OutOfPolls(c) == polls[c] >= StopPolls

Poll(c) ==
  /\ phase[c] = "stop" /\ ~DmaStopped(c) /\ ~OutOfPolls(c)
  /\ dma[c] = "stopping" => polls[c] < StopTime
  /\ polls' = [polls EXCEPT ![c] = IF @ = StopPolls THEN @ ELSE @ + 1]
  /\ UNCHANGED <<phase, held, hardware, user, table, spurious>>

RemoveDma(c) ==
  /\ phase[c] = "stop" /\ (DmaStopped(c) \/ OutOfPolls(c))
  /\ Free(c, pt1_dma_free(c))
  /\ Goto(c, "channelsoff") /\ polls' = [polls EXCEPT ![c] = 0]
  /\ UNCHANGED <<hardware, user, table>>

RemoveChannel(c) ==
  /\ phase[c] = "channelsoff" /\ polls[c] < MAX_CHANNEL
  /\ Free(c, {"cdev", "channel", "buf", "node"} \X {polls[c]})
  /\ polls' = [polls EXCEPT ![c] = @ + 1]
  /\ UNCHANGED <<phase, hardware, user, table>>

Unregister(c) ==
  /\ phase[c] = "channelsoff" /\ polls[c] = MAX_CHANNEL
  /\ Free(c, {One("chrdev"), Power} \cup Registers \cup Ctl) /\ PowerOff(c)
  /\ Goto(c, "clear")
  /\ UNCHANGED <<dma, polls, user, table>>

\* device[card_number] = NULL, and then the conf is freed.
ClearNothing(c) == device                                    \* mutant
Cleared(c) == [device EXCEPT ![card_number[c]] = None]

ClearSlot(c) ==
  /\ phase[c] = "clear"
  /\ device' = Cleared(c)
  /\ vacated' = vacated \cup {card_number[c]}
  /\ Goto(c, "free")
  /\ UNCHANGED <<held, spurious, hardware, polls, user, card_number, crowded>>

FreeConf(c) ==
  /\ phase[c] = "free"
  /\ Free(c, {One("conf")}) /\ Goto(c, "removed")
  /\ UNCHANGED <<hardware, polls, user, table>>

-----------------------------------------------------------------------------
(* Programs: pt1_open's search, and what open and release do to the chip *)

\* The loop over device[] ends at the card with the node's major number, or at NULL.
Stops(c) == {i \in Slots : device[i] = None \/ device[i] = c}

Found(c) == Stops(c) # {} /\ device[Min(Stops(c))] = c

InProbe == {"channels", "dma", "start"}

Open(c, lp) ==
  /\ phase[c] \in InProbe \cup {"ready"} /\ Holds(c, <<"node", lp>>)
  /\ Found(c) /\ lp \notin user[c]
  /\ Cardinality({u \in Confs \X Chans : u[2] \in user[u[1]]}) < MaxOpen
  /\ user' = [user EXCEPT ![c] = @ \cup {lp}]
  /\ chip' = [chip EXCEPT ![c][lp] = "awake"]
  /\ UNCHANGED <<phase, held, dma, polls, table, spurious>>

Release(c, lp) ==
  /\ lp \in user[c] /\ phase[c] # "late"
  /\ user' = [user EXCEPT ![c] = @ \ {lp}]
  /\ chip' = [chip EXCEPT ![c][lp] = "sleep"]
  /\ UNCHANGED <<phase, held, dma, polls, table, spurious>>

Probe(c) ==
  \/ Enable(c) \/ Allocate(c) \/ MapRegisters(c) \/ Fpga(c) \/ Tuners(c) \/ Register(c)
  \/ AddChannel(c) \/ DmaInit(c) \/ DmaInitFail(c) \/ Start(c)

Removal(c) ==
  \/ Poll(c) \/ RemoveDma(c) \/ RemoveChannel(c) \/ Unregister(c) \/ ClearSlot(c) \/ FreeConf(c)

Next ==
  \E c \in Confs :
    \/ Probe(c) \/ Remove(c) \/ Removal(c) \/ DmaOff(c)
    \/ \E lp \in Chans : Open(c, lp) \/ Release(c, lp)

\* A removal that has begun goes on, and a sound card stops its DMA.
Spec == Init /\ [][Next]_vars
FairSpec == Spec /\ \A c \in Confs : WF_vars(Removal(c) \/ DmaOff(c))

-----------------------------------------------------------------------------
(* Properties *)

Refused == {"refused", "regbase", "late", "nomemory"}

Known(c) ==
  {One("enabled")} \cup
    CASE phase[c] = "regbase" -> Memory \cup {One("region")}
      [] phase[c] = "nomemory" -> Resources \ (Pages \cup Data)
      [] phase[c] = "late" -> {One("chrdev")} \cup ({"cdev", "node"} \X Chans)
      [] OTHER -> {}

\* Whatever step of a probe fails, and in every removal, only what is held is given
\* back: the error labels free no DMA memory that was not allocated.
\* A card that is gone has left nothing behind but that it is enabled.  The error
\* labels of the code leave more where they are known to: out_err_regbase the memory
\* and the region, the missing channel everything, the late labels the device
\* numbers, cdevs and nodes.
NothingLeft ==
  /\ spurious = {}
  /\ \A c \in Confs : phase[c] \in Refused \cup {"removed"} => held[c] \subseteq Known(c)

Searched(c) == {device[i] : i \in {j \in Slots : \A k \in Stops(c) : j <= k}} \ {None}

\* Nobody who opens a device touches freed memory: neither a conf that the search
\* passes nor a channel.  Cards that failed after they had registered are left in
\* device[] with their conf freed, and a card under removal may be opened still.
OpenSafe ==
  \A c \in Confs, lp \in Chans :
    /\ phase[c] \in InProbe \cup {"ready"} /\ Holds(c, <<"node", lp>>)
    /\ \A b \in Searched(c) : phase[b] # "late"
    => /\ \A b \in Searched(c) : Holds(b, One("conf"))
       /\ Found(c) => \A k \in 0 .. lp : Holds(c, <<"channel", k>>)

\* A working card is found by open, unless a card below it in the table has been
\* removed (the search ends at the hole), or there were more cards than slots.
Reachable ==
  \A c \in Confs : phase[c] = "ready" =>
    Found(c) \/ crowded \/ \E i \in vacated : i < card_number[c]

\* The card writes into no memory that has been given back, unless it did not stop
\* within the ten looks of the removal.
DmaSafe ==
  \A c \in Confs : dma[c] \in {"on", "stopping"} => Pages \cup Data \subseteq held[c]

\* Of a working card exactly the tuners in use are awake.
AsleepUnlessOpen ==
  \A c \in Confs : phase[c] = "ready" =>
    \A lp \in Chans : chip[c][lp] = IF lp \in user[c] THEN "awake" ELSE "sleep"
=============================================================================
