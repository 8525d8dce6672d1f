----------------------------- MODULE Pt1Driver -----------------------------
(***************************************************************************)
(* One card of the pt1 driver: the channels' device files, the thread that  *)
(* empties the DMA ring into the channels' buffers, and programs that use   *)
(* the files the way recpt1's tune() and close_tuner() do.                  *)
(*                                                                         *)
(* There is a device lock and a lock per channel.  open and release take    *)
(* the device lock and, for each transfer on the i2c bus, the channel lock; *)
(* an ioctl takes the channel lock and, for each transfer, the device lock. *)
(* The transfers of one command sequence are alike: one stands for all.     *)
(*                                                                         *)
(* A packet is Parts micropackets, the first of them marked as head.  The   *)
(* buffer of a channel is a sequence of packets: ChannelRing shows that the *)
(* bytes in it are one.                                                     *)
(***************************************************************************)
EXTENDS Integers, Sequences, FiniteSets

CONSTANTS
  Apps,          \* programs
  Channels, Satellite,   \* the card's channels, and which of them are ISDB-S
  Devices,       \* the channels a program tries to open, in order
  Free,          \* owner of an unlocked mutex
  Dma,           \* the DMA thread as an owner
  Parts,         \* micropackets in a packet: 63
  BufferSize,    \* packets in a channel's buffer when it counts as full
  ReadSize,      \* packets one read may take: 87
  DmaSize,       \* bound: micropackets in the DMA ring
  MaxPacket,     \* bound: packets in a broadcast
  MaxSessions,   \* bound: sessions of a program
  MayStop,       \* programs may end a session
  MayAbandon,    \* ... and may do so without reading the remainder
  MayTuneFail,
  MayDmaFail     \* a micropacket may carry the error flag

ASSUME DriverAssumption ==
  /\ Satellite \subseteq Channels
  /\ Devices \in [Apps -> Seq(Channels)]
  /\ Free \notin Apps /\ Dma \notin Apps /\ Free # Dma
  /\ Parts \in Nat \ {0} /\ BufferSize \in Nat \ {0} /\ ReadSize \in Nat \ {0}
  /\ DmaSize \in Nat \ {0} /\ MaxPacket \in Nat

VARIABLES
  devlock, chlock,              \* owners of the mutexes
  valid,                        \* channel is in use
  packet_buf, packet_size,      \* packet under construction
  buffer,                       \* packets for the reader
  req_dma,                      \* the DMA thread waits for the reader
  stream, lnb,                  \* hardware: stream enabled, LNB powered
  air,                          \* what each broadcast sends next
  dmaring,                      \* micropackets not yet handled
  dpc, offset,                  \* DMA thread: pc, packet_size as it read it
  pc, try, sessions, decided, failed,   \* program: pc, device, count, decisions
  last                          \* last packet read

locks   == <<devlock, chlock>>
channel == <<packet_buf, packet_size, buffer, req_dma>>
hard    == <<stream, lnb, air, dmaring>>
dma     == <<dpc, offset>>
session == <<try, sessions, decided, failed, last>>
app     == <<pc, session>>
vars    == <<locks, valid, channel, hard, dma, app>>

Micro  == [ch : Channels, n : 0 .. MaxPacket, part : 1 .. Parts]
Nothing == [n |-> 0, part |-> 1]    \* a slot of packet_buf that was never written

Init ==
  /\ devlock = Free /\ chlock = [c \in Channels |-> Free]
  /\ valid = [c \in Channels |-> FALSE]
  /\ packet_buf = [c \in Channels |-> [i \in 1 .. Parts |-> Nothing]]
  /\ packet_size = [c \in Channels |-> 0]
  /\ buffer = [c \in Channels |-> <<>>]
  /\ req_dma = [c \in Channels |-> FALSE]
  /\ stream = [c \in Channels |-> FALSE] /\ lnb = FALSE
  /\ air = [c \in Channels |-> [n |-> 0, part |-> Parts]]
  /\ dmaring = <<>>
  /\ dpc = "scan" /\ offset = 0
  /\ pc = [a \in Apps |-> "closed"] /\ try = [a \in Apps |-> 1]
  /\ sessions = [a \in Apps |-> 0]
  /\ decided = [a \in Apps |-> FALSE] /\ failed = [a \in Apps |-> FALSE]
  /\ last = [a \in Apps |-> 0]

\* The channel a program has open, or opens.
Ch(a) == Devices[a][try[a]]

Min(m, n) == IF m < n THEN m ELSE n
Goto(a, l) == pc' = [pc EXCEPT ![a] = l]
LockChannel(a) == /\ chlock[Ch(a)] = Free
                  /\ chlock' = [chlock EXCEPT ![Ch(a)] = a]
UnlockChannel(a) == chlock' = [chlock EXCEPT ![Ch(a)] = Free]
Set(f, a, v) == f' = [f EXCEPT ![Ch(a)] = v]

-----------------------------------------------------------------------------
(* pt1_open: one open per channel, under the device lock *)

OpenUnchecked(a) ==   \* mutant: without the look at valid
  /\ pc[a] = "closed" /\ try[a] <= Len(Devices[a]) /\ sessions[a] < MaxSessions
  /\ devlock = Free /\ devlock' = a
  /\ Goto(a, "wake")
  /\ UNCHANGED <<chlock, valid, channel, hard, dma, session>>

\* EIO for a channel in use; the program then tries its next device.
OpenBegin(a) ==
  /\ pc[a] = "closed" /\ try[a] <= Len(Devices[a]) /\ sessions[a] < MaxSessions
  /\ devlock = Free
  /\ IF valid[Ch(a)]
       THEN try' = [try EXCEPT ![a] = @ + 1] /\ UNCHANGED <<devlock, pc, last>>
       ELSE /\ devlock' = a /\ Goto(a, "wake")
            /\ last' = [last EXCEPT ![a] = 0]
            /\ UNCHANGED try
  /\ UNCHANGED <<chlock, valid, channel, hard, dma, sessions, decided, failed>>

\* set_sleepmode(TYPE_WAKEUP): a transfer under the channel lock
OpenWake(a) ==
  /\ pc[a] = "wake" /\ LockChannel(a)
  /\ Goto(a, "wakebus")
  /\ UNCHANGED <<devlock, valid, channel, hard, dma, session>>

OpenAwake(a) ==
  /\ pc[a] = "wakebus" /\ UnlockChannel(a)
  /\ Goto(a, "valid")
  /\ UNCHANGED <<devlock, valid, channel, hard, dma, session>>

\* The channel is marked as used before its state is reset, and packet_size is
\* reset without the channel lock.
OpenValid(a) ==
  /\ pc[a] = "valid"
  /\ Set(valid, a, TRUE)
  /\ Goto(a, "reset")
  /\ UNCHANGED <<locks, channel, hard, dma, session>>

OpenReset(a) ==
  /\ pc[a] = "reset"
  /\ Set(packet_size, a, 0)
  /\ Goto(a, "clear")
  /\ UNCHANGED <<locks, valid, packet_buf, buffer, req_dma, hard, dma, session>>

OpenClear(a) ==
  /\ pc[a] = "clear" /\ chlock[Ch(a)] = Free
  /\ Set(buffer, a, <<>>)
  /\ devlock' = Free
  /\ Goto(a, IF Ch(a) \in Satellite THEN "enable" ELSE "tune")
  /\ UNCHANGED <<chlock, valid, packet_buf, packet_size, req_dma, hard, dma, session>>

-----------------------------------------------------------------------------
(* pt1_ioctl, under the channel lock *)

count_used_bs_tuners == Cardinality({c \in Satellite : valid[c]})

\* LNB_ENABLE and LNB_DISABLE look at all channels, and act, unless two are used.
LnbCount(a, from, to) ==
  /\ pc[a] = from /\ LockChannel(a)
  /\ decided' = [decided EXCEPT ![a] = count_used_bs_tuners <= 1]
  /\ Goto(a, to)
  /\ UNCHANGED <<devlock, valid, channel, hard, dma, try, sessions, failed, last>>

LnbSet(a, from, level, to) ==
  /\ pc[a] = from /\ UnlockChannel(a)
  /\ lnb' = (IF decided[a] THEN level ELSE lnb)
  /\ Goto(a, to)
  /\ UNCHANGED <<devlock, valid, channel, stream, air, dmaring, dma, session>>

LnbEnable(a)  == LnbCount(a, "enable", "enabling") \/ LnbSet(a, "enabling", TRUE, "tune")
LnbDisable(a) == LnbCount(a, "disable", "disabling") \/ LnbSet(a, "disabling", FALSE, "close")

\* SET_CHANNEL: a transfer under the device lock
TuneBegin(a) ==
  /\ pc[a] = "tune" /\ LockChannel(a)
  /\ Goto(a, "tunewait")
  /\ UNCHANGED <<devlock, valid, channel, hard, dma, session>>

TuneTransferUnlocked(a) ==   \* mutant: the channel lock only
  /\ pc[a] = "tunewait"
  /\ Goto(a, "tunebus")
  /\ UNCHANGED <<locks, valid, channel, hard, dma, session>>

TuneTransfer(a) ==
  /\ pc[a] = "tunewait" /\ devlock = Free
  /\ devlock' = a
  /\ Goto(a, "tunebus")
  /\ UNCHANGED <<chlock, valid, channel, hard, dma, session>>

\* When tuning fails tune() closes the file, without LNB_DISABLE, and goes on
\* to the next device.
TuneEnd(a) ==
  /\ pc[a] = "tunebus"
  /\ devlock' = Free /\ UnlockChannel(a)
  /\ \/ Goto(a, "start") /\ UNCHANGED failed
     \/ /\ MayTuneFail
        /\ Goto(a, "close") /\ failed' = [failed EXCEPT ![a] = TRUE]
  /\ UNCHANGED <<valid, channel, hard, dma, try, sessions, decided, last>>

\* START_REC.  The broadcast may be in the middle of a packet.
StartRec(a) ==
  /\ pc[a] = "start" /\ chlock[Ch(a)] = Free
  /\ Set(stream, a, TRUE)
  /\ LET n == Min(air[Ch(a)].n, MaxPacket) + 1
     IN  \E k \in 1 .. Parts : Set(air, a, [n |-> n, part |-> k])
  /\ Goto(a, "watch")
  /\ UNCHANGED <<locks, valid, channel, lnb, dmaring, dma, session>>

StopRec(a) ==
  /\ MayStop /\ pc[a] = "watch" /\ chlock[Ch(a)] = Free
  /\ Set(stream, a, FALSE)
  /\ Goto(a, "stopped")
  /\ UNCHANGED <<locks, valid, channel, lnb, air, dmaring, dma, session>>

-----------------------------------------------------------------------------
(* pt1_read, which waits for at most half a second *)

Number(packet) == packet[1].n
RestSkipping(c, size) == SubSeq(buffer[c], size + 2, Len(buffer[c]))   \* mutant: off by one
RestKeeping(c, size)  == buffer[c]                      \* mutant: size -= is missing
Rest(c, size)         == SubSeq(buffer[c], size + 1, Len(buffer[c]))

Leave(a) == IF Ch(a) \in Satellite THEN "disable" ELSE "close"

Read(a) ==
  /\ pc[a] \in {"watch", "stopped"} /\ chlock[Ch(a)] = Free
  /\ LET c == Ch(a)
         size == Min(ReadSize, Len(buffer[c]))
     IN  /\ Set(buffer, a, Rest(c, size))
         /\ last' = [last EXCEPT ![a] = IF size = 0 THEN @ ELSE Number(buffer[c][size])]
         /\ Goto(a, IF pc[a] = "stopped" /\ size = 0 THEN Leave(a) ELSE pc[a])
  /\ Set(req_dma, a, FALSE)
  /\ UNCHANGED <<locks, valid, packet_buf, packet_size, hard, dma,
                 try, sessions, decided, failed>>

\* A program that was told to exit does not read the remainder.
Abandon(a) ==
  /\ MayAbandon /\ pc[a] = "stopped"
  /\ Goto(a, Leave(a))
  /\ UNCHANGED <<locks, valid, channel, hard, dma, session>>

-----------------------------------------------------------------------------
(* pt1_release, under the device lock *)

Release(a) ==
  /\ pc[a] = "close" /\ devlock = Free
  /\ devlock' = a
  /\ Set(stream, a, FALSE)
  /\ Goto(a, "invalid")
  /\ UNCHANGED <<chlock, valid, channel, lnb, air, dmaring, dma, session>>

ReleaseInvalid(a) ==
  /\ pc[a] = "invalid"
  /\ Set(valid, a, FALSE)
  /\ Set(req_dma, a, FALSE)
  /\ Goto(a, "sleep")
  /\ UNCHANGED <<locks, packet_buf, packet_size, buffer, hard, dma, session>>

ReleaseSleep(a) ==
  /\ pc[a] = "sleep" /\ LockChannel(a)
  /\ Goto(a, "sleepbus")
  /\ UNCHANGED <<devlock, valid, channel, hard, dma, session>>

\* Asleep: the session is over, or tune() goes on to the next device.
ReleaseEnd(a) ==
  /\ pc[a] = "sleepbus"
  /\ UnlockChannel(a) /\ devlock' = Free
  /\ Goto(a, "closed")
  /\ IF failed[a]
       THEN try' = [try EXCEPT ![a] = @ + 1] /\ UNCHANGED sessions
       ELSE try' = [try EXCEPT ![a] = 1] /\ sessions' = [sessions EXCEPT ![a] = @ + 1]
  /\ failed' = [failed EXCEPT ![a] = FALSE]
  /\ UNCHANGED <<valid, channel, hard, dma, decided, last>>

-----------------------------------------------------------------------------
(* pt1_thread *)

\* Micropackets of unused channels are thrown away.
DmaScan ==
  /\ dpc = "scan" /\ dmaring # <<>>
  /\ IF valid[Head(dmaring).ch] THEN dpc' = "lock" /\ UNCHANGED dmaring
                                ELSE dmaring' = Tail(dmaring) /\ UNCHANGED dpc
  /\ UNCHANGED <<locks, valid, channel, stream, lnb, air, offset, app>>

\* reset_dma: everything the ring holds is lost.
DmaFail ==
  /\ MayDmaFail
  /\ dpc = "scan" /\ dmaring # <<>>
  /\ dmaring' = <<>>
  /\ UNCHANGED <<locks, valid, channel, stream, lnb, air, dma, app>>

DmaLock ==
  /\ dpc = "lock" /\ chlock[Head(dmaring).ch] = Free
  /\ chlock' = [chlock EXCEPT ![Head(dmaring).ch] = Dma]
  /\ dpc' = "test"
  /\ UNCHANGED <<devlock, valid, channel, hard, offset, app>>

Full(c) == Len(buffer[c]) >= BufferSize

\* A full buffer: ask for a read and wait, with the channel unlocked.
DmaFull ==
  /\ dpc = "test" /\ Full(Head(dmaring).ch)
  /\ req_dma' = [req_dma EXCEPT ![Head(dmaring).ch] = TRUE]
  /\ chlock' = [chlock EXCEPT ![Head(dmaring).ch] = Free]
  /\ dpc' = "wait"
  /\ UNCHANGED <<devlock, valid, packet_buf, packet_size, buffer, hard, offset, app>>

\* Woken, or half a second later.
DmaWake ==
  /\ dpc = "wait"
  /\ dpc' = "lock"
  /\ UNCHANGED <<locks, valid, channel, hard, offset, app>>

OffsetKept(m) == packet_size[m.ch]   \* mutant: a head does not start afresh
Offset(m) == IF m.part = 1 THEN 0 ELSE packet_size[m.ch]

\* The load and the store of packet_size are two steps.
DmaCopy ==
  /\ dpc = "test" /\ ~Full(Head(dmaring).ch)
  /\ LET m == Head(dmaring)
     IN  /\ offset' = Offset(m)
         /\ packet_buf' = [packet_buf EXCEPT ![m.ch][offset'+1] = [n |-> m.n, part |-> m.part]]
  /\ dpc' = "copied"
  /\ UNCHANGED <<locks, valid, packet_size, buffer, req_dma, hard, app>>

DmaStore ==
  /\ dpc = "copied"
  /\ LET c == Head(dmaring).ch
         complete == offset + 1 = Parts
     IN  /\ packet_size' = [packet_size EXCEPT ![c] = IF complete THEN 0 ELSE offset + 1]
         /\ buffer' = (IF complete THEN [buffer EXCEPT ![c] = Append(@, packet_buf[c])]
                                   ELSE buffer)
         /\ chlock' = [chlock EXCEPT ![c] = Free]
  /\ dmaring' = Tail(dmaring)
  /\ dpc' = "scan"
  /\ UNCHANGED <<devlock, valid, packet_buf, req_dma, stream, lnb, air, offset, app>>

-----------------------------------------------------------------------------
(* The card *)

NextOnAir(m) == IF m.part = Parts THEN [n |-> m.n + 1, part |-> 1]
                                  ELSE [m EXCEPT !.part = @ + 1]

Deliver(c) ==
  /\ stream[c] /\ air[c].n <= MaxPacket /\ Len(dmaring) < DmaSize
  /\ dmaring' = Append(dmaring, [ch |-> c, n |-> air[c].n, part |-> air[c].part])
  /\ air' = [air EXCEPT ![c] = NextOnAir(@)]
  /\ UNCHANGED <<locks, valid, channel, stream, lnb, dma, app>>

-----------------------------------------------------------------------------
Ioctl(a) == LnbEnable(a) \/ LnbDisable(a) \/ TuneBegin(a) \/ TuneTransfer(a) \/ TuneEnd(a)
              \/ StartRec(a)
Open(a)  == OpenBegin(a) \/ OpenWake(a) \/ OpenAwake(a) \/ OpenValid(a) \/ OpenReset(a)
              \/ OpenClear(a)
Close(a) == Release(a) \/ ReleaseInvalid(a) \/ ReleaseSleep(a) \/ ReleaseEnd(a)
DmaThread == DmaScan \/ DmaFail \/ DmaLock \/ DmaFull \/ DmaWake \/ DmaCopy \/ DmaStore

Over ==
  \A a \in Apps : pc[a] = "closed" /\ (sessions[a] = MaxSessions \/ try[a] > Len(Devices[a]))

Next ==
  \/ \E a \in Apps : Open(a) \/ Ioctl(a) \/ Close(a) \/ Read(a) \/ StopRec(a) \/ Abandon(a)
  \/ DmaThread
  \/ \E c \in Channels : Deliver(c)
  \/ Over /\ UNCHANGED vars

Spec == Init /\ [][Next]_vars

\* The DMA thread and every call in progress go on, and a program that has a
\* stream open keeps reading.  A mutex that is free again and again is got.
Fairness ==
  /\ WF_vars(DmaScan \/ DmaFull \/ DmaWake \/ DmaCopy \/ DmaStore) /\ SF_vars(DmaLock)
  /\ \A a \in Apps : SF_vars(Open(a) \/ Ioctl(a) \/ Close(a)) /\ SF_vars(Read(a))

FairSpec == Spec /\ Fairness

-----------------------------------------------------------------------------
(* Properties *)

Slot == [n : 0 .. MaxPacket, part : 1 .. Parts]
Packet == [1 .. Parts -> Slot]
Labels == {"closed", "wake", "wakebus", "valid", "reset", "clear", "enable", "enabling",
           "tune", "tunewait", "tunebus", "start", "watch", "stopped", "disable",
           "disabling", "close", "invalid", "sleep", "sleepbus"}

\* What locks, channels, hardware and threads may hold; a channel buffer never
\* has more packets than Full lets in, and packet_size stays inside packet_buf.
TypeOK ==
  /\ devlock \in Apps \cup {Free} /\ chlock \in [Channels -> Apps \cup {Dma, Free}]
  /\ valid \in [Channels -> BOOLEAN] /\ req_dma \in [Channels -> BOOLEAN]
  /\ packet_buf \in [Channels -> Packet] /\ packet_size \in [Channels -> 0 .. Parts-1]
  /\ buffer \in [Channels -> Seq(Packet)]
  /\ \A c \in Channels : Len(buffer[c]) <= BufferSize
  /\ stream \in [Channels -> BOOLEAN] /\ lnb \in BOOLEAN
  /\ air \in [Channels -> [n : 0 .. MaxPacket + 1, part : 1 .. Parts]]
  /\ dmaring \in Seq(Micro)
  /\ dpc \in {"scan", "lock", "test", "wait", "copied"} /\ offset \in 0 .. Parts-1
  /\ pc \in [Apps -> Labels] /\ try \in [Apps -> Nat] /\ sessions \in [Apps -> Nat]
  /\ decided \in [Apps -> BOOLEAN] /\ failed \in [Apps -> BOOLEAN]
  /\ last \in [Apps -> 0 .. MaxPacket]

OnBus(a) == pc[a] \in {"wakebus", "tunebus", "sleepbus"}
HasOpen(a) == pc[a] \notin {"closed", "wake", "wakebus", "valid", "reset", "clear"}

\* One i2c transfer at a time on a card, although open and ioctl protect it
\* with different locks.
BusExclusive == \A a, b \in Apps : OnBus(a) /\ OnBus(b) => a = b

\* A channel has one user.
OneUser == \A a, b \in Apps : HasOpen(a) /\ HasOpen(b) /\ Ch(a) = Ch(b) => a = b

\* open and release take the device lock first and ioctl takes the channel lock
\* first, but never do the two wait for each other.
NoEmbrace ==
  \A a, b \in Apps :
    ~ /\ devlock = a /\ pc[a] \in {"wake", "clear", "sleep"} /\ chlock[Ch(a)] = b
      /\ pc[b] = "tunewait"

Streaming(a) == pc[a] \in {"watch", "stopped"}
Whole(packet) == \A i \in 1 .. Parts : packet[i] = [n |-> Number(packet), part |-> i]

\* Every packet that a program gets is put together from the micropackets of
\* one packet of the broadcast, in their order, also when the stream started in
\* the middle of one.
PacketsWhole ==
  \A a \in Apps : Streaming(a) =>
    \A i \in DOMAIN buffer[Ch(a)] : Whole(buffer[Ch(a)][i])

\* What a program reads in a session has no hole: the driver stops the DMA
\* thread rather than lose a packet.
NoGap ==
  \A a \in Apps : Streaming(a) =>
    LET b == buffer[Ch(a)]
    IN  /\ \A i \in 1 .. Len(b) - 1 : Number(b[i+1]) = Number(b[i]) + 1
        /\ last[a] # 0 /\ b # <<>> => Number(b[1]) = last[a] + 1

\* A full channel holds up the others until it is read.  If its program leaves it unread,
\* which release does not help, they wait for whoever opens it next.
DmaGoesOn == dpc = "wait" ~> dpc = "scan" \/ ~valid[Head(dmaring).ch]
=============================================================================
