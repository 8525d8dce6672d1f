-------------------------- MODULE Pt1DriverProofs --------------------------
(***************************************************************************)
(* Proofs about Pt1Driver for every set of programs, channels and devices,  *)
(* every size of packet, buffer and DMA ring: the i2c bus, the channels and *)
(* the two kinds of lock are used as meant, and the packets get through.    *)
(***************************************************************************)
EXTENDS Pt1Driver, TLAPS

(* Who holds which mutex is written in the program counters. *)
InDevice == {"wake", "wakebus", "valid", "reset", "clear", "tunebus", "invalid",
             "sleep", "sleepbus"}
InChannel == {"wakebus", "enabling", "tunewait", "tunebus", "disabling", "sleepbus"}
Asleep == {"wake", "wakebus", "valid", "sleep", "sleepbus"}
Using == Labels \ (Asleep \cup {"closed"})

AtDevice ==
  \A a \in Apps : try[a] >= 1 /\ (pc[a] # "closed" => try[a] <= Len(Devices[a]))
DeviceLock == \A a \in Apps : devlock = a <=> pc[a] \in InDevice
ChannelLock ==
  \A a \in Apps, c \in Channels : chlock[c] = a <=> pc[a] \in InChannel /\ Ch(a) = c

\* The DMA thread inside its lock: it has a micropacket in hand, and has seen
\* that the buffer of its channel takes another packet.
DmaInside ==
  /\ dpc # "scan" => dmaring # <<>>
  /\ \A c \in Channels :
       chlock[c] = Dma => dpc \in {"test", "copied"} /\ Head(dmaring).ch = c
  /\ dpc \in {"test", "copied"} => chlock[Head(dmaring).ch] = Dma
  /\ dpc = "copied" => ~Full(Head(dmaring).ch)

\* valid is the mark of the one program that uses the channel; who opens or
\* closes finds it unset under the device lock.
Users ==
  /\ \A a \in Apps : pc[a] \in Using => valid[Ch(a)]
  /\ \A a \in Apps : pc[a] \in Asleep => ~valid[Ch(a)]
  /\ \A a, b \in Apps : pc[a] \in Using /\ pc[b] \in Using /\ Ch(a) = Ch(b) => a = b

Locks == AtDevice /\ DeviceLock /\ ChannelLock /\ Users
IInv == TypeOK /\ Locks /\ DmaInside

-----------------------------------------------------------------------------
(* The channel of a program that is not between two sessions is a channel. *)
LEMMA ChannelOf ==
  ASSUME TypeOK, AtDevice, NEW a \in Apps, try[a] <= Len(Devices[a])
  PROVE  Ch(a) \in Channels
<1>1. Devices[a] \in Seq(Channels)  BY DriverAssumption
<1>2. try[a] \in 1 .. Len(Devices[a])  BY DEF TypeOK, AtDevice
<1> QED  BY <1>1, <1>2 DEF Ch

\* The head of the DMA ring is a micropacket of the card.
LEMMA HeadType ==
  ASSUME TypeOK, dmaring # <<>>
  PROVE  Head(dmaring) \in Micro /\ Tail(dmaring) \in Seq(Micro)
  BY DEF TypeOK

\* The mutexes, the channels and the hardware as the module is loaded.
LEMMA InitInv == Init => IInv
<1> SUFFICES ASSUME Init PROVE IInv  OBVIOUS
<1> USE DriverAssumption
<1>1. TypeOK
  <2>1. [i \in 1 .. Parts |-> Nothing] \in Packet  BY DEF Packet, Slot, Nothing
  <2>2. packet_buf \in [Channels -> Packet]  BY <2>1 DEF Init
  <2>3. /\ buffer \in [Channels -> Seq(Packet)]
        /\ \A c \in Channels : Len(buffer[c]) <= BufferSize
    BY DEF Init
  <2>4. air \in [Channels -> [n : 0 .. MaxPacket + 1, part : 1 .. Parts]]  BY DEF Init
  <2>5. packet_size \in [Channels -> 0 .. Parts-1] /\ dmaring \in Seq(Micro)  BY DEF Init
  <2>6. pc \in [Apps -> Labels] /\ try \in [Apps -> Nat] /\ sessions \in [Apps -> Nat]
    BY DEF Init, Labels
  <2>7. /\ devlock \in Apps \cup {Free} /\ chlock \in [Channels -> Apps \cup {Dma, Free}]
        /\ valid \in [Channels -> BOOLEAN] /\ req_dma \in [Channels -> BOOLEAN]
        /\ stream \in [Channels -> BOOLEAN] /\ lnb \in BOOLEAN
    BY DEF Init
  <2>8. /\ dpc \in {"scan", "lock", "test", "wait", "copied"} /\ offset \in 0 .. Parts-1
        /\ decided \in [Apps -> BOOLEAN] /\ failed \in [Apps -> BOOLEAN]
        /\ last \in [Apps -> 0 .. MaxPacket]
    BY DEF Init
  <2> QED  BY <2>2, <2>3, <2>4, <2>5, <2>6, <2>7, <2>8 DEF TypeOK
<1>2. AtDevice  BY DEF Init, AtDevice
<1>3. DeviceLock  BY DEF Init, DeviceLock, InDevice
<1>4. ChannelLock  BY DEF Init, ChannelLock, InChannel
<1>5. Users  BY DEF Init, Users, Using, Asleep
<1>6. DmaInside  BY DEF Init, DmaInside
<1> QED  BY <1>1, <1>2, <1>3, <1>4, <1>5, <1>6 DEF IInv, Locks

-----------------------------------------------------------------------------
(* A program's steps leave the DMA thread's micropacket alone: they take a  *)
(* channel lock only when it is free, give back only their own, and change  *)
(* a buffer only while the lock is free.                                    *)
LEMMA DmaKept ==
  ASSUME IInv, UNCHANGED <<dpc, dmaring>>,
         \A c \in Channels : chlock'[c] = Dma <=> chlock[c] = Dma,
         \A c \in Channels : chlock[c] = Dma => buffer'[c] = buffer[c]
  PROVE  DmaInside'
<1>1. dpc # "scan" => Head(dmaring).ch \in Channels  BY HeadType DEF IInv, DmaInside,
    Micro
<1> QED  BY <1>1 DEF IInv, DmaInside, Full

-----------------------------------------------------------------------------
(* A program's step from pc[a] to l, seen from the two kinds of lock. *)

DeviceMove(a, l) ==
  \/ (pc[a] \in InDevice <=> l \in InDevice) /\ devlock' = devlock
  \/ pc[a] \in InDevice /\ l \notin InDevice /\ devlock' = Free
  \/ pc[a] \notin InDevice /\ l \in InDevice /\ devlock = Free /\ devlock' = a

ChannelMove(a, l) ==
  \/ (pc[a] \in InChannel <=> l \in InChannel) /\ chlock' = chlock
  \/ pc[a] \in InChannel /\ l \notin InChannel /\ UnlockChannel(a)
  \/ pc[a] \notin InChannel /\ l \in InChannel /\ LockChannel(a)

\* A step that takes a mutex when it is free, and gives back its own, keeps the
\* program counters and the owners in agreement.
LEMMA MoveLocks ==
  ASSUME IInv, NEW a \in Apps, try[a] <= Len(Devices[a]),
         NEW l \in Labels, l # "closed", Goto(a, l), UNCHANGED try,
         DeviceMove(a, l), ChannelMove(a, l)
  PROVE  /\ pc' \in [Apps -> Labels]
         /\ devlock' \in Apps \cup {Free} /\ chlock' \in [Channels -> Apps \cup {Dma, Free}]
         /\ \A c \in Channels : chlock'[c] = Dma <=> chlock[c] = Dma
         /\ AtDevice' /\ DeviceLock' /\ ChannelLock'
<1> USE DriverAssumption
<1>1. Ch(a) \in Channels  BY ChannelOf DEF IInv, Locks
<1>2. pc' \in [Apps -> Labels] /\ \A b \in Apps : pc'[b] = IF b = a THEN l ELSE pc[b]
  BY DEF Goto, IInv, TypeOK
<1>3. \A b \in Apps : Ch(b)' = Ch(b)  BY DEF Ch
<1>4. devlock' \in Apps \cup {Free} /\ DeviceLock'
  <2>1. devlock \in Apps \cup {Free} /\ DeviceLock  BY DEF IInv, TypeOK, Locks
  <2>2. devlock' \in Apps \cup {Free}  BY <2>1 DEF DeviceMove
  <2>3. ASSUME NEW b \in Apps PROVE devlock' = b <=> pc'[b] \in InDevice
    <3>1. devlock = b <=> pc[b] \in InDevice  BY <2>1 DEF DeviceLock
    <3>2. devlock = a <=> pc[a] \in InDevice  BY <2>1 DEF DeviceLock
    <3>3. Free # a /\ Free # b  OBVIOUS
    <3> QED  BY <1>2, <3>1, <3>2, <3>3 DEF DeviceMove
  <2> QED  BY <2>2, <2>3 DEF DeviceLock
<1>5. chlock \in [Channels -> Apps \cup {Dma, Free}] /\ ChannelLock
  BY DEF IInv, TypeOK, Locks
<1>6. /\ chlock' \in [Channels -> Apps \cup {Dma, Free}]
      /\ \A c \in Channels : chlock'[c] = Dma <=> chlock[c] = Dma
  <2>1. CASE chlock' = chlock  BY <1>5, <2>1
  <2>2. CASE pc[a] \in InChannel /\ UnlockChannel(a)
    <3>1. chlock[Ch(a)] = a  BY <1>1, <1>5, <2>2 DEF ChannelLock
    <3> QED  BY <1>1, <1>5, <2>2, <3>1 DEF UnlockChannel
  <2>3. CASE LockChannel(a)  BY <1>1, <1>5, <2>3 DEF LockChannel
  <2> QED  BY <2>1, <2>2, <2>3 DEF ChannelMove
<1>7. ChannelLock'
  <2> SUFFICES ASSUME NEW b \in Apps, NEW c \in Channels
               PROVE  chlock'[c] = b <=> pc'[b] \in InChannel /\ Ch(b) = c
    BY <1>3 DEF ChannelLock
  <2>0. chlock[c] = b <=> pc[b] \in InChannel /\ Ch(b) = c  BY <1>5 DEF ChannelLock
  <2>4. chlock[Ch(a)] = a <=> pc[a] \in InChannel  BY <1>1, <1>5 DEF ChannelLock
  <2>1. CASE (pc[a] \in InChannel <=> l \in InChannel) /\ chlock' = chlock
    BY <1>2, <2>0, <2>1
  <2>2. CASE pc[a] \in InChannel /\ l \notin InChannel /\ UnlockChannel(a)
    BY <1>1, <1>2, <1>5, <2>0, <2>2, <2>4 DEF UnlockChannel
  <2>3. CASE pc[a] \notin InChannel /\ l \in InChannel /\ LockChannel(a)
    BY <1>1, <1>2, <1>5, <2>0, <2>3, <2>4 DEF LockChannel
  <2> QED  BY <2>1, <2>2, <2>3 DEF ChannelMove
<1>8. AtDevice'  BY <1>2 DEF IInv, Locks, AtDevice
<1> QED  BY <1>2, <1>4, <1>6, <1>7, <1>8

\* A step that neither begins nor ends the use of a channel.
LEMMA MoveUsers ==
  ASSUME IInv, NEW a \in Apps, NEW l \in Labels, Goto(a, l), UNCHANGED <<try, valid>>,
         pc[a] \in Using <=> l \in Using, pc[a] \in Asleep <=> l \in Asleep
  PROVE  Users'
<1>1. \A b \in Apps : pc'[b] = IF b = a THEN l ELSE pc[b]  BY DEF Goto, IInv, TypeOK
<1>2. \A b \in Apps : Ch(b)' = Ch(b)  BY DEF Ch
<1> QED  BY <1>1, <1>2 DEF IInv, Locks, Users

\* A step from pc[a] to l outside of the DMA thread, and one that keeps the use of
\* the channels as it is.
StepTo(a, l) ==
  /\ pc[a] # "closed" /\ l \in Labels /\ l # "closed" /\ Goto(a, l)
  /\ DeviceMove(a, l) /\ ChannelMove(a, l)
  /\ UNCHANGED <<try, dpc, dmaring>>

QuietStep(a, l) ==
  /\ StepTo(a, l)
  /\ (pc[a] \in Using <=> l \in Using) /\ (pc[a] \in Asleep <=> l \in Asleep)
  /\ UNCHANGED valid

\* What TypeOK says besides the mutexes, the program counters and the devices.
DataTypes ==
  /\ valid \in [Channels -> BOOLEAN] /\ req_dma \in [Channels -> BOOLEAN]
  /\ packet_buf \in [Channels -> Packet] /\ packet_size \in [Channels -> 0 .. Parts-1]
  /\ stream \in [Channels -> BOOLEAN] /\ lnb \in BOOLEAN
  /\ air \in [Channels -> [n : 0 .. MaxPacket + 1, part : 1 .. Parts]]
  /\ offset \in 0 .. Parts-1 /\ sessions \in [Apps -> Nat]
  /\ decided \in [Apps -> BOOLEAN] /\ failed \in [Apps -> BOOLEAN]
  /\ last \in [Apps -> 0 .. MaxPacket]
BufferTypes ==
  /\ buffer \in [Channels -> Seq(Packet)]
  /\ \A c \in Channels : Len(buffer[c]) <= BufferSize
ThreadTypes ==
  /\ devlock \in Apps \cup {Free} /\ chlock \in [Channels -> Apps \cup {Dma, Free}]
  /\ dmaring \in Seq(Micro) /\ dpc \in {"scan", "lock", "test", "wait", "copied"}
  /\ pc \in [Apps -> Labels] /\ try \in [Apps -> Nat]

LEMMA Types ==
  /\ TypeOK <=> DataTypes /\ BufferTypes /\ ThreadTypes
  /\ TypeOK' <=> DataTypes' /\ BufferTypes' /\ ThreadTypes'
  BY DEF TypeOK, DataTypes, BufferTypes, ThreadTypes

LEMMA StepInv ==
  ASSUME IInv, NEW a \in Apps, NEW l, StepTo(a, l), Users', DataTypes', BufferTypes',
         \A c \in Channels : chlock[c] = Dma => buffer'[c] = buffer[c]
  PROVE  IInv'
<1>1. try[a] <= Len(Devices[a])  BY DEF IInv, Locks, AtDevice, StepTo
<1>2. /\ pc' \in [Apps -> Labels]
      /\ devlock' \in Apps \cup {Free} /\ chlock' \in [Channels -> Apps \cup {Dma, Free}]
      /\ \A c \in Channels : chlock'[c] = Dma <=> chlock[c] = Dma
      /\ AtDevice' /\ DeviceLock' /\ ChannelLock'
  BY <1>1, MoveLocks DEF StepTo
<1>3. DmaInside'  BY <1>2, DmaKept DEF StepTo
<1>4. ThreadTypes'  BY <1>2, Types DEF IInv, ThreadTypes, StepTo
<1> QED  BY <1>2, <1>3, <1>4, Types DEF IInv, Locks

LEMMA QuietInv ==
  ASSUME IInv, NEW a \in Apps, NEW l, QuietStep(a, l), DataTypes', UNCHANGED buffer
  PROVE  IInv'
<1>1. Users'  BY MoveUsers DEF QuietStep, StepTo
<1>2. BufferTypes'  BY Types DEF IInv, BufferTypes
<1> QED  BY <1>1, <1>2, StepInv DEF QuietStep

-----------------------------------------------------------------------------
(* The steps of a program. *)

\* While a program has a device in hand, it is one of the card's channels.
LEMMA InHand ==
  ASSUME IInv, NEW a \in Apps, pc[a] # "closed"
  PROVE  DataTypes /\ Ch(a) \in Channels
<1>1. try[a] <= Len(Devices[a])  BY DEF IInv, Locks, AtDevice
<1> QED  BY <1>1, ChannelOf, Types DEF IInv, Locks

\* pt1_open finds the channel unused under the device lock, which nobody else who
\* is asleep can hold.
LEMMA OpenBeginInv == ASSUME IInv, NEW a \in Apps, OpenBegin(a) PROVE IInv'
<1> USE DriverAssumption
<1>1. Ch(a) \in Channels /\ pc[a] = "closed" /\ try[a] <= Len(Devices[a])
  BY ChannelOf DEF IInv, Locks, OpenBegin
<1>2. CASE valid[Ch(a)]
  <2>1. /\ try' = [try EXCEPT ![a] = @ + 1]
        /\ UNCHANGED <<devlock, pc, last, chlock, valid, channel, hard, dma, sessions,
                       decided, failed>>
    BY <1>2 DEF OpenBegin
  <2>2. \A b \in Apps : pc[b] # "closed" => Ch(b)' = Ch(b)
    BY <1>1, <2>1 DEF Ch, IInv, TypeOK
  <2>3. \A b \in Apps :
          pc[b] = "closed" => pc[b] \notin InChannel \cup InDevice \cup Using \cup Asleep
    BY DEF InChannel, InDevice, Using, Asleep
  <2>4. AtDevice' /\ try' \in [Apps -> Nat]
    <3>1. try \in [Apps -> Nat] /\ AtDevice  BY DEF IInv, TypeOK, Locks
    <3>2. \A b \in Apps : try'[b] = IF b = a THEN try[b] + 1 ELSE try[b]  BY <2>1, <3>1
    <3> QED  BY <1>1, <2>1, <3>1, <3>2 DEF AtDevice
  <2>5. DeviceLock'  BY <2>1 DEF IInv, Locks, DeviceLock
  <2>6. ChannelLock'  BY <2>1, <2>2, <2>3 DEF IInv, Locks, ChannelLock
  <2>7. Users'  BY <2>1, <2>2, <2>3 DEF IInv, Locks, Users
  <2>8. DmaInside'  BY <2>1 DEF IInv, DmaInside, Full, channel, hard, dma
  <2>9. TypeOK'  BY <2>1, <2>4 DEF IInv, TypeOK, channel, hard, dma
  <2> QED  BY <2>4, <2>5, <2>6, <2>7, <2>8, <2>9 DEF IInv, Locks
<1>3. CASE ~valid[Ch(a)]
  <2>1. /\ devlock = Free /\ devlock' = a /\ Goto(a, "wake")
        /\ last' = [last EXCEPT ![a] = 0]
        /\ UNCHANGED <<try, chlock, valid, channel, hard, dma, sessions, decided, failed>>
    BY <1>3 DEF OpenBegin
  <2>2. DeviceMove(a, "wake") /\ ChannelMove(a, "wake") /\ "wake" \in Labels
    BY <1>1, <2>1 DEF DeviceMove, ChannelMove, InDevice, InChannel, Labels
  <2>3. /\ pc' \in [Apps -> Labels]
        /\ devlock' \in Apps \cup {Free} /\ chlock' \in [Channels -> Apps \cup {Dma, Free}]
        /\ \A c \in Channels : chlock'[c] = Dma <=> chlock[c] = Dma
        /\ AtDevice' /\ DeviceLock' /\ ChannelLock'
    BY <1>1, <2>1, <2>2, MoveLocks
  <2>4. Users'
    <3>1. \A b \in Apps : pc'[b] = IF b = a THEN "wake" ELSE pc[b]
      BY <2>1 DEF Goto, IInv, TypeOK
    <3>2. \A b \in Apps : Ch(b)' = Ch(b)  BY <2>1 DEF Ch
    <3>3. "wake" \in Asleep /\ "wake" \notin Using  BY DEF Asleep, Using
    <3> QED  BY <1>3, <2>1, <3>1, <3>2, <3>3 DEF IInv, Locks, Users
  <2>5. DmaInside'  BY <2>1, <2>3, DmaKept DEF channel, hard, dma
  <2>6. TypeOK'
    <3>0. DataTypes /\ BufferTypes /\ 0 \in 0 .. MaxPacket  BY Types DEF IInv
    <3>1. DataTypes' /\ BufferTypes'
      BY <2>1, <3>0 DEF DataTypes, BufferTypes, channel, hard, dma
    <3>2. ThreadTypes'  BY <2>1, <2>3, Types DEF IInv, ThreadTypes, hard, dma
    <3> QED  BY <3>1, <3>2, Types
  <2> QED  BY <2>3, <2>4, <2>5, <2>6 DEF IInv, Locks
<1> QED  BY <1>2, <1>3

\* The steps of pt1_open that only take and give back a lock, and the reset of
\* packet_size.
LEMMA OpenStepInv ==
  ASSUME IInv, NEW a \in Apps, OpenWake(a) \/ OpenAwake(a) \/ OpenReset(a)
  PROVE  IInv'
<1>0. pc[a] # "closed"  BY DEF OpenWake, OpenAwake, OpenReset
<1>1. DataTypes /\ Ch(a) \in Channels  BY <1>0, InHand
<1>2. CASE OpenWake(a)
  <2>1. QuietStep(a, "wakebus") /\ UNCHANGED buffer
    BY <1>2 DEF OpenWake, QuietStep, StepTo, DeviceMove, ChannelMove, InDevice,
        InChannel, Using, Asleep, Labels, locks, channel, hard, dma, session
  <2>2. DataTypes'  BY <1>1, <1>2 DEF OpenWake, DataTypes, locks, channel, hard, dma,
      session
  <2> QED  BY <2>1, <2>2, QuietInv
<1>3. CASE OpenAwake(a)
  <2>1. QuietStep(a, "valid") /\ UNCHANGED buffer
    BY <1>3 DEF OpenAwake, QuietStep, StepTo, DeviceMove, ChannelMove, InDevice,
        InChannel, Using, Asleep, Labels, locks, channel, hard, dma, session
  <2>2. DataTypes'  BY <1>1, <1>3 DEF OpenAwake, DataTypes, locks, channel, hard, dma,
      session
  <2> QED  BY <2>1, <2>2, QuietInv
<1>4. CASE OpenReset(a)
  <2>1. QuietStep(a, "clear") /\ UNCHANGED buffer
    BY <1>4 DEF OpenReset, QuietStep, StepTo, DeviceMove, ChannelMove, InDevice,
        InChannel, Using, Asleep, Labels, locks, channel, hard, dma, session
  <2>2. 0 \in 0 .. Parts-1  BY DriverAssumption
  <2>3. DataTypes'  BY <1>1, <1>4, <2>2 DEF OpenReset, Set, DataTypes, locks, channel,
      hard, dma, session
  <2> QED  BY <2>1, <2>3, QuietInv
<1> QED  BY <1>2, <1>3, <1>4

\* The mark goes up: nobody else uses the channel, or is asleep on it, since that
\* takes the device lock.
LEMMA OpenValidInv == ASSUME IInv, NEW a \in Apps, OpenValid(a) PROVE IInv'
<1>0. pc[a] = "valid"  BY DEF OpenValid
<1>1. DataTypes /\ Ch(a) \in Channels  BY <1>0, InHand
<1>2. StepTo(a, "reset") /\ UNCHANGED buffer
  BY DEF OpenValid, QuietStep, StepTo, DeviceMove, ChannelMove, InDevice, InChannel,
      Using, Asleep, Labels, locks, channel, hard, dma, session
<1>3. DataTypes' /\ BufferTypes'
  BY <1>1, Types DEF IInv, OpenValid, Set, DataTypes, BufferTypes, locks, channel,
      hard, dma, session
<1>4. Users'
  <2>1. \A b \in Apps : pc'[b] = IF b = a THEN "reset" ELSE pc[b]
    BY DEF OpenValid, Goto, IInv, TypeOK
  <2>2. \A b \in Apps : Ch(b)' = Ch(b)  BY DEF OpenValid, Ch, session
  <2>3. "reset" \in Using /\ "reset" \notin Asleep /\ "valid" \in Asleep
    BY DEF Using, Asleep, Labels
  <2>4. \A b \in Apps : pc[b] \in Asleep => b = a
    BY <1>0 DEF IInv, Locks, DeviceLock, Asleep, InDevice
  <2>5. \A b \in Apps : pc[b] \in Using => Ch(b) # Ch(a)
    BY <1>0, <2>3 DEF IInv, Locks, Users
  <2>6. \A c \in Channels : valid'[c] <=> valid[c] \/ c = Ch(a)
    BY <1>1 DEF OpenValid, Set, DataTypes
  <2>7. \A b \in Apps : pc[b] \in Using => Ch(b) \in Channels  BY InHand DEF Using
  <2>8. \A b \in Apps : pc'[b] \in Using => valid'[Ch(b)]
    BY <1>1, <2>1, <2>6, <2>7 DEF IInv, Locks, Users
  <2>9. \A b \in Apps : pc'[b] \in Asleep => ~valid'[Ch(b)]
    BY <2>1, <2>3, <2>4
  <2>10. \A b, d \in Apps : pc'[b] \in Using /\ pc'[d] \in Using /\ Ch(b) = Ch(d) => b = d
    BY <2>1, <2>5 DEF IInv, Locks, Users
  <2> QED  BY <2>2, <2>8, <2>9, <2>10 DEF Users
<1> QED  BY <1>2, <1>3, <1>4, StepInv

\* The buffer is emptied while nobody, and so not the DMA thread, has the channel.
LEMMA OpenClearInv == ASSUME IInv, NEW a \in Apps, OpenClear(a) PROVE IInv'
<1> DEFINE l == IF Ch(a) \in Satellite THEN "enable" ELSE "tune"
<1>0. pc[a] = "clear"  BY DEF OpenClear
<1>1. DataTypes /\ Ch(a) \in Channels  BY <1>0, InHand
<1>2. QuietStep(a, l)
  BY DEF OpenClear, QuietStep, StepTo, DeviceMove, ChannelMove, InDevice, InChannel,
      Using, Asleep, Labels, locks, channel, hard, dma, session
<1>3. Users'  BY <1>2, MoveUsers DEF QuietStep, StepTo
<1>4. DataTypes'  BY <1>1 DEF OpenClear, DataTypes, locks, channel, hard, dma, session
<1>5. BufferTypes'
  BY <1>1, Types, DriverAssumption DEF IInv, OpenClear, Set, BufferTypes
<1>6. \A c \in Channels : chlock[c] = Dma => buffer'[c] = buffer[c]
  BY <1>1, Types, DriverAssumption DEF IInv, OpenClear, Set, BufferTypes
<1> HIDE DEF l
<1> QED  BY <1>2, <1>3, <1>4, <1>5, <1>6, StepInv DEF QuietStep

\* LNB_ENABLE and LNB_DISABLE, under the channel lock.
LEMMA LnbInv ==
  ASSUME IInv, NEW a \in Apps, LnbEnable(a) \/ LnbDisable(a)
  PROVE  IInv'
<1>0. pc[a] # "closed"  BY DEF LnbEnable, LnbDisable, LnbCount, LnbSet
<1>1. DataTypes /\ Ch(a) \in Channels  BY <1>0, InHand
<1>2. ASSUME NEW from \in {"enable", "disable"}, NEW to \in {"enabling", "disabling"},
             LnbCount(a, from, to)
      PROVE  IInv'
  <2>1. QuietStep(a, to) /\ UNCHANGED buffer
    BY <1>2 DEF LnbCount, QuietStep, StepTo, DeviceMove, ChannelMove, InDevice,
        InChannel, Using, Asleep, Labels, locks, channel, hard, dma, session
  <2>2. DataTypes'  BY <1>1, <1>2 DEF LnbCount, DataTypes, locks, channel, hard, dma,
      session
  <2> QED  BY <2>1, <2>2, QuietInv
<1>3. ASSUME NEW from \in {"enabling", "disabling"}, NEW level \in BOOLEAN,
             NEW to \in {"tune", "close"}, LnbSet(a, from, level, to)
      PROVE  IInv'
  <2>1. QuietStep(a, to) /\ UNCHANGED buffer
    BY <1>3 DEF LnbSet, QuietStep, StepTo, DeviceMove, ChannelMove, InDevice,
        InChannel, Using, Asleep, Labels, locks, channel, hard, dma, session
  <2>2. DataTypes'  BY <1>1, <1>3 DEF LnbSet, DataTypes, locks, channel, hard, dma,
      session
  <2> QED  BY <2>1, <2>2, QuietInv
<1> QED  BY <1>2, <1>3 DEF LnbEnable, LnbDisable

\* SET_CHANNEL, under the channel lock and then the device lock.
LEMMA TuneInv ==
  ASSUME IInv, NEW a \in Apps, TuneBegin(a) \/ TuneTransfer(a) \/ TuneEnd(a)
  PROVE  IInv'
<1>0. pc[a] # "closed"  BY DEF TuneBegin, TuneTransfer, TuneEnd
<1>1. DataTypes /\ Ch(a) \in Channels  BY <1>0, InHand
<1>2. CASE TuneBegin(a)
  <2>1. QuietStep(a, "tunewait") /\ UNCHANGED buffer
    BY <1>2 DEF TuneBegin, QuietStep, StepTo, DeviceMove, ChannelMove, InDevice,
        InChannel, Using, Asleep, Labels, locks, channel, hard, dma, session
  <2>2. DataTypes'  BY <1>1, <1>2 DEF TuneBegin, Set, DataTypes, locks, channel, hard,
      dma, session
  <2> QED  BY <2>1, <2>2, QuietInv
<1>3. CASE TuneTransfer(a)
  <2>1. QuietStep(a, "tunebus") /\ UNCHANGED buffer
    BY <1>3 DEF TuneTransfer, QuietStep, StepTo, DeviceMove, ChannelMove, InDevice,
        InChannel, Using, Asleep, Labels, locks, channel, hard, dma, session
  <2>2. DataTypes'  BY <1>1, <1>3 DEF TuneTransfer, Set, DataTypes, locks, channel,
      hard, dma, session
  <2> QED  BY <2>1, <2>2, QuietInv
<1>4. CASE TuneEnd(a) /\ Goto(a, "start")
  <2>1. QuietStep(a, "start") /\ UNCHANGED buffer
    BY <1>4 DEF TuneEnd, QuietStep, StepTo, DeviceMove, ChannelMove, InDevice,
        InChannel, Using, Asleep, Labels, locks, channel, hard, dma, session
  <2>2. DataTypes'  BY <1>1, <1>4 DEF TuneEnd, Set, DataTypes, locks, channel, hard,
      dma, session
  <2> QED  BY <2>1, <2>2, QuietInv
<1>5. CASE TuneEnd(a) /\ Goto(a, "close")
  <2>1. QuietStep(a, "close") /\ UNCHANGED buffer
    BY <1>5 DEF TuneEnd, QuietStep, StepTo, DeviceMove, ChannelMove, InDevice,
        InChannel, Using, Asleep, Labels, locks, channel, hard, dma, session
  <2>2. DataTypes'  BY <1>1, <1>5 DEF TuneEnd, Set, DataTypes, locks, channel, hard,
      dma, session
  <2> QED  BY <2>1, <2>2, QuietInv
<1> QED  BY <1>2, <1>3, <1>4, <1>5 DEF TuneEnd

\* The stream is switched on and off, and a program leaves.
LEMMA StreamInv ==
  ASSUME IInv, NEW a \in Apps, StartRec(a) \/ StopRec(a) \/ Abandon(a)
  PROVE  IInv'
<1>0. pc[a] # "closed"  BY DEF StartRec, StopRec, Abandon
<1>1. DataTypes /\ Ch(a) \in Channels  BY <1>0, InHand
<1>2. CASE StartRec(a)
  <2>1. QuietStep(a, "watch") /\ UNCHANGED buffer
    BY <1>2 DEF StartRec, QuietStep, StepTo, DeviceMove, ChannelMove, InDevice,
        InChannel, Using, Asleep, Labels, locks, channel, hard, dma, session
  <2>2. Min(air[Ch(a)].n, MaxPacket) + 1 \in 0 .. MaxPacket + 1
    BY <1>1, DriverAssumption DEF DataTypes, Min
  <2>3. air' \in [Channels -> [n : 0 .. MaxPacket + 1, part : 1 .. Parts]]
    BY <1>1, <1>2, <2>2 DEF StartRec, Set, DataTypes
  <2>4. DataTypes'  BY <1>1, <1>2, <2>3 DEF StartRec, Set, DataTypes, locks, channel,
      hard, dma, session
  <2> QED  BY <2>1, <2>4, QuietInv
<1>3. CASE StopRec(a)
  <2>1. QuietStep(a, "stopped") /\ UNCHANGED buffer
    BY <1>3 DEF StopRec, QuietStep, StepTo, DeviceMove, ChannelMove, InDevice,
        InChannel, Using, Asleep, Labels, locks, channel, hard, dma, session
  <2>2. DataTypes'  BY <1>1, <1>3 DEF StopRec, Set, DataTypes, locks, channel, hard,
      dma, session
  <2> QED  BY <2>1, <2>2, QuietInv
<1>4. CASE Abandon(a)
  <2>1. QuietStep(a, Leave(a)) /\ UNCHANGED buffer
    BY <1>4 DEF Abandon, Leave, QuietStep, StepTo, DeviceMove, ChannelMove, InDevice,
        InChannel, Using, Asleep, Labels, locks, channel, hard, dma, session
  <2>2. DataTypes'  BY <1>1, <1>4 DEF Abandon, Leave, Set, DataTypes, locks, channel,
      hard, dma, session
  <2> QED  BY <2>1, <2>2, QuietInv
<1> QED  BY <1>2, <1>3, <1>4

\* What a read leaves is the end of what was there.
LEMMA ReadRest ==
  ASSUME NEW c \in Channels, BufferTypes, NEW size \in 0 .. Len(buffer[c])
  PROVE  /\ Rest(c, size) \in Seq(Packet) /\ Len(Rest(c, size)) <= BufferSize
         /\ size # 0 => Number(buffer[c][size]) \in 0 .. MaxPacket
<1> USE DriverAssumption
<1>1. buffer[c] \in Seq(Packet) /\ Len(buffer[c]) <= BufferSize  BY DEF BufferTypes
<1>2. Rest(c, size) \in Seq(Packet) /\ Len(Rest(c, size)) = Len(buffer[c]) - size
  BY <1>1 DEF Rest
<1>3. ASSUME size # 0 PROVE Number(buffer[c][size]) \in 0 .. MaxPacket
  <2>1. buffer[c][size] \in Packet  BY <1>1, <1>3
  <2>2. 1 \in 1 .. Parts  OBVIOUS
  <2> QED  BY <2>1, <2>2 DEF Packet, Slot, Number
<1> QED  BY <1>1, <1>2, <1>3

\* A read empties the buffer only while the DMA thread does not hold the channel.
LEMMA ReadInv == ASSUME IInv, NEW a \in Apps, Read(a) PROVE IInv'
<1> USE DriverAssumption
<1>0. pc[a] \in {"watch", "stopped"}  BY DEF Read
<1>1. DataTypes /\ Ch(a) \in Channels  BY <1>0, InHand
<1> DEFINE c == Ch(a)
           size == Min(ReadSize, Len(buffer[c]))
           l == IF pc[a] = "stopped" /\ size = 0 THEN Leave(a) ELSE pc[a]
<1>2. BufferTypes /\ size \in 0 .. Len(buffer[c])
  BY <1>1, Types DEF IInv, BufferTypes, Min
<1>3. /\ Rest(c, size) \in Seq(Packet) /\ Len(Rest(c, size)) <= BufferSize
      /\ size # 0 => Number(buffer[c][size]) \in 0 .. MaxPacket
  BY <1>1, <1>2, ReadRest
<1>4. /\ chlock[c] = Free /\ buffer' = [buffer EXCEPT ![c] = Rest(c, size)]
      /\ last' = [last EXCEPT ![a] = IF size = 0 THEN @ ELSE Number(buffer[c][size])]
      /\ Goto(a, l) /\ req_dma' = [req_dma EXCEPT ![c] = FALSE]
      /\ UNCHANGED <<locks, valid, packet_buf, packet_size, hard, dma,
                     try, sessions, decided, failed>>
  BY DEF Read, Set
<1> HIDE DEF size
<1>5. DataTypes'  BY <1>1, <1>3, <1>4 DEF DataTypes, hard, dma
<1>6. BufferTypes'  BY <1>1, <1>2, <1>3, <1>4 DEF BufferTypes
<1>7. \A k \in Channels : chlock[k] = Dma => buffer'[k] = buffer[k]
  BY <1>1, <1>2, <1>4 DEF BufferTypes
<1>8. l \in {"watch", "stopped", "disable", "close"}  BY <1>0 DEF Leave
<1> HIDE DEF l
<1>9. QuietStep(a, l)
  BY <1>0, <1>4, <1>8 DEF QuietStep, StepTo, DeviceMove, ChannelMove, InDevice,
      InChannel,
       Using, Asleep, Labels, locks, hard, dma
<1>10. Users'  BY <1>9, MoveUsers DEF QuietStep, StepTo
<1> QED  BY <1>5, <1>6, <1>7, <1>9, <1>10, StepInv DEF QuietStep

\* The steps of pt1_release that only take a lock.
LEMMA ReleaseStepInv ==
  ASSUME IInv, NEW a \in Apps, Release(a) \/ ReleaseSleep(a)
  PROVE  IInv'
<1>0. pc[a] # "closed"  BY DEF Release, ReleaseSleep
<1>1. DataTypes /\ Ch(a) \in Channels  BY <1>0, InHand
<1>2. CASE Release(a)
  <2>1. QuietStep(a, "invalid") /\ UNCHANGED buffer
    BY <1>2 DEF Release, QuietStep, StepTo, DeviceMove, ChannelMove, InDevice,
        InChannel, Using, Asleep, Labels, locks, channel, hard, dma, session
  <2>2. DataTypes'  BY <1>1, <1>2 DEF Release, Set, DataTypes, locks, channel, hard,
      dma, session
  <2> QED  BY <2>1, <2>2, QuietInv
<1>3. CASE ReleaseSleep(a)
  <2>1. QuietStep(a, "sleepbus") /\ UNCHANGED buffer
    BY <1>3 DEF ReleaseSleep, QuietStep, StepTo, DeviceMove, ChannelMove, InDevice,
        InChannel, Using, Asleep, Labels, locks, channel, hard, dma, session
  <2>2. DataTypes'  BY <1>1, <1>3 DEF ReleaseSleep, Set, DataTypes, locks, channel,
      hard, dma, session
  <2> QED  BY <2>1, <2>2, QuietInv
<1> QED  BY <1>2, <1>3

\* The mark goes down: it was this program's.
LEMMA ReleaseInvalidInv == ASSUME IInv, NEW a \in Apps, ReleaseInvalid(a) PROVE IInv'
<1>0. pc[a] = "invalid"  BY DEF ReleaseInvalid
<1>1. DataTypes /\ Ch(a) \in Channels  BY <1>0, InHand
<1>2. StepTo(a, "sleep") /\ UNCHANGED buffer
  BY DEF ReleaseInvalid, QuietStep, StepTo, DeviceMove, ChannelMove, InDevice,
      InChannel, Using, Asleep, Labels, locks, channel, hard, dma, session
<1>3. DataTypes' /\ BufferTypes'
  BY <1>1, Types DEF IInv, ReleaseInvalid, Set, DataTypes, BufferTypes, locks, channel,
      hard, dma, session
<1>4. Users'
  <2>1. \A b \in Apps : pc'[b] = IF b = a THEN "sleep" ELSE pc[b]
    BY DEF ReleaseInvalid, Goto, IInv, TypeOK
  <2>2. \A b \in Apps : Ch(b)' = Ch(b)  BY DEF ReleaseInvalid, Ch, session
  <2>3. "sleep" \notin Using /\ "sleep" \in Asleep /\ "invalid" \in Using
    BY DEF Using, Asleep, Labels
  <2>4. \A b \in Apps : pc[b] \in Using /\ Ch(b) = Ch(a) => b = a
    BY <1>0, <2>3 DEF IInv, Locks, Users
  <2>5. \A c \in Channels : valid'[c] <=> valid[c] /\ c # Ch(a)
    BY <1>1 DEF ReleaseInvalid, Set, DataTypes
  <2>6. \A b \in Apps : pc[b] \in Using \cup Asleep => Ch(b) \in Channels
    BY InHand DEF Using, Asleep
  <2>7. \A b \in Apps : pc'[b] \in Using => valid'[Ch(b)]
    BY <2>1, <2>3, <2>4, <2>5, <2>6 DEF IInv, Locks, Users
  <2>8. \A b \in Apps : pc'[b] \in Asleep => ~valid'[Ch(b)]
    BY <1>1, <2>1, <2>5, <2>6 DEF IInv, Locks, Users
  <2>9. \A b, d \in Apps : pc'[b] \in Using /\ pc'[d] \in Using /\ Ch(b) = Ch(d) => b = d
    BY <2>1, <2>3 DEF IInv, Locks, Users
  <2> QED  BY <2>2, <2>7, <2>8, <2>9 DEF Users
<1> QED  BY <1>2, <1>3, <1>4, StepInv

\* Both mutexes are given back, and the program turns to a device again.
LEMMA ReleaseEndInv == ASSUME IInv, NEW a \in Apps, ReleaseEnd(a) PROVE IInv'
<1> USE DriverAssumption
<1>0. pc[a] = "sleepbus"  BY DEF ReleaseEnd
<1>1. DataTypes /\ Ch(a) \in Channels  BY <1>0, InHand
<1>2. /\ devlock' = Free /\ chlock' = [chlock EXCEPT ![Ch(a)] = Free]
      /\ pc' = [pc EXCEPT ![a] = "closed"]
      /\ UNCHANGED <<valid, channel, hard, dma, decided, last>>
  BY DEF ReleaseEnd, UnlockChannel, Goto
<1>3. /\ pc \in [Apps -> Labels] /\ try \in [Apps -> Nat]
      /\ chlock \in [Channels -> Apps \cup {Dma, Free}]
  BY DEF IInv, TypeOK
<1>4. \A b \in Apps : pc'[b] = IF b = a THEN "closed" ELSE pc[b]  BY <1>2, <1>3
<1>5. /\ try' \in [Apps -> Nat]
      /\ \A b \in Apps \ {a} : try'[b] = try[b]
      /\ try'[a] >= 1
  BY <1>3 DEF ReleaseEnd
<1>6. \A b \in Apps \ {a} : Ch(b)' = Ch(b)  BY <1>5 DEF Ch
<1>7. "closed" \notin InDevice \cup InChannel \cup Using \cup Asleep
  BY DEF InDevice, InChannel, Using, Asleep
<1>8. AtDevice'  BY <1>4, <1>5 DEF IInv, Locks, AtDevice
<1>9. DeviceLock'
  <2>1. devlock = a  BY <1>0 DEF IInv, Locks, DeviceLock, InDevice
  <2> QED  BY <1>2, <1>4, <1>7, <2>1 DEF IInv, Locks, DeviceLock
<1>10. chlock[Ch(a)] = a  BY <1>0, <1>1 DEF IInv, Locks, ChannelLock, InChannel
<1>11. ChannelLock'
  <2> SUFFICES ASSUME NEW b \in Apps, NEW c \in Channels
               PROVE  chlock'[c] = b <=> pc'[b] \in InChannel /\ Ch(b)' = c
    BY DEF ChannelLock
  <2>1. chlock[c] = b <=> pc[b] \in InChannel /\ Ch(b) = c  BY DEF IInv, Locks,
      ChannelLock
  <2>2. chlock[c] = a <=> pc[a] \in InChannel /\ Ch(a) = c  BY DEF IInv, Locks,
      ChannelLock
  <2>3. chlock'[c] = IF c = Ch(a) THEN Free ELSE chlock[c]  BY <1>1, <1>2, <1>3
  <2>4. CASE b = a
    <3>1. pc'[b] \notin InChannel  BY <1>4, <1>7, <2>4
    <3>2. chlock'[c] # b  BY <1>0, <2>2, <2>3, <2>4 DEF InChannel
    <3> QED  BY <3>1, <3>2
  <2>5. CASE b # a  BY <1>4, <1>6, <1>10, <2>1, <2>3, <2>5
  <2> QED  BY <2>4, <2>5
<1>12. Users'  BY <1>2, <1>4, <1>6, <1>7 DEF IInv, Locks, Users
<1>13. \A c \in Channels : chlock'[c] = Dma <=> chlock[c] = Dma
  BY <1>1, <1>2, <1>3, <1>10
<1>14. DmaInside'  BY <1>2, <1>13, DmaKept DEF channel, hard, dma
<1>15. TypeOK'
  <2>1. sessions' \in [Apps -> Nat] /\ failed' \in [Apps -> BOOLEAN]
    BY <1>1 DEF ReleaseEnd, DataTypes
  <2>2. DataTypes' /\ BufferTypes'
    BY <1>1, <1>2, <2>1, Types DEF IInv, DataTypes, BufferTypes, channel, hard, dma
  <2>3. pc' \in [Apps -> Labels] /\ chlock' \in [Channels -> Apps \cup {Dma, Free}]
    BY <1>2, <1>3 DEF Labels
  <2>4. ThreadTypes'
    BY <1>2, <1>5, <2>3, Types DEF IInv, ThreadTypes, hard, dma
  <2> QED  BY <2>2, <2>4, Types
<1> QED  BY <1>8, <1>9, <1>11, <1>12, <1>14, <1>15 DEF IInv, Locks

-----------------------------------------------------------------------------
(* The steps of the DMA thread and of the card. *)

\* They leave the programs, their devices and the device lock alone, and the channel
\* locks that programs hold.
LEMMA LocksKept ==
  ASSUME IInv, UNCHANGED <<devlock, valid, pc, try>>,
         \A c \in Channels :
           chlock'[c] # chlock[c] => {chlock[c], chlock'[c]} \subseteq {Dma, Free}
  PROVE  Locks'
<1> USE DriverAssumption
<1>1. \A b \in Apps : Ch(b)' = Ch(b)  BY DEF Ch
<1>2. AtDevice' /\ DeviceLock'  BY DEF IInv, Locks, AtDevice, DeviceLock
<1>3. Users'  BY <1>1 DEF IInv, Locks, Users
<1>4. \A b \in Apps, c \in Channels : chlock'[c] = b <=> chlock[c] = b  OBVIOUS
<1>5. ChannelLock'  BY <1>1, <1>4 DEF IInv, Locks, ChannelLock
<1> QED  BY <1>2, <1>3, <1>5 DEF Locks

\* The micropacket in the thread's hand.
LEMMA Hand ==
  ASSUME IInv, dmaring # <<>>
  PROVE  /\ Head(dmaring).ch \in Channels /\ Head(dmaring).n \in 0 .. MaxPacket
         /\ Head(dmaring).part \in 1 .. Parts /\ Tail(dmaring) \in Seq(Micro)
  BY HeadType DEF IInv, Micro

LEMMA DmaScanInv == ASSUME IInv, DmaScan \/ DmaFail PROVE IInv'
<1>1. /\ dpc = "scan" /\ dmaring # <<>>
      /\ UNCHANGED <<locks, valid, channel, stream, lnb, air, offset, app>>
      /\ \/ dpc' = "lock" /\ UNCHANGED dmaring
         \/ dpc' = "scan" /\ dmaring' \in {Tail(dmaring), <<>>}
  BY DEF DmaScan, DmaFail, dma
<1>2. dmaring' \in Seq(Micro)
  <2>1. dmaring \in Seq(Micro) /\ Tail(dmaring) \in Seq(Micro)
    BY <1>1, Hand, Types DEF IInv, ThreadTypes
  <2>2. <<>> \in Seq(Micro)  OBVIOUS
  <2> QED  BY <1>1, <2>1, <2>2
<1>3. Locks'  BY <1>1, LocksKept DEF locks, app, session
<1>4. DmaInside'  BY <1>1 DEF IInv, DmaInside, Full, locks, channel
<1>5. TypeOK'
  BY <1>1, <1>2, Types DEF IInv, DataTypes, BufferTypes, ThreadTypes, locks, channel,
      app,
       session
<1> QED  BY <1>3, <1>4, <1>5 DEF IInv

LEMMA DmaLockInv == ASSUME IInv, DmaLock PROVE IInv'
<1> USE DriverAssumption
<1>1. /\ dpc = "lock" /\ dmaring # <<>> /\ Head(dmaring).ch \in Channels
      /\ chlock \in [Channels -> Apps \cup {Dma, Free}]
  BY Hand DEF IInv, TypeOK, DmaInside, DmaLock
<1>2. Locks'  BY <1>1, LocksKept DEF DmaLock, app, session
<1>3. \A c \in Channels : chlock[c] # Dma  BY <1>1 DEF IInv, DmaInside
<1>4. DmaInside'  BY <1>1, <1>3 DEF DmaLock, DmaInside, hard
<1>5. TypeOK'
  BY <1>1, Types DEF IInv, DmaLock, DataTypes, BufferTypes, ThreadTypes, channel, hard,
      app,
       session
<1> QED  BY <1>2, <1>4, <1>5 DEF IInv

LEMMA DmaFullInv == ASSUME IInv, DmaFull PROVE IInv'
<1> USE DriverAssumption
<1> DEFINE c == Head(dmaring).ch
<1>1. /\ dpc = "test" /\ dmaring # <<>> /\ c \in Channels /\ chlock[c] = Dma
      /\ chlock \in [Channels -> Apps \cup {Dma, Free}]
  BY Hand DEF IInv, TypeOK, DmaInside, DmaFull
<1>2. Locks'  BY <1>1, LocksKept DEF DmaFull, app, session
<1>3. \A k \in Channels : chlock[k] = Dma => k = c  BY DEF IInv, DmaInside
<1>4. DmaInside'  BY <1>1, <1>3 DEF DmaFull, DmaInside, hard
<1>5. DataTypes' /\ BufferTypes'
  BY <1>1, Types DEF IInv, DmaFull, DataTypes, BufferTypes, hard, app, session
<1>6. ThreadTypes'  BY <1>1, Types DEF IInv, DmaFull, ThreadTypes, hard, app, session
<1> QED  BY <1>2, <1>4, <1>5, <1>6, Types DEF IInv

LEMMA DmaWakeInv == ASSUME IInv, DmaWake PROVE IInv'
<1>1. Locks'  BY LocksKept DEF DmaWake, locks, app, session
<1>2. DmaInside'  BY DEF DmaWake, IInv, DmaInside, locks, hard
<1>3. TypeOK'
  BY Types DEF IInv, DmaWake, DataTypes, BufferTypes, ThreadTypes, locks, channel, hard,
       app, session
<1> QED  BY <1>1, <1>2, <1>3 DEF IInv

\* packet_size is smaller than a packet, so that the copy stays inside packet_buf.
LEMMA DmaCopyInv == ASSUME IInv, DmaCopy PROVE IInv'
<1> USE DriverAssumption
<1> DEFINE m == Head(dmaring)
<1>1. /\ dpc = "test" /\ dmaring # <<>> /\ m.ch \in Channels /\ chlock[m.ch] = Dma
      /\ m.n \in 0 .. MaxPacket /\ m.part \in 1 .. Parts
      /\ DataTypes /\ BufferTypes
  BY Hand, Types DEF IInv, DmaInside, DmaCopy
<1>2. Locks'  BY <1>1, LocksKept DEF DmaCopy, locks, app, session
<1>3. DmaInside'  BY <1>1 DEF DmaCopy, IInv, DmaInside, Full, locks, hard
<1>4. Offset(m) \in 0 .. Parts-1  BY <1>1 DEF Offset, DataTypes
<1>5. packet_buf' \in [Channels -> Packet]
  <2> DEFINE slot == [n |-> m.n, part |-> m.part]
  <2>1. packet_buf \in [Channels -> Packet] /\ slot \in Slot  BY <1>1 DEF DataTypes,
      Slot
  <2>2. packet_buf' = [packet_buf EXCEPT ![m.ch][Offset(m)+1] = slot]  BY DEF DmaCopy
  <2> HIDE DEF slot
  <2>3. [packet_buf[m.ch] EXCEPT ![Offset(m)+1] = slot] \in Packet
    BY <1>1, <1>4, <2>1 DEF Packet
  <2> QED  BY <2>1, <2>2, <2>3
<1>6. offset' = Offset(m)  BY DEF DmaCopy
<1>7. DataTypes'  BY <1>1, <1>4, <1>5, <1>6 DEF DmaCopy, DataTypes, hard, app, session
<1>8. /\ ThreadTypes /\ dpc' = "copied"
      /\ UNCHANGED <<devlock, chlock, dmaring, pc, try, buffer>>
  BY Types DEF IInv, DmaCopy, locks, hard, app, session
<1>9. BufferTypes' /\ ThreadTypes'  BY <1>1, <1>8 DEF BufferTypes, ThreadTypes
<1> QED  BY <1>2, <1>3, <1>7, <1>9, Types DEF IInv

\* A packet is put only into a buffer that was seen to be not full, and nobody
\* has had the channel since.
LEMMA DmaStoreInv == ASSUME IInv, DmaStore PROVE IInv'
<1> USE DriverAssumption
<1> DEFINE c == Head(dmaring).ch
           complete == offset + 1 = Parts
<1>1. /\ dpc = "copied" /\ dmaring # <<>> /\ c \in Channels /\ chlock[c] = Dma /\ ~Full(c)
      /\ Tail(dmaring) \in Seq(Micro)
      /\ DataTypes /\ BufferTypes /\ ThreadTypes
  BY Hand, Types DEF IInv, DmaInside, DmaStore
<1>2. Locks'  BY <1>1, LocksKept DEF DmaStore, ThreadTypes, app, session
<1>3. \A k \in Channels : chlock[k] = Dma => k = c  BY DEF IInv, DmaInside
<1>4. chlock' = [chlock EXCEPT ![c] = Free] /\ dpc' = "scan"  BY DEF DmaStore
<1>5. DmaInside'  BY <1>1, <1>3, <1>4 DEF DmaInside, ThreadTypes
<1>6. packet_size' \in [Channels -> 0 .. Parts-1]
  <2>1. packet_size' = [packet_size EXCEPT ![c] = IF complete THEN 0 ELSE offset + 1]
    BY DEF DmaStore
  <2>2. (IF complete THEN 0 ELSE offset + 1) \in 0 .. Parts-1  BY <1>1 DEF DataTypes
  <2>3. packet_size \in [Channels -> 0 .. Parts-1]  BY <1>1 DEF DataTypes
  <2> HIDE DEF complete
  <2> QED  BY <1>1, <2>1, <2>2, <2>3
<1>7. BufferTypes'
  <2>1. CASE ~complete  BY <1>1, <2>1 DEF DmaStore, BufferTypes
  <2>2. CASE complete
    <3>1. buffer' = [buffer EXCEPT ![c] = Append(buffer[c], packet_buf[c])]
      BY <1>1, <2>2 DEF DmaStore, BufferTypes
    <3>2. /\ Append(buffer[c], packet_buf[c]) \in Seq(Packet)
          /\ Len(Append(buffer[c], packet_buf[c])) <= BufferSize
      BY <1>1 DEF BufferTypes, DataTypes, Full
    <3> QED  BY <1>1, <3>1, <3>2 DEF BufferTypes
  <2> QED  BY <2>1, <2>2
<1>8. DataTypes'  BY <1>1, <1>6 DEF DmaStore, DataTypes, app, session
<1>9. ThreadTypes'  BY <1>1, <1>4 DEF DmaStore, ThreadTypes, app, session
<1> QED  BY <1>2, <1>5, <1>7, <1>8, <1>9, Types DEF IInv

\* What the card adds goes behind the micropacket in hand.
LEMMA DeliverInv == ASSUME IInv, NEW c \in Channels, Deliver(c) PROVE IInv'
<1> USE DriverAssumption
<1> DEFINE m == [ch |-> c, n |-> air[c].n, part |-> air[c].part]
<1>1. DataTypes /\ BufferTypes /\ ThreadTypes  BY Types DEF IInv
<1>2. Locks'  BY LocksKept DEF Deliver, locks, app, session
<1>3. m \in Micro  BY <1>1 DEF Deliver, DataTypes, Micro
<1>4. dmaring' = Append(dmaring, m)  BY DEF Deliver
<1> HIDE DEF m
<1>5. /\ dmaring' \in Seq(Micro) /\ dmaring' # <<>>
      /\ dmaring # <<>> => Head(dmaring') = Head(dmaring)
  BY <1>1, <1>3, <1>4 DEF ThreadTypes
<1>6. DmaInside'
  BY <1>5 DEF Deliver, IInv, DmaInside, Full, locks, channel, dma
<1>7. air' \in [Channels -> [n : 0 .. MaxPacket + 1, part : 1 .. Parts]]
  <2>1. air[c].n \in 0 .. MaxPacket /\ air[c].part \in 1 .. Parts
    BY <1>1 DEF Deliver, DataTypes
  <2>2. NextOnAir(air[c]) \in [n : 0 .. MaxPacket + 1, part : 1 .. Parts]
    BY <1>1, <2>1 DEF NextOnAir, DataTypes
  <2> QED  BY <1>1, <2>2 DEF Deliver, DataTypes
<1>8. DataTypes' /\ BufferTypes' /\ ThreadTypes'
  BY <1>1, <1>5, <1>7 DEF Deliver, DataTypes, BufferTypes, ThreadTypes, locks, channel,
      dma,
       app, session
<1> QED  BY <1>2, <1>6, <1>8, Types DEF IInv

LEMMA StutterInv == ASSUME IInv, UNCHANGED vars PROVE IInv'
<1>1. UNCHANGED <<locks, valid, channel, hard, dma, app>>  BY DEF vars
<1>2. Locks'  BY <1>1, LocksKept DEF locks, app, session
<1>3. DmaInside'
  BY <1>1 DEF IInv, DmaInside, Full, locks, channel, hard, dma
<1>4. TypeOK'
  BY <1>1, Types DEF IInv, DataTypes, BufferTypes, ThreadTypes, locks, channel, hard,
      dma,
       app, session
<1> QED  BY <1>2, <1>3, <1>4 DEF IInv

-----------------------------------------------------------------------------
(* The theorems. *)

LEMMA NextInv == IInv /\ [Next]_vars => IInv'
<1> SUFFICES ASSUME IInv, [Next]_vars PROVE IInv'  OBVIOUS
<1>1. ASSUME NEW a \in Apps, Open(a) PROVE IInv'
  BY <1>1, OpenBeginInv, OpenStepInv, OpenValidInv, OpenClearInv DEF Open
<1>2. ASSUME NEW a \in Apps, Ioctl(a) PROVE IInv'
  BY <1>2, LnbInv, TuneInv, StreamInv DEF Ioctl
<1>3. ASSUME NEW a \in Apps, Close(a) PROVE IInv'
  BY <1>3, ReleaseStepInv, ReleaseInvalidInv, ReleaseEndInv DEF Close
<1>4. ASSUME NEW a \in Apps, Read(a) \/ StopRec(a) \/ Abandon(a) PROVE IInv'
  BY <1>4, ReadInv, StreamInv
<1>5. CASE DmaThread
  BY <1>5, DmaScanInv, DmaLockInv, DmaFullInv, DmaWakeInv, DmaCopyInv, DmaStoreInv
     DEF DmaThread
<1>6. CASE \E c \in Channels : Deliver(c)  BY <1>6, DeliverInv
<1>7. CASE UNCHANGED vars  BY <1>7, StutterInv
<1> QED  BY <1>1, <1>2, <1>3, <1>4, <1>5, <1>6, <1>7 DEF Next

LEMMA InvariantHolds == Spec => []IInv
  BY InitInv, NextInv, PTL DEF Spec

\* TypeOK of Pt1Driver for every instance: in particular no buffer ever holds more
\* packets than the limit pt1_thread tests, although the test and the store are
\* steps apart, and packet_size stays inside packet_buf although pt1_open resets it
\* without the channel lock.
THEOREM Typing == Spec => []TypeOK
<1>1. IInv => TypeOK  BY DEF IInv
<1> QED  BY <1>1, InvariantHolds, PTL

\* open and release transfer under the device lock and then the channel lock, an
\* ioctl under the channel lock and then the device lock: all of them hold the
\* device lock, so that the i2c bus has one master at a time.
THEOREM BusExclusion == Spec => []BusExclusive
<1>1. IInv => BusExclusive
  <2> SUFFICES ASSUME IInv, NEW a \in Apps, NEW b \in Apps, OnBus(a), OnBus(b) PROVE a = b
    BY DEF BusExclusive
  <2>1. devlock = a /\ devlock = b
    BY DEF IInv, Locks, DeviceLock, OnBus, InDevice
  <2> QED  BY <2>1
<1> QED  BY <1>1, InvariantHolds, PTL

\* No two programs use a channel, however pt1_open and pt1_release interleave.
THEOREM SingleUse == Spec => []OneUser
<1>1. IInv => OneUser
  <2> SUFFICES ASSUME IInv, NEW a \in Apps, NEW b \in Apps,
                      HasOpen(a), HasOpen(b), Ch(a) = Ch(b)
               PROVE  a = b
    BY DEF OneUser
  <2>1. pc[a] \in Labels /\ pc[b] \in Labels  BY DEF IInv, TypeOK
  <2>2. {pc[a], pc[b]} \subseteq Using \cup {"sleep", "sleepbus"}
    BY <2>1 DEF HasOpen, Using, Asleep
  <2>3. CASE pc[a] \in Using /\ pc[b] \in Using  BY <2>3 DEF IInv, Locks, Users
  <2>4. CASE pc[a] \in {"sleep", "sleepbus"} /\ pc[b] \in {"sleep", "sleepbus"}
    BY <2>4 DEF IInv, Locks, DeviceLock, InDevice
  <2>5. ASSUME NEW d \in Apps, NEW e \in Apps, Ch(d) = Ch(e), pc[d] \in Using,
               pc[e] \in {"sleep", "sleepbus"}
        PROVE  FALSE
    BY <2>5 DEF IInv, Locks, Users, Asleep
  <2> QED  BY <2>2, <2>3, <2>4, <2>5
<1> QED  BY <1>1, InvariantHolds, PTL

\* The two orders in which the locks are taken never meet: who waits for a channel
\* lock with the device lock in hand is the only one at that channel, or finds it
\* unused.
THEOREM LockOrder == Spec => []NoEmbrace
<1>1. IInv => NoEmbrace
  <2> SUFFICES ASSUME IInv, NEW a \in Apps, NEW b \in Apps,
                      pc[a] \in {"wake", "clear", "sleep"}, chlock[Ch(a)] = b, pc[b] = "tunewait"
               PROVE  FALSE
    BY DEF NoEmbrace
  <2>1. Ch(a) \in Channels  BY InHand
  <2>2. Ch(b) = Ch(a)  BY <2>1 DEF IInv, Locks, ChannelLock
  <2>3. pc[b] \in Using  BY DEF Using, Asleep, Labels
  <2>4. CASE pc[a] \in Asleep  BY <2>2, <2>3, <2>4 DEF IInv, Locks, Users
  <2>5. CASE pc[a] = "clear"
    <3>1. pc[a] \in Using  BY <2>5 DEF Using, Asleep, Labels
    <3> QED  BY <2>2, <2>3, <2>5, <3>1 DEF IInv, Locks, Users
  <2> QED  BY <2>4, <2>5 DEF Asleep
<1> QED  BY <1>1, InvariantHolds, PTL

-----------------------------------------------------------------------------
(* What a program reads: the packets of one stream, whole and without a hole.  *)
(* The invariant follows the micropackets of a channel from the card through    *)
(* the ring and packet_buf into the buffer and to the reader.                   *)

\* Every channel has one session in all: a program that tries it, once.
OnceEach ==
  /\ MaxSessions \in 0 .. 1 /\ ~MayDmaFail
  /\ \A a, b \in Apps : \A i \in DOMAIN Devices[a], j \in DOMAIN Devices[b] :
       Devices[a][i] = Devices[b][j] => a = b /\ i = j

\* What the DMA thread handles next of channel c after position i of the ring, or what
\* the card delivers next
Of(m) == [n |-> m.n, part |-> m.part]
Upcoming(c, i, m) ==
  \/ \E j \in DOMAIN dmaring :
       /\ j > i /\ dmaring[j].ch = c /\ Of(dmaring[j]) = m
       /\ \A k \in DOMAIN dmaring : i < k /\ k < j => dmaring[k].ch # c
  \/ (\A k \in DOMAIN dmaring : i < k => dmaring[k].ch # c) /\ air[c] = m

\* The micropackets of a channel follow each other as they were sent.
InSequence ==
  \A i \in DOMAIN dmaring : Upcoming(dmaring[i].ch, i, NextOnAir(Of(dmaring[i])))

\* Between the two halves of a copy
Copied ==
  LET m == Head(dmaring)
  IN  dpc = "copied" => offset = Offset(m) /\ packet_buf[m.ch][offset+1] = Of(m)

\* A channel whose one session has not got to START_REC
Before == {"closed", "wake", "wakebus", "valid", "reset", "clear", "enable", "enabling",
           "tune", "tunewait", "tunebus", "start"}
Ahead(a, i) ==
  sessions[a] = 0 /\ (try[a] < i \/ (try[a] = i /\ pc[a] \in Before))
Fresh(c) ==
  /\ ~stream[c] /\ packet_size[c] = 0 /\ buffer[c] = <<>>
  /\ \A k \in DOMAIN dmaring : dmaring[k].ch # c
Untouched == \A a \in Apps : \A i \in DOMAIN Devices[a] : Ahead(a, i) => Fresh(Devices[a][i])
Session ==
  \A a \in Apps : /\ pc[a] # "closed" => sessions[a] = 0
                  /\ pc[a] \in Before \ {"closed"} => last[a] = 0

\* packet_buf holds what came of the packet of m, when m comes next; or the stream began
\* behind the head of this packet, and it will not be complete.
Begun(c, m) ==
  m.part = 1 \/ /\ packet_size[c] = m.part - 1
                /\ \A i \in 1 .. m.part - 1 : packet_buf[c][i] = [n |-> m.n, part |-> i]
Headless(a, m) ==
  packet_size[Ch(a)] < m.part - 1 /\ buffer[Ch(a)] = <<>> /\ last[a] = 0

\* What a program has read, the buffer, and m follow each other.
Continues(a, m) ==
  LET b == buffer[Ch(a)]
  IN  /\ \A i \in 1 .. Len(b) : Whole(b[i])
      /\ \A i \in 1 .. Len(b) - 1 : Number(b[i+1]) = Number(b[i]) + 1
      /\ last[a] # 0 /\ b # <<>> => Number(b[1]) = last[a] + 1
      /\ b # <<>> => Number(b[Len(b)]) + 1 = m.n
      /\ last[a] # 0 /\ b = <<>> => last[a] + 1 = m.n

InStep(a, m) == Continues(a, m) /\ (Begun(Ch(a), m) \/ Headless(a, m))
OnAir == [n : 0 .. MaxPacket + 1, part : 1 .. Parts]
Flowing ==
  \A a \in Apps : Streaming(a) => \E m \in OnAir : Upcoming(Ch(a), 0, m) /\ InStep(a, m)

Flow == InSequence /\ Copied /\ Untouched /\ Session /\ Flowing

-----------------------------------------------------------------------------
(* The DMA ring, seen from one channel *)

\* Nothing enters or leaves the ring.
LEMMA UpcomingKept ==
  ASSUME NEW c \in Channels, NEW i \in Nat, NEW m, Upcoming(c, i, m),
         UNCHANGED dmaring, air'[c] = air[c]
  PROVE  Upcoming(c, i, m)'
BY DEF Upcoming

\* The first micropacket leaves the ring.
LEMMA UpcomingTail ==
  ASSUME TypeOK, NEW c \in Channels, NEW i \in Nat, i > 0, NEW m, Upcoming(c, i, m),
         dmaring # <<>>, dmaring' = Tail(dmaring), air'[c] = air[c]
  PROVE  Upcoming(c, i - 1, m)'
<1>1. PICK n \in Nat : n = Len(dmaring) /\ n > 0 /\ DOMAIN dmaring = 1 .. n
  BY DEF TypeOK
<1>2. /\ DOMAIN dmaring' = 1 .. n - 1
      /\ \A k \in 1 .. n - 1 : dmaring'[k] = dmaring[k + 1]
  BY <1>1 DEF TypeOK
<1>3. i - 1 \in Nat
  OBVIOUS
<1>4. ASSUME NEW j \in DOMAIN dmaring, j > i, dmaring[j].ch = c, Of(dmaring[j]) = m,
             \A k \in DOMAIN dmaring : i < k /\ k < j => dmaring[k].ch # c
      PROVE  Upcoming(c, i - 1, m)'
  <2>1. j - 1 \in 1 .. n - 1 /\ j - 1 > i - 1 /\ dmaring'[j - 1] = dmaring[j]
    BY <1>1, <1>2, <1>4
  <2>2. ASSUME NEW k \in 1 .. n - 1, i - 1 < k, k < j - 1  PROVE dmaring'[k].ch # c
    <3>1. k + 1 \in 1 .. n /\ i < k + 1 /\ k + 1 < j
      BY <1>1, <1>4, <2>2
    <3> QED
      BY <1>1, <1>2, <1>4, <3>1
  <2> QED
    BY <1>2, <1>4, <2>1, <2>2 DEF Upcoming, Of
<1>5. ASSUME \A k \in DOMAIN dmaring : i < k => dmaring[k].ch # c, air[c] = m
      PROVE  Upcoming(c, i - 1, m)'
  <2>1. ASSUME NEW k \in 1 .. n - 1, i - 1 < k  PROVE dmaring'[k].ch # c
    <3>1. k + 1 \in 1 .. n /\ i < k + 1
      BY <1>1, <2>1
    <3> QED
      BY <1>1, <1>2, <1>5, <3>1
  <2> QED
    BY <1>2, <1>5, <2>1 DEF Upcoming
<1> QED
  BY <1>4, <1>5 DEF Upcoming

\* What comes next of a channel that is not the first micropacket's comes after it.
LEMMA UpcomingOther ==
  ASSUME TypeOK, NEW c \in Channels, NEW m, Upcoming(c, 0, m),
         dmaring # <<>>, Head(dmaring).ch # c
  PROVE  Upcoming(c, 1, m)
<1>1. DOMAIN dmaring = 1 .. Len(dmaring) /\ Len(dmaring) \in Nat /\ Head(dmaring) = dmaring[1]
  BY DEF TypeOK
<1>2. \A k \in DOMAIN dmaring : dmaring[k].ch = c => k > 1
  BY <1>1
<1> QED
  BY <1>1, <1>2 DEF Upcoming

\* If it is the first micropacket's channel, the first micropacket comes next.
LEMMA UpcomingHead ==
  ASSUME TypeOK, NEW m, dmaring # <<>>, Upcoming(Head(dmaring).ch, 0, m)
  PROVE  m = Of(Head(dmaring))
<1>1. DOMAIN dmaring = 1 .. Len(dmaring) /\ Len(dmaring) \in Nat /\ Head(dmaring) = dmaring[1]
  BY DEF TypeOK
<1>2. 1 \in DOMAIN dmaring
  BY <1>1 DEF TypeOK
<1> QED
  BY <1>1, <1>2 DEF Upcoming

\* The card adds a micropacket.
LEMMA UpcomingAppend ==
  ASSUME TypeOK, NEW x \in Micro, dmaring' = Append(dmaring, x), Of(x) = air[x.ch],
         \A d \in Channels : d # x.ch => air'[d] = air[d],
         NEW c \in Channels, NEW i \in 0 .. Len(dmaring), NEW m, Upcoming(c, i, m)
  PROVE  Upcoming(c, i, m)'
<1>1. PICK n \in Nat : n = Len(dmaring) /\ DOMAIN dmaring = 1 .. n
  BY DEF TypeOK
<1>2. /\ DOMAIN dmaring' = 1 .. n + 1 /\ dmaring'[n + 1] = x
      /\ \A k \in 1 .. n : dmaring'[k] = dmaring[k]
  BY <1>1 DEF TypeOK
<1>3. ASSUME NEW j \in DOMAIN dmaring, j > i, dmaring[j].ch = c, Of(dmaring[j]) = m,
             \A k \in DOMAIN dmaring : i < k /\ k < j => dmaring[k].ch # c
      PROVE  Upcoming(c, i, m)'
  <2>1. j \in 1 .. n + 1 /\ dmaring'[j] = dmaring[j]
    BY <1>1, <1>2, <1>3
  <2>2. \A k \in 1 .. n + 1 : i < k /\ k < j => dmaring'[k].ch # c
    BY <1>1, <1>2, <1>3
  <2> QED
    BY <1>2, <1>3, <2>1, <2>2 DEF Upcoming, Of
<1>4. ASSUME \A k \in DOMAIN dmaring : i < k => dmaring[k].ch # c, air[c] = m
      PROVE  Upcoming(c, i, m)'
  <2>1. CASE x.ch = c
    <3>1. n + 1 \in 1 .. n + 1 /\ n + 1 > i
      BY <1>1
    <3>2. \A k \in 1 .. n + 1 : i < k /\ k < n + 1 => dmaring'[k].ch # c
      BY <1>1, <1>2, <1>4
    <3> QED
      BY <1>2, <1>4, <2>1, <3>1, <3>2 DEF Upcoming, Of
  <2>2. CASE x.ch # c
    <3>1. \A k \in 1 .. n + 1 : i < k => dmaring'[k].ch # c
      BY <1>1, <1>2, <1>4, <2>2
    <3> QED
      BY <1>2, <1>4, <2>2, <3>1 DEF Upcoming
  <2> QED
    BY <2>1, <2>2
<1> QED
  BY <1>3, <1>4 DEF Upcoming

\* A step that leaves the ring alone, and what is on the air of the channels in it,
\* keeps the ring in sequence.
LEMMA SequenceKept ==
  ASSUME IInv, InSequence, UNCHANGED dmaring,
         \A i \in DOMAIN dmaring : air'[dmaring[i].ch] = air[dmaring[i].ch]
  PROVE  InSequence'
<1> SUFFICES ASSUME NEW i \in DOMAIN dmaring
             PROVE  Upcoming(dmaring[i].ch, i, NextOnAir(Of(dmaring[i])))'
  BY DEF InSequence
<1>1. dmaring[i] \in Micro /\ i \in Nat
  BY DEF IInv, TypeOK
<1>2. PICK c \in Channels : c = dmaring[i].ch
  BY <1>1 DEF Micro
<1>3. PICK m : m = NextOnAir(Of(dmaring[i]))
  OBVIOUS
<1>4. Upcoming(c, i, m)
  BY <1>2, <1>3 DEF InSequence
<1>5. Upcoming(c, i, m)'
  BY <1>1, <1>2, <1>4, UpcomingKept
<1> QED
  BY <1>2, <1>3, <1>5 DEF NextOnAir, Of

LEMMA SequenceTail ==
  ASSUME IInv, InSequence, dmaring # <<>>, dmaring' = Tail(dmaring), UNCHANGED air
  PROVE  InSequence'
<1>1. PICK n \in Nat : n = Len(dmaring) /\ DOMAIN dmaring = 1 .. n
  BY DEF IInv, TypeOK
<1>2. /\ DOMAIN dmaring' = 1 .. n - 1
      /\ \A k \in 1 .. n - 1 : dmaring'[k] = dmaring[k + 1]
  BY <1>1 DEF IInv, TypeOK
<1> SUFFICES ASSUME NEW i \in 1 .. n - 1
             PROVE  Upcoming(dmaring[i].ch, i, NextOnAir(Of(dmaring[i])))'
  BY <1>2 DEF InSequence
<1>3. i + 1 \in DOMAIN dmaring /\ i + 1 \in Nat /\ i + 1 > 0 /\ (i + 1) - 1 = i
  BY <1>1
<1>4. dmaring[i + 1] \in Micro
  BY <1>3 DEF IInv, TypeOK
<1>5. PICK c \in Channels : c = dmaring[i + 1].ch
  BY <1>4 DEF Micro
<1>6. PICK m : m = NextOnAir(Of(dmaring[i + 1]))
  OBVIOUS
<1>7. Upcoming(c, i + 1, m)
  BY <1>3, <1>5, <1>6 DEF InSequence
<1>8. Upcoming(c, (i + 1) - 1, m)'
  BY <1>3, <1>7, UpcomingTail DEF IInv
<1> QED
  BY <1>2, <1>3, <1>5, <1>6, <1>8 DEF NextOnAir, Of

-----------------------------------------------------------------------------
(* Steps that leave the ring and the packets of the streaming channels alone *)

\* What stays in step
LEMMA InStepKept ==
  ASSUME NEW a \in Apps, NEW m, InStep(a, m), Ch(a)' = Ch(a), last'[a] = last[a],
         buffer'[Ch(a)] = buffer[Ch(a)], packet_size'[Ch(a)] = packet_size[Ch(a)],
         packet_buf'[Ch(a)] = packet_buf[Ch(a)]
  PROVE  InStep(a, m)'
BY DEF InStep, Continues, Begun, Headless, Whole, Number

LEMMA FlowKept ==
  ASSUME IInv, Flow, UNCHANGED <<dmaring, air, offset, packet_buf>>,
         dpc' = "copied" => dpc = "copied",
         \A c \in Channels :
           /\ stream'[c] => stream[c]
           /\ packet_size'[c] \in {packet_size[c], 0} /\ buffer'[c] \in {buffer[c], <<>>},
         \A b \in Apps : \A i \in DOMAIN Devices[b] : Ahead(b, i)' => Ahead(b, i),
         Session',
         \A b \in Apps : Streaming(b)' =>
           /\ Streaming(b) /\ Ch(b)' = Ch(b) /\ last'[b] = last[b]
           /\ packet_size'[Ch(b)] = packet_size[Ch(b)] /\ buffer'[Ch(b)] = buffer[Ch(b)],
         dpc = "copied" => packet_size'[Head(dmaring).ch] = packet_size[Head(dmaring).ch]
  PROVE  Flow'
<1>1. InSequence'
  BY SequenceKept DEF Flow
<1>2. Copied'
  BY DEF Flow, Copied, Offset, Of
<1>3. Untouched'
  <2> SUFFICES ASSUME NEW b \in Apps, NEW i \in DOMAIN Devices[b], Ahead(b, i)'
               PROVE  Fresh(Devices[b][i])'
    BY DEF Untouched
  <2>1. Fresh(Devices[b][i])
    BY DEF Flow, Untouched
  <2>2. Devices[b][i] \in Channels
    <3>1. Devices[b] \in Seq(Channels)
      BY DriverAssumption
    <3> QED
      BY <3>1
  <2> QED
    BY <2>1, <2>2 DEF Fresh
<1>4. Flowing'
  <2> SUFFICES ASSUME NEW b \in Apps, Streaming(b)'
               PROVE  \E m \in OnAir : Upcoming(Ch(b), 0, m)' /\ InStep(b, m)'
    BY DEF Flowing
  <2>1. /\ Streaming(b) /\ Ch(b)' = Ch(b) /\ last'[b] = last[b]
        /\ packet_size'[Ch(b)] = packet_size[Ch(b)] /\ buffer'[Ch(b)] = buffer[Ch(b)]
    OBVIOUS
  <2>2. PICK m \in OnAir : Upcoming(Ch(b), 0, m) /\ InStep(b, m)
    BY <2>1 DEF Flow, Flowing
  <2>3. PICK c \in Channels : c = Ch(b)
    BY <2>1, InHand DEF Streaming
  <2>4. Upcoming(c, 0, m)'
    BY <2>2, <2>3, UpcomingKept
  <2>5. InStep(b, m)'
    BY <2>1, <2>2, InStepKept
  <2> QED
    BY <2>1, <2>3, <2>4, <2>5 DEF Upcoming
<1> QED
  BY <1>1, <1>2, <1>3, <1>4 DEF Flow

\* A program's step from pc[a] to l
Going(a, l) ==
  /\ Goto(a, l) /\ UNCHANGED <<try, sessions, last>>
  /\ l \in Before => pc[a] \in Before
  /\ l \in {"watch", "stopped"} => pc[a] \in {"watch", "stopped"}
  /\ l # "closed" /\ pc[a] # "closed"

LEMMA GoingOn ==
  ASSUME IInv, Session, NEW a \in Apps, NEW l, Going(a, l)
  PROVE  /\ Session'
         /\ \A b \in Apps : \A i \in DOMAIN Devices[b] : Ahead(b, i)' => Ahead(b, i)
         /\ \A b \in Apps : Streaming(b)' => Streaming(b) /\ Ch(b)' = Ch(b)
<1>1. \A b \in Apps : pc'[b] = IF b = a THEN l ELSE pc[b]
  BY DEF Going, Goto, IInv, TypeOK
<1>2. Session'
  BY <1>1 DEF Going, Session
<1>3. \A b \in Apps : \A i \in DOMAIN Devices[b] : Ahead(b, i)' => Ahead(b, i)
  BY <1>1 DEF Going, Ahead
<1>4. \A b \in Apps : Streaming(b)' => Streaming(b) /\ Ch(b)' = Ch(b)
  BY <1>1 DEF Going, Streaming, Ch
<1> QED
  BY <1>2, <1>3, <1>4

\* A step that changes nothing of the stream, but may end it.
LEMMA PlainFlow ==
  ASSUME IInv, Flow, NEW a \in Apps, NEW l, Going(a, l),
         UNCHANGED <<dmaring, air, dpc, offset, packet_buf, packet_size, buffer>>,
         \A c \in Channels : stream'[c] => stream[c]
  PROVE  Flow'
<1>1. /\ Session'
      /\ \A b \in Apps : \A i \in DOMAIN Devices[b] : Ahead(b, i)' => Ahead(b, i)
      /\ \A b \in Apps : Streaming(b)' => Streaming(b) /\ Ch(b)' = Ch(b)
  BY GoingOn DEF Flow
<1>2. UNCHANGED last
  BY DEF Going
<1> QED
  BY <1>1, <1>2, FlowKept

-----------------------------------------------------------------------------
(* The steps of a program *)

USE DEF locks, channel, hard, dma, session, app

LEMMA OpenBeginFlow ==
  ASSUME OnceEach, IInv, Flow, NEW a \in Apps, OpenBegin(a)
  PROVE  Flow'
<1>1. pc \in [Apps -> Labels] /\ try \in [Apps -> Nat] /\ last \in [Apps -> 0 .. MaxPacket]
  BY DEF IInv, TypeOK
<1>2. CASE valid[Ch(a)]
  <2>1. \A b \in Apps : try'[b] >= try[b] /\ (pc[b] # "closed" => try'[b] = try[b])
    BY <1>1, <1>2 DEF OpenBegin
  <2>2. Session'
    BY <1>2 DEF Flow, Session, OpenBegin
  <2>3. \A b \in Apps : \A i \in DOMAIN Devices[b] : Ahead(b, i)' => Ahead(b, i)
    <3> SUFFICES ASSUME NEW b \in Apps, NEW i \in DOMAIN Devices[b], Ahead(b, i)'
                 PROVE  Ahead(b, i)
      OBVIOUS
    <3>1. i \in Nat
      <4>1. Devices[b] \in Seq(Channels)
        BY DriverAssumption
      <4> QED
        BY <4>1
    <3>2. UNCHANGED <<pc, sessions>>
      BY <1>2 DEF OpenBegin
    <3> QED
      BY <1>1, <1>2, <3>1, <3>2 DEF Ahead, OpenBegin
  <2>4. \A b \in Apps : Streaming(b)' => Streaming(b) /\ Ch(b)' = Ch(b)
    BY <1>2, <2>1 DEF Streaming, Ch, OpenBegin
  <2> QED
    BY <1>2, <2>2, <2>3, <2>4, FlowKept DEF OpenBegin
<1>3. CASE ~valid[Ch(a)]
  <2>1. /\ \A b \in Apps : pc'[b] = IF b = a THEN "wake" ELSE pc[b]
        /\ \A b \in Apps : last'[b] = IF b = a THEN 0 ELSE last[b]
        /\ UNCHANGED <<try, sessions>> /\ pc[a] = "closed"
    BY <1>1, <1>3 DEF OpenBegin, Goto
  <2>2. sessions[a] = 0
    <3>1. sessions[a] \in Nat /\ sessions[a] < MaxSessions
      BY DEF OpenBegin, IInv, TypeOK
    <3> QED
      BY <3>1 DEF OnceEach
  <2>3. Session'
    BY <2>1, <2>2 DEF Flow, Session
  <2>4. \A b \in Apps : \A i \in DOMAIN Devices[b] : Ahead(b, i)' => Ahead(b, i)
    BY <2>1 DEF Ahead, Before
  <2>5. \A b \in Apps :
          Streaming(b)' => Streaming(b) /\ Ch(b)' = Ch(b) /\ last'[b] = last[b]
    BY <2>1 DEF Streaming, Ch
  <2> QED
    BY <1>3, <2>3, <2>4, <2>5, FlowKept DEF OpenBegin
<1> QED
  BY <1>2, <1>3

\* The channel of a program that has not got to START_REC
LEMMA FreshHere ==
  ASSUME IInv, Flow, NEW a \in Apps, pc[a] \in Before, pc[a] # "closed"
  PROVE  /\ Fresh(Ch(a)) /\ Ch(a) \in Channels
         /\ try[a] \in DOMAIN Devices[a] /\ Ahead(a, try[a]) /\ last[a] = 0
<1>1. try[a] \in Nat /\ try[a] >= 1 /\ try[a] <= Len(Devices[a])
  BY DEF IInv, TypeOK, Locks, AtDevice
<1>2. try[a] \in DOMAIN Devices[a]
  <2>1. Devices[a] \in Seq(Channels)
    BY DriverAssumption
  <2> QED
    BY <1>1, <2>1
<1>3. sessions[a] = 0 /\ last[a] = 0
  BY DEF Flow, Session
<1>4. Ahead(a, try[a])
  BY <1>3 DEF Ahead
<1> QED
  BY <1>2, <1>3, <1>4, InHand DEF Flow, Untouched, Ch

\* No two programs use a channel, and none uses what another has before it.
LEMMA Apart ==
  ASSUME IInv, NEW a \in Apps, NEW b \in Apps, Streaming(a), pc[b] \in Using, a # b
  PROVE  Ch(a) # Ch(b)
<1>1. pc[a] \in Using
  BY DEF Streaming, Using, Labels, Asleep
<1> QED
  BY <1>1 DEF IInv, Locks, Users

\* pt1_open resets packet_size and the buffer while the DMA thread may be at work, but
\* not at this channel.
LEMMA OpenFlow ==
  ASSUME IInv, Flow, NEW a \in Apps,
         OpenWake(a) \/ OpenAwake(a) \/ OpenValid(a) \/ OpenReset(a) \/ OpenClear(a)
  PROVE  Flow'
<1>1. CASE OpenWake(a)
  <2>1. Going(a, "wakebus")
    BY <1>1 DEF OpenWake, Going, Before
  <2> QED
    BY <1>1, <2>1, PlainFlow DEF OpenWake
<1>2. CASE OpenAwake(a)
  <2>1. Going(a, "valid")
    BY <1>2 DEF OpenAwake, Going, Before
  <2> QED
    BY <1>2, <2>1, PlainFlow DEF OpenAwake
<1>3. CASE OpenValid(a)
  <2>1. Going(a, "reset")
    BY <1>3 DEF OpenValid, Going, Before
  <2> QED
    BY <1>3, <2>1, PlainFlow DEF OpenValid
<1>4. CASE OpenReset(a) \/ OpenClear(a)
  <2>1. pc[a] \in {"reset", "clear"} /\ pc[a] \in Before /\ pc[a] \in Using
    BY <1>4 DEF OpenReset, OpenClear, Before, Using, Labels, Asleep
  <2>2. Fresh(Ch(a)) /\ Ch(a) \in Channels
    BY <2>1, FreshHere
  <2>3. \E l \in {"clear", "enable", "tune"} : Going(a, l)
    BY <1>4, <2>1 DEF OpenReset, OpenClear, Going, Before
  <2>4. /\ Session'
        /\ \A b \in Apps : \A i \in DOMAIN Devices[b] : Ahead(b, i)' => Ahead(b, i)
        /\ \A b \in Apps : Streaming(b)' => Streaming(b) /\ Ch(b)' = Ch(b)
    BY <2>3, GoingOn DEF Flow
  <2>5. /\ UNCHANGED <<dmaring, air, stream, dpc, offset, packet_buf, last>>
        /\ packet_size' \in {packet_size, [packet_size EXCEPT ![Ch(a)] = 0]}
        /\ buffer' \in {buffer, [buffer EXCEPT ![Ch(a)] = <<>>]}
    BY <1>4 DEF OpenReset, OpenClear, Set
  <2>6. \A c \in Channels : /\ packet_size'[c] = IF c = Ch(a) THEN 0 ELSE packet_size[c]
                            /\ buffer'[c] = IF c = Ch(a) THEN <<>> ELSE buffer[c]
    BY <2>2, <2>5 DEF Fresh, IInv, TypeOK
  <2>7. ASSUME NEW b \in Apps, Streaming(b)'
        PROVE  /\ packet_size'[Ch(b)] = packet_size[Ch(b)]
               /\ buffer'[Ch(b)] = buffer[Ch(b)]
    <3>1. Streaming(b)
      BY <2>4, <2>7
    <3>2. Ch(b) \in Channels
      BY <3>1, InHand DEF Streaming
    <3>3. a # b
      BY <2>1, <3>1 DEF Streaming
    <3>4. Ch(b) # Ch(a)
      BY <2>1, <3>1, <3>3, Apart
    <3> QED
      BY <2>6, <3>2, <3>4
  <2>8. dpc = "copied" => packet_size'[Head(dmaring).ch] = packet_size[Head(dmaring).ch]
    <3> SUFFICES ASSUME dpc = "copied"
                 PROVE  packet_size'[Head(dmaring).ch] = packet_size[Head(dmaring).ch]
      OBVIOUS
    <3>1. dmaring # <<>>
      BY DEF IInv, DmaInside
    <3>2. Head(dmaring).ch \in Channels
      BY <3>1, HeadType DEF IInv, Micro
    <3>3. 1 \in DOMAIN dmaring /\ Head(dmaring) = dmaring[1]
      BY <3>1 DEF IInv, TypeOK
    <3> QED
      BY <2>2, <2>6, <3>2, <3>3 DEF Fresh
  <2> QED
    BY <2>4, <2>5, <2>6, <2>7, <2>8, FlowKept
<1> QED
  BY <1>1, <1>2, <1>3, <1>4

LEMMA IoctlFlow ==
  ASSUME IInv, Flow, NEW a \in Apps,
         LnbEnable(a) \/ LnbDisable(a) \/ TuneBegin(a) \/ TuneTransfer(a) \/ TuneEnd(a)
  PROVE  Flow'
<1>1. \E l \in {"enabling", "tune", "disabling", "close", "tunewait", "tunebus", "start"} :
        Going(a, l)
  BY DEF LnbEnable, LnbDisable, LnbCount, LnbSet, TuneBegin, TuneTransfer, TuneEnd, Going, Before
<1>2. UNCHANGED <<dmaring, air, stream, dpc, offset, packet_buf, packet_size, buffer>>
  BY DEF LnbEnable, LnbDisable, LnbCount, LnbSet, TuneBegin, TuneTransfer, TuneEnd
<1> QED
  BY <1>1, <1>2, PlainFlow

\* The stream begins anywhere in a packet, on a channel of which the ring and the
\* buffers have nothing.
LEMMA StartRecFlow ==
  ASSUME OnceEach, IInv, Flow, NEW a \in Apps, StartRec(a)
  PROVE  Flow'
<1>1. /\ Fresh(Ch(a)) /\ Ch(a) \in Channels /\ last[a] = 0
      /\ try[a] \in DOMAIN Devices[a] /\ pc[a] = "start"
  BY FreshHere DEF StartRec, Before
<1>2. PICK c \in Channels : c = Ch(a)
  BY <1>1
<1>3. /\ pc \in [Apps -> Labels] /\ Goto(a, "watch")
      /\ UNCHANGED <<try, sessions, last, packet_buf, packet_size, buffer, dmaring, dpc, offset>>
  BY DEF StartRec, IInv, TypeOK
<1>4. \A b \in Apps : pc'[b] = IF b = a THEN "watch" ELSE pc[b]
  BY <1>3 DEF Goto
<1>5. PICK k \in 1 .. Parts :
        air' = [air EXCEPT ![c] = [n |-> Min(air[c].n, MaxPacket) + 1, part |-> k]]
  BY <1>2 DEF StartRec, Set
<1>6. air[c].n \in 0 .. MaxPacket + 1 /\ air \in [Channels -> OnAir]
  BY DEF IInv, TypeOK, OnAir
<1>7. PICK m \in OnAir : m = air'[c] /\ m.part = k
  <2>1. Min(air[c].n, MaxPacket) + 1 \in 0 .. MaxPacket + 1
    BY <1>6, DriverAssumption DEF Min
  <2> QED
    BY <1>5, <1>6, <2>1 DEF OnAir
<1>8. \A d \in Channels : d # c => air'[d] = air[d]
  BY <1>5, <1>6
<1>9. InSequence'
  <2>1. \A i \in DOMAIN dmaring : dmaring[i] \in Micro
    BY DEF IInv, TypeOK
  <2>2. \A i \in DOMAIN dmaring : dmaring[i].ch \in Channels
    BY <2>1 DEF Micro
  <2>3. \A i \in DOMAIN dmaring : dmaring[i].ch # c
    BY <1>1, <1>2 DEF Fresh
  <2> QED
    BY <1>3, <1>8, <2>2, <2>3, SequenceKept DEF Flow
<1>10. Copied'
  BY <1>3 DEF Flow, Copied, Offset, Of
<1>11. Session'
  BY <1>1, <1>3, <1>4 DEF Flow, Session, Before
<1>12. Untouched'
  <2> SUFFICES ASSUME NEW b \in Apps, NEW i \in DOMAIN Devices[b], Ahead(b, i)'
               PROVE  Fresh(Devices[b][i])'
    BY DEF Untouched
  <2>1. Ahead(b, i) /\ ~(b = a /\ i = try[a])
    <3>1. /\ sessions[b] = 0 /\ try'[b] = try[b] /\ try[a] \in Nat
          /\ try[b] < i \/ (try[b] = i /\ pc'[b] \in Before)
      BY <1>3 DEF Ahead, IInv, TypeOK
    <3>2. pc'[a] \notin Before
      BY <1>4 DEF Before
    <3>3. b # a => pc'[b] = pc[b]
      BY <1>4
    <3>4. pc[a] \in Before
      BY <1>1 DEF Before
    <3> QED
      BY <3>1, <3>2, <3>3, <3>4 DEF Ahead
  <2>2. Devices[b][i] # c
    BY <1>1, <1>2, <2>1 DEF OnceEach, Ch
  <2>3. Devices[b][i] \in Channels
    <3>1. Devices[b] \in Seq(Channels)
      BY DriverAssumption
    <3> QED
      BY <3>1
  <2>4. Fresh(Devices[b][i])
    BY <2>1 DEF Flow, Untouched
  <2>5. stream'[Devices[b][i]] = stream[Devices[b][i]]
    BY <1>2, <2>2, <2>3 DEF StartRec, Set, IInv, TypeOK
  <2> QED
    BY <1>3, <2>4, <2>5 DEF Fresh
<1>13. Flowing'
  <2> SUFFICES ASSUME NEW b \in Apps, Streaming(b)'
               PROVE  \E x \in OnAir : Upcoming(Ch(b), 0, x)' /\ InStep(b, x)'
    BY DEF Flowing
  <2>0. Ch(b)' = Ch(b)
    BY <1>3 DEF Ch
  <2>1. CASE b = a
    <3>1. Upcoming(c, 0, m)'
      BY <1>1, <1>2, <1>3, <1>7 DEF Upcoming, Fresh
    <3>2. buffer'[Ch(a)] = <<>> /\ last'[a] = 0 /\ packet_size'[Ch(a)] = 0
      BY <1>1, <1>3 DEF Fresh
    <3>3. Continues(a, m)'
      BY <2>0, <2>1, <3>2 DEF Continues
    <3>4. Begun(c, m)' \/ Headless(a, m)'
      BY <1>2, <1>7, <2>0, <2>1, <3>2, DriverAssumption DEF Begun, Headless
    <3> QED
      BY <1>2, <2>0, <2>1, <3>1, <3>3, <3>4 DEF InStep, Upcoming, Begun
  <2>2. CASE b # a
    <3>1. Streaming(b) /\ pc[a] \in Using
      BY <1>1, <1>4, <2>2 DEF Streaming, Using, Labels, Asleep
    <3>2. PICK x \in OnAir : Upcoming(Ch(b), 0, x) /\ InStep(b, x)
      BY <3>1 DEF Flow, Flowing
    <3>3. PICK d \in Channels : d = Ch(b) /\ d # c
      BY <1>2, <2>2, <3>1, Apart, InHand DEF Streaming
    <3>4. Upcoming(d, 0, x)'
      BY <1>3, <1>8, <3>2, <3>3, UpcomingKept
    <3>5. /\ last'[b] = last[b] /\ buffer'[Ch(b)] = buffer[Ch(b)]
          /\ packet_size'[Ch(b)] = packet_size[Ch(b)] /\ packet_buf' = packet_buf
      BY <1>3
    <3>6. InStep(b, x)'
      BY <2>0, <3>2, <3>5, InStepKept
    <3> QED
      BY <2>0, <3>3, <3>4, <3>6 DEF Upcoming
  <2> QED
    BY <2>1, <2>2
<1> QED
  BY <1>9, <1>10, <1>11, <1>12, <1>13 DEF Flow

\* What ends a stream
LEMMA EndFlow ==
  ASSUME IInv, Flow, NEW a \in Apps,
         \/ StopRec(a) \/ Abandon(a)
         \/ Release(a) \/ ReleaseInvalid(a) \/ ReleaseSleep(a)
  PROVE  Flow'
<1>1. \E l \in {"stopped", "disable", "close", "invalid", "sleep", "sleepbus"} : Going(a, l)
  BY DEF StopRec, Abandon, Leave, Release, ReleaseInvalid, ReleaseSleep, Going, Before
<1>2. UNCHANGED <<dmaring, air, dpc, offset, packet_buf, packet_size, buffer>>
  BY DEF StopRec, Abandon, Release, ReleaseInvalid, ReleaseSleep
<1>3. \A c \in Channels : stream'[c] => stream[c]
  <2>1. stream' = stream \/ stream' = [stream EXCEPT ![Ch(a)] = FALSE]
    BY DEF StopRec, Abandon, Release, ReleaseInvalid, ReleaseSleep, Set
  <2> QED
    BY <2>1 DEF IInv, TypeOK
<1> QED
  BY <1>1, <1>2, <1>3, PlainFlow

LEMMA ReleaseEndFlow ==
  ASSUME IInv, Flow, NEW a \in Apps, ReleaseEnd(a)
  PROVE  Flow'
<1>1. /\ pc \in [Apps -> Labels] /\ try \in [Apps -> Nat] /\ sessions \in [Apps -> Nat]
      /\ pc[a] = "sleepbus" /\ sessions[a] = 0
  BY DEF IInv, TypeOK, ReleaseEnd, Flow, Session
<1>2. \A b \in Apps : pc'[b] = IF b = a THEN "closed" ELSE pc[b]
  BY <1>1 DEF ReleaseEnd, Goto
<1>3. /\ \A b \in Apps : b # a => try'[b] = try[b] /\ sessions'[b] = sessions[b]
      /\ \/ sessions'[a] = sessions[a] /\ try'[a] = try[a] + 1
         \/ sessions'[a] = sessions[a] + 1
  BY <1>1 DEF ReleaseEnd
<1>4. Session'
  BY <1>2, <1>3 DEF ReleaseEnd, Flow, Session
<1>5. \A b \in Apps : \A i \in DOMAIN Devices[b] : Ahead(b, i)' => Ahead(b, i)
  <2> SUFFICES ASSUME NEW b \in Apps, NEW i \in DOMAIN Devices[b], Ahead(b, i)'
               PROVE  Ahead(b, i)
    OBVIOUS
  <2>1. CASE b = a
    <3>1. i \in Nat
      <4>1. Devices[b] \in Seq(Channels)
        BY DriverAssumption
      <4> QED
        BY <4>1
    <3>2. try'[a] = try[a] + 1 /\ try[a] \in Nat
      BY <1>1, <1>3, <2>1 DEF Ahead
    <3> QED
      BY <1>1, <2>1, <3>1, <3>2 DEF Ahead
  <2>2. CASE b # a
    BY <1>2, <1>3, <2>2 DEF Ahead
  <2> QED
    BY <2>1, <2>2
<1>6. \A b \in Apps : Streaming(b)' => Streaming(b) /\ Ch(b)' = Ch(b)
  BY <1>2, <1>3 DEF Streaming, Ch
<1>7. UNCHANGED <<dmaring, air, stream, dpc, offset, packet_buf, packet_size, buffer, last>>
  BY DEF ReleaseEnd
<1> QED
  BY <1>4, <1>5, <1>6, <1>7, FlowKept

\* A read takes the first packets of the buffer, and the rest goes on from there.
LEMMA ReadContinues ==
  ASSUME IInv, NEW a \in Apps, NEW c \in Channels, Ch(a) = c, Ch(a)' = c,
         NEW m \in OnAir, Continues(a, m), NEW size \in 0 .. Len(buffer[c]),
         buffer'[c] = Rest(c, size),
         last'[a] = IF size = 0 THEN last[a] ELSE Number(buffer[c][size])
  PROVE  Continues(a, m)' /\ (buffer[c] = <<>> => buffer'[c] = <<>> /\ last'[a] = last[a])
<1>1. PICK n \in Nat : n = Len(buffer[c]) /\ buffer[c] \in Seq(Packet)
  BY DEF IInv, TypeOK
<1>2. /\ Len(buffer'[c]) = n - size
      /\ \A i \in 1 .. n - size : buffer'[c][i] = buffer[c][i + size]
  BY <1>1 DEF Rest
<1>0. size \in Nat /\ size <= n
  BY <1>1
<1>3. /\ \A i \in 1 .. n : Whole(buffer[c][i])
      /\ \A i \in 1 .. n - 1 : Number(buffer[c][i+1]) = Number(buffer[c][i]) + 1
      /\ last[a] # 0 /\ n # 0 => Number(buffer[c][1]) = last[a] + 1
      /\ n # 0 => Number(buffer[c][n]) + 1 = m.n
      /\ last[a] # 0 /\ n = 0 => last[a] + 1 = m.n
  BY <1>1 DEF Continues
<1>4. \A i \in 1 .. n - size : Whole(buffer'[c][i])
  <2>1. \A i \in 1 .. n - size : i + size \in 1 .. n
    BY <1>1
  <2> QED
    BY <1>2, <1>3, <2>1
<1>5. \A i \in 1 .. (n - size) - 1 : Number(buffer'[c][i+1]) = Number(buffer'[c][i]) + 1
  <2> SUFFICES ASSUME NEW i \in 1 .. (n - size) - 1
               PROVE  Number(buffer'[c][i+1]) = Number(buffer'[c][i]) + 1
    OBVIOUS
  <2>1. /\ i \in 1 .. n - size /\ i + 1 \in 1 .. n - size
        /\ i + size \in 1 .. n - 1 /\ (i + 1) + size = (i + size) + 1
    BY <1>1
  <2> QED
    BY <1>2, <1>3, <2>1
<1>6. n - size # 0 => /\ last'[a] # 0 => Number(buffer'[c][1]) = last'[a] + 1
                      /\ Number(buffer'[c][n - size]) + 1 = m.n
  <2> SUFFICES ASSUME n - size # 0
               PROVE  /\ last'[a] # 0 => Number(buffer'[c][1]) = last'[a] + 1
                      /\ Number(buffer'[c][n - size]) + 1 = m.n
    OBVIOUS
  <2>1. /\ 1 \in 1 .. n - size /\ n - size \in 1 .. n - size
        /\ 1 + size = size + 1 /\ (n - size) + size = n /\ n # 0
        /\ size # 0 => size \in 1 .. n - 1
    BY ONLY <1>0, n \in Nat, n - size # 0
  <2>2. buffer'[c][1] = buffer[c][size + 1] /\ buffer'[c][n - size] = buffer[c][n]
    BY <1>2, <2>1
  <2> QED
    BY <1>3, <2>1, <2>2
<1>7. n - size = 0 /\ last'[a] # 0 => last'[a] + 1 = m.n
  BY <1>1, <1>3
<1>8. buffer'[c] = <<>> <=> n - size = 0
  <2>1. buffer'[c] \in Seq(Packet)
    BY <1>1 DEF Rest
  <2> QED
    BY <1>2, <2>1
<1>9. Continues(a, m)'
  <2>1. 1 \in 1 .. n - size <=> n - size # 0
    BY ONLY <1>0, n \in Nat
  <2> QED
    BY <1>2, <1>4, <1>5, <1>6, <1>7, <1>8, <2>1 DEF Continues
<1> QED
  BY <1>1, <1>8, <1>9

LEMMA ReadFlow ==
  ASSUME IInv, Flow, NEW a \in Apps, Read(a)
  PROVE  Flow'
<1>0. Streaming(a) /\ pc[a] \in Using
  BY DEF Read, Streaming, Using, Labels, Asleep
<1>1. PICK c \in Channels : c = Ch(a)
  BY <1>0, InHand DEF Streaming
<1>2. PICK size \in 0 .. Len(buffer[c]) :
        /\ buffer' = [buffer EXCEPT ![c] = Rest(c, size)]
        /\ last' = [last EXCEPT ![a] = IF size = 0 THEN @ ELSE Number(buffer[c][size])]
  <2>1. Min(ReadSize, Len(buffer[c])) \in 0 .. Len(buffer[c])
    BY DriverAssumption DEF IInv, TypeOK, Min
  <2> QED
    BY <1>1, <2>1 DEF Read, Set
<1>3. /\ \A d \in Channels : buffer'[d] = IF d = c THEN Rest(c, size) ELSE buffer[d]
      /\ \A b \in Apps : b # a => last'[b] = last[b]
      /\ last'[a] = IF size = 0 THEN last[a] ELSE Number(buffer[c][size])
  BY <1>2 DEF IInv, TypeOK
<1>4. UNCHANGED <<try, sessions, packet_buf, packet_size, stream, air, dmaring, dpc, offset>>
  BY DEF Read
<1>5. \E l \in {"watch", "stopped", "disable", "close"} :
        \A b \in Apps : pc'[b] = IF b = a THEN l ELSE pc[b]
  BY DEF Read, Goto, Leave, IInv, TypeOK
<1>6. /\ Session'
      /\ \A b \in Apps : \A i \in DOMAIN Devices[b] : Ahead(b, i)' => Ahead(b, i)
      /\ \A b \in Apps : Streaming(b)' => Streaming(b) /\ Ch(b)' = Ch(b)
  <2>1. Session'
    BY <1>0, <1>3, <1>4, <1>5 DEF Flow, Session, Before, Streaming
  <2>2. \A b \in Apps : \A i \in DOMAIN Devices[b] : Ahead(b, i)' => Ahead(b, i)
    BY <1>0, <1>4, <1>5 DEF Ahead, Before, Streaming
  <2>3. \A b \in Apps : Streaming(b)' => Streaming(b) /\ Ch(b)' = Ch(b)
    BY <1>0, <1>4, <1>5 DEF Streaming, Ch
  <2> QED
    BY <2>1, <2>2, <2>3
<1>7. InSequence'
  BY <1>4, SequenceKept DEF Flow
<1>8. Copied'
  BY <1>4 DEF Flow, Copied, Offset, Of
<1>9. Untouched'
  <2> SUFFICES ASSUME NEW b \in Apps, NEW i \in DOMAIN Devices[b], Ahead(b, i)'
               PROVE  Fresh(Devices[b][i])'
    BY DEF Untouched
  <2>1. Fresh(Devices[b][i])
    BY <1>6 DEF Flow, Untouched
  <2>2. Devices[b][i] \in Channels
    <3>1. Devices[b] \in Seq(Channels)
      BY DriverAssumption
    <3> QED
      BY <3>1
  <2>3. buffer'[Devices[b][i]] = <<>>
    <3>1. buffer[c] = <<>> => Rest(c, size) = <<>>
      BY DEF Rest
    <3> QED
      BY <1>3, <2>1, <2>2, <3>1 DEF Fresh
  <2> QED
    BY <1>4, <2>1, <2>3 DEF Fresh
<1>10. Flowing'
  <2> SUFFICES ASSUME NEW b \in Apps, Streaming(b)'
               PROVE  \E m \in OnAir : Upcoming(Ch(b), 0, m)' /\ InStep(b, m)'
    BY DEF Flowing
  <2>1. Streaming(b) /\ Ch(b)' = Ch(b)
    BY <1>6
  <2>2. PICK m \in OnAir : Upcoming(Ch(b), 0, m) /\ InStep(b, m)
    BY <2>1 DEF Flow, Flowing
  <2>3. PICK d \in Channels : d = Ch(b)
    BY <2>1, InHand DEF Streaming
  <2>4. Upcoming(d, 0, m)'
    BY <1>4, <2>2, <2>3, UpcomingKept
  <2>5. InStep(b, m)'
    <3>1. CASE b = a
      <4>1. Ch(a)' = c /\ c = d
        BY <1>1, <2>1, <2>3, <3>1
      <4>2. Continues(a, m)
        BY <2>2, <3>1 DEF InStep
      <4>3. /\ Continues(a, m)'
            /\ buffer[c] = <<>> => buffer'[c] = <<>> /\ last'[a] = last[a]
        BY <1>1, <1>3, <4>1, <4>2, ReadContinues
      <4>4. Begun(Ch(a), m) \/ Headless(a, m)
        BY <2>2, <3>1 DEF InStep
      <4>5. Begun(Ch(a), m)' \/ Headless(a, m)'
        BY <1>1, <1>4, <4>1, <4>3, <4>4 DEF Begun, Headless
      <4> QED
        BY <3>1, <4>3, <4>5 DEF InStep
    <3>2. CASE b # a
      <4>1. d # c
        BY <1>0, <1>1, <2>1, <2>3, <3>2, Apart
      <4> QED
        BY <1>3, <1>4, <2>1, <2>2, <2>3, <3>2, <4>1, InStepKept
    <3> QED
      BY <3>1, <3>2
  <2> QED
    BY <2>1, <2>3, <2>4, <2>5 DEF Upcoming
<1> QED
  BY <1>6, <1>7, <1>8, <1>9, <1>10 DEF Flow

-----------------------------------------------------------------------------
(* The steps of the DMA thread and of the card *)

LEMMA ProgramsStill ==
  ASSUME Flow, UNCHANGED <<pc, try, sessions, last>>
  PROVE  /\ Session'
         /\ \A b \in Apps : (Streaming(b)' => Streaming(b)) /\ Ch(b)' = Ch(b)
         /\ \A b \in Apps : \A i \in DOMAIN Devices[b] : Ahead(b, i)' => Ahead(b, i)
BY DEF Flow, Session, Streaming, Ch, Ahead

LEMMA QuietFlow ==
  ASSUME IInv, Flow,
         \/ DmaLock \/ DmaFull \/ DmaWake \/ UNCHANGED vars
         \/ DmaScan /\ UNCHANGED dmaring
  PROVE  Flow'
<1>1. /\ UNCHANGED <<pc, try, sessions, last, dmaring, air, stream, offset>>
      /\ UNCHANGED <<packet_buf, packet_size, buffer>>
      /\ dpc' = "copied" => dpc = "copied"
  BY DEF DmaLock, DmaFull, DmaWake, DmaScan, vars
<1>2. /\ Session'
      /\ \A b \in Apps : (Streaming(b)' => Streaming(b)) /\ Ch(b)' = Ch(b)
      /\ \A b \in Apps : \A i \in DOMAIN Devices[b] : Ahead(b, i)' => Ahead(b, i)
  BY <1>1, ProgramsStill
<1> QED
  BY <1>1, <1>2, FlowKept

\* Without its first micropacket the ring has nothing of a channel it had nothing of.
LEMMA FreshTail ==
  ASSUME IInv, dmaring # <<>>, dmaring' = Tail(dmaring), NEW d,
         \A k \in DOMAIN dmaring : dmaring[k].ch # d
  PROVE  \A k \in DOMAIN dmaring' : dmaring'[k].ch # d
<1>1. PICK n \in Nat : n = Len(dmaring) /\ DOMAIN dmaring = 1 .. n
  BY DEF IInv, TypeOK
<1>2. /\ DOMAIN dmaring' = 1 .. n - 1
      /\ \A k \in 1 .. n - 1 : dmaring'[k] = dmaring[k + 1] /\ k + 1 \in 1 .. n
  BY <1>1 DEF IInv, TypeOK
<1> QED
  BY <1>1, <1>2

\* What comes after the first micropacket comes next without it.
LEMMA NextUp ==
  ASSUME IInv, NEW c \in Channels, NEW m, Upcoming(c, 1, m),
         dmaring # <<>>, dmaring' = Tail(dmaring), UNCHANGED air
  PROVE  Upcoming(c, 0, m)'
<1>1. PICK i \in Nat : i = 1
  OBVIOUS
<1>2. i > 0 /\ i - 1 = 0
  BY <1>1
<1>3. Upcoming(c, i - 1, m)'
  BY <1>1, <1>2, UpcomingTail DEF IInv
<1> QED
  BY <1>2, <1>3 DEF Upcoming

\* The DMA thread throws away only what no program is to have.
LEMMA ThrowFlow ==
  ASSUME IInv, Flow, DmaScan, dmaring' # dmaring
  PROVE  Flow'
<1>1. /\ UNCHANGED <<pc, try, sessions, last, air, stream>>
      /\ UNCHANGED <<packet_buf, packet_size, buffer>>
      /\ dmaring # <<>> /\ dmaring' = Tail(dmaring) /\ dpc' # "copied"
      /\ ~valid[Head(dmaring).ch]
  BY DEF DmaScan
<1>2. /\ Session'
      /\ \A b \in Apps : (Streaming(b)' => Streaming(b)) /\ Ch(b)' = Ch(b)
      /\ \A b \in Apps : \A i \in DOMAIN Devices[b] : Ahead(b, i)' => Ahead(b, i)
  BY <1>1, ProgramsStill
<1>3. InSequence' /\ Copied'
  BY <1>1, SequenceTail DEF Flow, Copied
<1>4. Untouched'
  BY <1>1, <1>2, FreshTail DEF Flow, Untouched, Fresh
<1>5. Flowing'
  <2> SUFFICES ASSUME NEW b \in Apps, Streaming(b)'
               PROVE  \E m \in OnAir : Upcoming(Ch(b), 0, m)' /\ InStep(b, m)'
    BY DEF Flowing
  <2>1. Streaming(b) /\ Ch(b)' = Ch(b)
    BY <1>2
  <2>2. PICK m \in OnAir : Upcoming(Ch(b), 0, m) /\ InStep(b, m)
    BY <2>1 DEF Flow, Flowing
  <2>3. PICK d \in Channels : d = Ch(b)
    BY <2>1, InHand DEF Streaming
  <2>4. Head(dmaring).ch # d
    <3>1. pc[b] \in Using
      BY <2>1 DEF Streaming, Using, Labels, Asleep
    <3> QED
      BY <1>1, <2>3, <3>1 DEF IInv, Locks, Users
  <2>5. Upcoming(d, 1, m)
    BY <1>1, <2>2, <2>3, <2>4, UpcomingOther DEF IInv
  <2>6. Upcoming(d, 0, m)'
    BY <1>1, <2>5, NextUp
  <2>7. InStep(b, m)'
    BY <1>1, <2>1, <2>2, InStepKept
  <2> QED
    BY <2>1, <2>3, <2>6, <2>7 DEF Upcoming
<1> QED
  BY <1>2, <1>3, <1>4, <1>5 DEF Flow

\* The micropacket in hand is written behind what has come of its packet.
LEMMA CopyFlow ==
  ASSUME IInv, Flow, DmaCopy
  PROVE  Flow'
<1>1. /\ UNCHANGED <<pc, try, sessions, last, air, stream, dmaring, packet_size, buffer>>
      /\ dmaring # <<>> /\ offset' = Offset(Head(dmaring))
  BY DEF DmaCopy, IInv, DmaInside
<1>2. PICK c \in Channels, m \in Micro : m = Head(dmaring) /\ c = m.ch
  BY <1>1, HeadType DEF IInv, Micro
<1>3. /\ Offset(m) \in 0 .. Parts - 1
      /\ packet_buf' = [packet_buf EXCEPT ![c][Offset(m)+1] = Of(m)]
      /\ packet_buf[c] \in Packet /\ packet_buf \in [Channels -> Packet]
  BY <1>1, <1>2, DriverAssumption DEF DmaCopy, Of, Offset, IInv, TypeOK
<1>4. /\ \A d \in Channels : d # c => packet_buf'[d] = packet_buf[d]
      /\ \A i \in 1 .. Parts :
           packet_buf'[c][i] = IF i = Offset(m)+1 THEN Of(m) ELSE packet_buf[c][i]
  BY <1>3 DEF Packet
<1>5. /\ Session'
      /\ \A b \in Apps : (Streaming(b)' => Streaming(b)) /\ Ch(b)' = Ch(b)
      /\ \A b \in Apps : \A i \in DOMAIN Devices[b] : Ahead(b, i)' => Ahead(b, i)
  BY <1>1, ProgramsStill
<1>6. InSequence'
  BY <1>1, SequenceKept DEF Flow
<1>7. Copied'
  <2>1. Offset(m)+1 \in 1 .. Parts
    BY <1>3, DriverAssumption
  <2>2. packet_buf'[c][Offset(m)+1] = Of(m)
    BY <1>4, <2>1
  <2>3. Offset(Head(dmaring))' = Offset(m) /\ Of(Head(dmaring))' = Of(m)
    BY <1>1, <1>2 DEF Offset, Of
  <2> QED
    BY <1>1, <1>2, <2>2, <2>3 DEF Copied
<1>8. Untouched'
  BY <1>1, <1>5 DEF Flow, Untouched, Fresh
<1>9. Flowing'
  <2> SUFFICES ASSUME NEW b \in Apps, Streaming(b)'
               PROVE  \E x \in OnAir : Upcoming(Ch(b), 0, x)' /\ InStep(b, x)'
    BY DEF Flowing
  <2>1. Streaming(b) /\ Ch(b)' = Ch(b)
    BY <1>5
  <2>2. PICK x \in OnAir : Upcoming(Ch(b), 0, x) /\ InStep(b, x)
    BY <2>1 DEF Flow, Flowing
  <2>3. PICK d \in Channels : d = Ch(b)
    BY <2>1, InHand DEF Streaming
  <2>4. Upcoming(d, 0, x)'
    BY <1>1, <2>2, <2>3, UpcomingKept
  <2>5. InStep(b, x)'
    <3>1. CASE d # c
      BY <1>1, <1>4, <2>1, <2>2, <2>3, <3>1, InStepKept
    <3>2. CASE d = c
      <4>1. x = Of(m)
        BY <1>1, <1>2, <2>2, <2>3, <3>2, UpcomingHead DEF IInv
      <4>2. x.part = m.part /\ x.part \in 1 .. Parts
        BY <4>1 DEF Of, Micro
      <4>3. Continues(b, x)'
        <5>1. Continues(b, x) /\ last' = last /\ buffer' = buffer
          BY <1>1, <2>2 DEF InStep
        <5> QED
          BY <2>1, <5>1 DEF Continues, Whole, Number
      <4>4. Headless(b, x) => Headless(b, x)'
        BY <1>1, <2>1 DEF Headless
      <4>5. Begun(c, x) => Begun(c, x)'
        <5> SUFFICES ASSUME Begun(c, x), x.part # 1  PROVE Begun(c, x)'
          BY DEF Begun
        <5>1. Offset(m) = x.part - 1
          BY <1>2, <4>2 DEF Offset, Begun
        <5>2. \A i \in 1 .. x.part - 1 : i \in 1 .. Parts /\ i # Offset(m)+1
          BY <4>2, <5>1, DriverAssumption
        <5> QED
          BY <1>1, <1>4, <5>2 DEF Begun
      <4> QED
        BY <2>1, <2>2, <2>3, <3>2, <4>3, <4>4, <4>5 DEF InStep, Begun
    <3> QED
      BY <3>1, <3>2
  <2> QED
    BY <2>1, <2>3, <2>4, <2>5 DEF Upcoming
<1> QED
  BY <1>5, <1>6, <1>7, <1>8, <1>9 DEF Flow

\* The packet that is complete follows what the buffer has.
LEMMA StoreContinues ==
  ASSUME NEW a \in Apps, NEW c \in Channels, Ch(a) = c, Ch(a)' = c,
         NEW x, NEW y, x.n \in Nat, y.n = x.n + 1, Continues(a, x),
         buffer[c] \in Seq(Packet), last'[a] = last[a], last[a] \in Nat,
         NEW p \in Packet, Whole(p), Number(p) = x.n, buffer'[c] = Append(buffer[c], p)
  PROVE  Continues(a, y)'
<1>1. PICK n \in Nat : n = Len(buffer[c])
  OBVIOUS
<1>2. /\ Len(buffer'[c]) = n + 1 /\ buffer'[c][n + 1] = p
      /\ \A i \in 1 .. n : buffer'[c][i] = buffer[c][i]
      /\ buffer'[c] # <<>> /\ (buffer[c] = <<>> <=> n = 0)
  BY <1>1
<1>3. /\ \A i \in 1 .. n : Whole(buffer[c][i])
      /\ \A i \in 1 .. n - 1 : Number(buffer[c][i+1]) = Number(buffer[c][i]) + 1
      /\ last[a] # 0 /\ n # 0 => Number(buffer[c][1]) = last[a] + 1
      /\ n # 0 => Number(buffer[c][n]) + 1 = x.n
      /\ last[a] # 0 /\ n = 0 => last[a] + 1 = x.n
  BY <1>1, <1>2 DEF Continues
<1>4. \A i \in 1 .. n + 1 : i = n + 1 \/ i \in 1 .. n
  BY <1>1
<1>5. \A i \in 1 .. n + 1 : Whole(buffer'[c][i])
  BY <1>2, <1>3, <1>4
<1>6. \A i \in 1 .. (n + 1) - 1 : Number(buffer'[c][i+1]) = Number(buffer'[c][i]) + 1
  <2> SUFFICES ASSUME NEW i \in 1 .. (n + 1) - 1
               PROVE  Number(buffer'[c][i+1]) = Number(buffer'[c][i]) + 1
    OBVIOUS
  <2>1. i \in 1 .. n /\ (i = n \/ (i \in 1 .. n - 1 /\ i + 1 \in 1 .. n)) /\ (i = n => n # 0)
    BY <1>1
  <2> QED
    BY <1>2, <1>3, <2>1
<1>7. last'[a] # 0 => Number(buffer'[c][1]) = last'[a] + 1
  <2>1. n = 0 \/ 1 \in 1 .. n
    BY <1>1
  <2>2. n = 0 => n + 1 = 1
    OBVIOUS
  <2> QED
    BY <1>2, <1>3, <2>1, <2>2
<1> QED
  BY <1>2, <1>5, <1>6, <1>7 DEF Continues

\* A packet that was begun grows by one and is complete with its last micropacket; one
\* whose head was missed stays too short.
LEMMA StoreFlow ==
  ASSUME IInv, Flow, DmaStore
  PROVE  Flow'
<1>1. /\ UNCHANGED <<pc, try, sessions, last, air, stream, packet_buf>>
      /\ dmaring # <<>> /\ dmaring' = Tail(dmaring) /\ dpc' # "copied"
      /\ dpc = "copied"
  BY DEF DmaStore, IInv, DmaInside
<1>2. PICK c \in Channels, m \in Micro : m = Head(dmaring) /\ c = m.ch
  BY <1>1, HeadType DEF IInv, Micro
<1>3. /\ offset = Offset(m) /\ offset \in 0 .. Parts - 1
      /\ packet_buf[c][offset+1] = Of(m)
      /\ buffer \in [Channels -> Seq(Packet)] /\ packet_size \in [Channels -> 0 .. Parts - 1]
      /\ packet_buf[c] \in Packet /\ last \in [Apps -> 0 .. MaxPacket]
  BY <1>1, <1>2 DEF Flow, Copied, IInv, TypeOK
<1>4. /\ \A d \in Channels : d # c => /\ packet_size'[d] = packet_size[d]
                                      /\ buffer'[d] = buffer[d]
      /\ offset + 1 = Parts => /\ packet_size'[c] = 0
                               /\ buffer'[c] = Append(buffer[c], packet_buf[c])
      /\ offset + 1 # Parts => packet_size'[c] = offset + 1 /\ buffer'[c] = buffer[c]
  BY <1>2, <1>3 DEF DmaStore
<1>5. /\ Session'
      /\ \A b \in Apps : (Streaming(b)' => Streaming(b)) /\ Ch(b)' = Ch(b)
      /\ \A b \in Apps : \A i \in DOMAIN Devices[b] : Ahead(b, i)' => Ahead(b, i)
  BY <1>1, ProgramsStill
<1>6. InSequence' /\ Copied'
  BY <1>1, SequenceTail DEF Flow, Copied
<1>7. 1 \in DOMAIN dmaring /\ dmaring[1] = m
  BY <1>1, <1>2 DEF IInv, TypeOK
<1>8. Untouched'
  <2> SUFFICES ASSUME NEW b \in Apps, NEW i \in DOMAIN Devices[b], Ahead(b, i)'
               PROVE  Fresh(Devices[b][i])'
    BY DEF Untouched
  <2>1. PICK d \in Channels : d = Devices[b][i]
    <3>1. Devices[b] \in Seq(Channels)
      BY DriverAssumption
    <3> QED
      BY <3>1
  <2>2. Fresh(d)
    BY <1>5, <2>1 DEF Flow, Untouched
  <2>3. d # c
    BY <1>2, <1>7, <2>2 DEF Fresh
  <2>4. \A k \in DOMAIN dmaring' : dmaring'[k].ch # d
    BY <1>1, <2>2, FreshTail DEF Fresh
  <2> QED
    BY <1>1, <1>4, <2>1, <2>2, <2>3, <2>4 DEF Fresh
<1>9. Flowing'
  <2> SUFFICES ASSUME NEW b \in Apps, Streaming(b)'
               PROVE  \E x \in OnAir : Upcoming(Ch(b), 0, x)' /\ InStep(b, x)'
    BY DEF Flowing
  <2>1. Streaming(b) /\ Ch(b)' = Ch(b) /\ last'[b] = last[b]
    BY <1>1, <1>5
  <2>2. PICK x \in OnAir : Upcoming(Ch(b), 0, x) /\ InStep(b, x)
    BY <2>1 DEF Flow, Flowing
  <2>3. PICK d \in Channels : d = Ch(b)
    BY <2>1, InHand DEF Streaming
  <2>4. CASE d # c
    <3>1. Upcoming(d, 0, x)'
      BY <1>1, <1>2, <2>2, <2>3, <2>4, UpcomingOther, NextUp DEF IInv
    <3>2. InStep(b, x)'
      BY <1>1, <1>4, <2>1, <2>2, <2>3, <2>4, InStepKept
    <3> QED
      BY <2>1, <2>3, <3>1, <3>2 DEF Upcoming
  <2>5. CASE d = c
    <3>1. x = Of(m)
      BY <1>1, <1>2, <2>2, <2>3, <2>5, UpcomingHead DEF IInv
    <3>2. x.n \in 0 .. MaxPacket /\ x.part \in 1 .. Parts /\ x.part = m.part
      BY <3>1 DEF Of, Micro
    <3>3. PICK y \in OnAir : y = NextOnAir(x)
      <4>1. NextOnAir(x) \in OnAir
        BY <3>2, DriverAssumption DEF NextOnAir, OnAir
      <4> QED
        BY <4>1
    <3>4. y.part = (IF x.part = Parts THEN 1 ELSE x.part + 1)
          /\ y.n = (IF x.part = Parts THEN x.n + 1 ELSE x.n)
      BY <3>2, <3>3 DEF NextOnAir, OnAir
    <3>5. Upcoming(c, 0, y)'
      <4>1. Upcoming(c, 1, y)
        BY <1>2, <1>7, <3>1, <3>3 DEF Flow, InSequence
      <4> QED
        BY <1>1, <4>1, NextUp
    <3>6. Continues(b, x) /\ Ch(b) = c /\ Ch(b)' = c
      BY <2>1, <2>2, <2>3, <2>5 DEF InStep
    <3>7. CASE Begun(c, x)
      <4>1. offset + 1 = x.part
        BY <1>2, <1>3, <3>2, <3>7 DEF Offset, Begun
      <4>2. \A i \in 1 .. x.part : packet_buf[c][i] = [n |-> x.n, part |-> i]
        BY <1>3, <3>1, <3>2, <3>7, <4>1 DEF Begun, Of
      <4>3. CASE x.part = Parts
        <5>1. Whole(packet_buf[c]) /\ Number(packet_buf[c]) = x.n
          <6>1. 1 \in 1 .. Parts
            BY DriverAssumption
          <6>2. Number(packet_buf[c]) = x.n
            <7>1. packet_buf[c][1] = [n |-> x.n, part |-> 1]
              BY <4>2, <4>3, <6>1
            <7> QED
              BY <7>1 DEF Number
          <6> QED
            BY <4>2, <4>3, <6>2 DEF Whole
        <5>2. Continues(b, y)'
          <6>1. /\ x.n \in Nat /\ y.n = x.n + 1 /\ last[b] \in Nat
                /\ buffer[c] \in Seq(Packet) /\ packet_buf[c] \in Packet
            BY <1>3, <3>2, <3>4, <4>3, DriverAssumption
          <6>2. buffer'[c] = Append(buffer[c], packet_buf[c])
            BY <1>4, <4>1, <4>3
          <6> QED
            BY <2>1, <3>6, <5>1, <6>1, <6>2, StoreContinues
        <5>3. Begun(c, y)'
          BY <3>4, <4>3 DEF Begun
        <5> QED
          BY <2>1, <3>5, <3>6, <5>2, <5>3 DEF InStep, Upcoming, Begun
      <4>4. CASE x.part # Parts
        <5>1. packet_size'[c] = x.part /\ buffer'[c] = buffer[c]
          BY <1>4, <4>1, <4>4
        <5>2. Continues(b, y)'
          BY <2>1, <3>4, <3>6, <4>4, <5>1 DEF Continues, Whole, Number
        <5>3. Begun(c, y)'
          BY <1>1, <3>2, <3>4, <4>2, <4>4, <5>1 DEF Begun
        <5> QED
          BY <2>1, <3>5, <3>6, <5>2, <5>3 DEF InStep, Upcoming, Begun
      <4> QED
        BY <4>3, <4>4
    <3>8. CASE ~Begun(c, x)
      <4>1. x.part # 1 /\ packet_size[c] < x.part - 1 /\ buffer[c] = <<>> /\ last[b] = 0
        BY <2>2, <3>6, <3>8 DEF InStep, Begun, Headless
      <4>2. offset = packet_size[c] /\ offset + 1 # Parts
        BY <1>2, <1>3, <3>2, <4>1 DEF Offset
      <4>3. /\ packet_size'[c] = packet_size[c] + 1
            /\ buffer'[c] = <<>> /\ last'[b] = 0
        BY <1>4, <2>1, <4>1, <4>2
      <4>4. Continues(b, y)'
        BY <3>6, <4>3 DEF Continues
      <4>5. Begun(c, y)' \/ Headless(b, y)'
        BY <1>3, <3>2, <3>4, <3>6, <4>1, <4>3 DEF Begun, Headless
      <4> QED
        BY <2>1, <3>5, <3>6, <4>4, <4>5 DEF InStep, Upcoming, Begun
    <3> QED
      BY <3>7, <3>8
  <2> QED
    BY <2>4, <2>5
<1> QED
  BY <1>5, <1>6, <1>8, <1>9 DEF Flow

\* What the card adds comes after all that was in the ring.
LEMMA DeliverFlow ==
  ASSUME IInv, Flow, NEW c \in Channels, Deliver(c)
  PROVE  Flow'
<1>1. /\ UNCHANGED <<pc, try, sessions, last, stream, dpc, offset>>
      /\ UNCHANGED <<packet_buf, packet_size, buffer>>
      /\ stream[c]
  BY DEF Deliver
<1>2. PICK x \in Micro : /\ x.ch = c /\ Of(x) = air[c]
                         /\ dmaring' = Append(dmaring, x)
  <2>1. [ch |-> c, n |-> air[c].n, part |-> air[c].part] \in Micro /\ air[c] \in OnAir
    BY DriverAssumption DEF Deliver, IInv, TypeOK, Micro, OnAir
  <2> QED
    BY <2>1 DEF Deliver, Of, OnAir
<1>3. air'[c] = NextOnAir(air[c]) /\ \A d \in Channels : d # c => air'[d] = air[d]
  BY DEF Deliver, IInv, TypeOK
<1>4. PICK n \in Nat : n = Len(dmaring) /\ DOMAIN dmaring = 1 .. n
  BY DEF IInv, TypeOK
<1>5. /\ DOMAIN dmaring' = 1 .. n + 1 /\ dmaring'[n + 1] = x
      /\ \A k \in 1 .. n : dmaring'[k] = dmaring[k]
      /\ dmaring # <<>> => Head(dmaring') = Head(dmaring)
  BY <1>2, <1>4 DEF IInv, TypeOK
<1>6. \A d \in Channels, i \in 0 .. n : \A m : Upcoming(d, i, m) => Upcoming(d, i, m)'
  BY <1>2, <1>3, <1>4, UpcomingAppend DEF IInv
<1>7. /\ Session'
      /\ \A b \in Apps : (Streaming(b)' => Streaming(b)) /\ Ch(b)' = Ch(b)
      /\ \A b \in Apps : \A i \in DOMAIN Devices[b] : Ahead(b, i)' => Ahead(b, i)
  BY <1>1, ProgramsStill
<1>8. InSequence'
  <2> SUFFICES ASSUME NEW i \in 1 .. n + 1
               PROVE  Upcoming(dmaring[i].ch, i, NextOnAir(Of(dmaring[i])))'
    BY <1>5 DEF InSequence
  <2>1. CASE i \in 1 .. n
    <3>1. PICK d \in Channels : d = dmaring[i].ch
      <4>1. dmaring[i] \in Micro
        BY <1>4, <2>1 DEF IInv, TypeOK
      <4> QED
        BY <4>1 DEF Micro
    <3>2. PICK m : m = NextOnAir(Of(dmaring[i]))
      OBVIOUS
    <3>3. Upcoming(d, i, m)
      BY <1>4, <2>1, <3>1, <3>2 DEF Flow, InSequence
    <3>4. Upcoming(d, i, m)'
      BY <1>6, <2>1, <3>3
    <3> QED
      BY <1>5, <2>1, <3>1, <3>2, <3>4 DEF NextOnAir, Of
  <2>2. CASE i = n + 1
    <3>1. NextOnAir(Of(x)) = air'[c]
      BY <1>2, <1>3
    <3>2. \A k \in DOMAIN dmaring' : ~(i < k)
      BY <1>5, <2>2
    <3>3. dmaring'[i] = x /\ air'[dmaring'[i].ch] = NextOnAir(Of(dmaring'[i]))
      BY <1>2, <1>5, <2>2, <3>1
    <3> QED
      BY <3>2, <3>3 DEF Upcoming, NextOnAir, Of
  <2> QED
    BY <2>1, <2>2
<1>9. Copied'
  <2> SUFFICES ASSUME dpc' = "copied"  PROVE Copied'
    BY DEF Copied
  <2>1. dmaring # <<>> /\ dpc = "copied"
    BY <1>1 DEF IInv, DmaInside
  <2> QED
    BY <1>1, <1>5, <2>1 DEF Flow, Copied, Offset, Of
<1>10. Untouched'
  <2> SUFFICES ASSUME NEW b \in Apps, NEW i \in DOMAIN Devices[b], Ahead(b, i)'
               PROVE  Fresh(Devices[b][i])'
    BY DEF Untouched
  <2>1. Fresh(Devices[b][i])
    BY <1>7 DEF Flow, Untouched
  <2>2. Devices[b][i] # c
    BY <1>1, <2>1 DEF Fresh
  <2>3. \A k \in 1 .. n + 1 : k = n + 1 \/ k \in 1 .. n
    BY <1>4
  <2>4. \A k \in DOMAIN dmaring' : dmaring'[k].ch # Devices[b][i]
    BY <1>2, <1>4, <1>5, <2>1, <2>2, <2>3 DEF Fresh
  <2> QED
    BY <1>1, <2>1, <2>4 DEF Fresh
<1>11. Flowing'
  <2> SUFFICES ASSUME NEW b \in Apps, Streaming(b)'
               PROVE  \E m \in OnAir : Upcoming(Ch(b), 0, m)' /\ InStep(b, m)'
    BY DEF Flowing
  <2>1. Streaming(b) /\ Ch(b)' = Ch(b)
    BY <1>7
  <2>2. PICK m \in OnAir : Upcoming(Ch(b), 0, m) /\ InStep(b, m)
    BY <2>1 DEF Flow, Flowing
  <2>3. PICK d \in Channels : d = Ch(b)
    BY <2>1, InHand DEF Streaming
  <2>4. Upcoming(d, 0, m)'
    BY <1>4, <1>6, <2>2, <2>3
  <2>5. InStep(b, m)'
    BY <1>1, <2>1, <2>2, InStepKept
  <2> QED
    BY <2>1, <2>3, <2>4, <2>5 DEF Upcoming
<1> QED
  BY <1>7, <1>8, <1>9, <1>10, <1>11 DEF Flow

-----------------------------------------------------------------------------
(* The theorems about the packets *)

LEMMA InitFlow == Init => Flow
<1> SUFFICES ASSUME Init PROVE Flow
  OBVIOUS
<1>1. InSequence /\ Copied
  BY DEF Init, InSequence, Copied
<1>2. Untouched
  <2> SUFFICES ASSUME NEW b \in Apps, NEW i \in DOMAIN Devices[b]
               PROVE  Fresh(Devices[b][i])
    BY DEF Untouched
  <2>1. Devices[b][i] \in Channels
    <3>1. Devices[b] \in Seq(Channels)
      BY DriverAssumption
    <3> QED
      BY <3>1
  <2> QED
    BY <2>1 DEF Init, Fresh
<1>3. Session /\ Flowing
  BY DEF Init, Session, Flowing, Streaming
<1> QED
  BY <1>1, <1>2, <1>3 DEF Flow

LEMMA NextFlow ==
  ASSUME OnceEach, IInv, Flow, [Next]_vars
  PROVE  Flow'
<1>1. ASSUME NEW a \in Apps, Open(a)  PROVE Flow'
  BY <1>1, OpenBeginFlow, OpenFlow DEF Open
<1>2. ASSUME NEW a \in Apps, Ioctl(a)  PROVE Flow'
  BY <1>2, IoctlFlow, StartRecFlow DEF Ioctl
<1>3. ASSUME NEW a \in Apps, Close(a)  PROVE Flow'
  BY <1>3, EndFlow, ReleaseEndFlow DEF Close
<1>4. ASSUME NEW a \in Apps, Read(a) \/ StopRec(a) \/ Abandon(a)  PROVE Flow'
  BY <1>4, ReadFlow, EndFlow
<1>5. CASE DmaThread
  <2>1. ~DmaFail
    BY DEF DmaFail, OnceEach
  <2>2. CASE DmaScan
    BY <2>2, QuietFlow, ThrowFlow
  <2> QED
    BY <1>5, <2>1, <2>2, QuietFlow, CopyFlow, StoreFlow DEF DmaThread
<1>6. CASE \E c \in Channels : Deliver(c)
  BY <1>6, DeliverFlow
<1>7. CASE UNCHANGED vars
  BY <1>7, QuietFlow
<1> QED
  BY <1>1, <1>2, <1>3, <1>4, <1>5, <1>6, <1>7 DEF Next

LEMMA FlowHolds == OnceEach => (Spec => []Flow)
<1> SUFFICES ASSUME OnceEach PROVE Spec => []Flow
  OBVIOUS
<1>1. IInv /\ Flow /\ [Next]_vars => Flow'
  BY NextFlow
<1> QED
  BY <1>1, InitFlow, InvariantHolds, PTL DEF Spec

\* pt1_thread puts a packet together from micropackets of two broadcasts and two channels
\* as they come, in two steps between which packet_size is out of date, and pt1_open resets
\* packet_size without the channel lock: still every packet in the buffer of a program that
\* records is one packet of its channel, and whole, however many channels the card has and
\* however large packets, buffers and the ring are.
THEOREM WholePackets == OnceEach => (Spec => []PacketsWhole)
<1> SUFFICES ASSUME OnceEach PROVE Spec => []PacketsWhole
  OBVIOUS
<1>1. IInv /\ Flow => PacketsWhole
  <2> SUFFICES ASSUME IInv, Flow, NEW a \in Apps, Streaming(a), NEW i \in DOMAIN buffer[Ch(a)]
               PROVE  Whole(buffer[Ch(a)][i])
    BY DEF PacketsWhole
  <2>1. \A k \in 1 .. Len(buffer[Ch(a)]) : Whole(buffer[Ch(a)][k])
    BY DEF Flow, Flowing, InStep, Continues
  <2>2. DOMAIN buffer[Ch(a)] = 1 .. Len(buffer[Ch(a)])
    BY InHand DEF IInv, TypeOK, Streaming
  <2> QED
    BY <2>1, <2>2
<1> QED
  BY <1>1, InvariantHolds, FlowHolds, PTL

\* The DMA thread waits for the reader rather than lose a packet, also while it holds up
\* the other channels: what a program reads, with what its buffer holds, has no hole from
\* START_REC on.
THEOREM NoHoles == OnceEach => (Spec => []NoGap)
<1> SUFFICES ASSUME OnceEach PROVE Spec => []NoGap
  OBVIOUS
<1>1. Flow => NoGap
  BY DEF Flow, Flowing, InStep, Continues, NoGap
<1> QED
  BY <1>1, FlowHolds, PTL
=============================================================================
