---------------------------- MODULE ChannelRing ----------------------------
(***************************************************************************)
(* The ring in which the pt1 driver keeps the bytes of one channel between  *)
(* the DMA thread and read(): buf, pointer, size and maxsize of             *)
(* PT1_CHANNEL.  Every operation runs under the channel's mutex, so that    *)
(* each is one step; its index arithmetic is what this module is about.     *)
(***************************************************************************)
EXTENDS Naturals, Sequences

CONSTANTS Byte,
          PACKET_SIZE,    \* 188
          maxsize         \* CHANNEL_DMA_SIZE or BS_CHANNEL_DMA_SIZE

ASSUME RingAssumption ==
  /\ PACKET_SIZE \in Nat \ {0}
  /\ maxsize \in Nat
  /\ maxsize >= PACKET_SIZE + 4    \* or the unsigned difference would wrap

VARIABLES buf, pointer, size,
          result          \* what the last read copied to its caller

vars == <<buf, pointer, size, result>>

Address == 0 .. maxsize - 1

Init ==
  /\ buf \in [Address -> Byte]
  /\ pointer = 0 /\ size = 0
  /\ result = <<>>

\* memcpy(&dst[at], &src[from], n)
memcpy(dst, at, src, from, n) ==
  [i \in Address |-> IF i \in at .. at + n - 1 THEN src[from + i - at + 1] ELSE dst[i]]

-----------------------------------------------------------------------------
(* A complete packet, put in by the DMA thread *)

End == pointer + size

FullAtTheBrim == size >= maxsize   \* mutant: the margin of a packet is missing
Full == size >= maxsize - PACKET_SIZE - 4

Store(bytes) ==
  /\ buf' = bytes
  /\ size' = size + PACKET_SIZE
  /\ UNCHANGED <<pointer, result>>

\* The free part begins before the unread bytes,
WriteWrapped(packet) ==
  /\ ~Full /\ End >= maxsize
  /\ Store(memcpy(buf, End - maxsize, packet, 0, PACKET_SIZE))

\* the packet does not fit before the end of the buffer,
WriteAcross(packet) ==
  /\ ~Full /\ End < maxsize /\ End + PACKET_SIZE > maxsize
  /\ LET tmp_size == maxsize - End
     IN  Store(memcpy(memcpy(buf, End, packet, 0, tmp_size),
                      0, packet, tmp_size, PACKET_SIZE - tmp_size))

\* or it does.
WriteInside(packet) ==
  /\ ~Full /\ End < maxsize /\ End + PACKET_SIZE <= maxsize
  /\ Store(memcpy(buf, End, packet, 0, PACKET_SIZE))

-----------------------------------------------------------------------------
(* pt1_read and pt1_open *)

ReadLength(cnt) == IF cnt < size THEN cnt ELSE size

WrapsLate(n) == maxsize < n + pointer   \* mutant: pointer may stay at the end
Wraps(n)     == maxsize <= n + pointer

Read(cnt) ==
  LET n == ReadLength(cnt)
      tmp_size == maxsize - pointer
  IN  /\ result' = [i \in 1 .. n |-> IF Wraps(n) /\ i > tmp_size THEN buf[i - tmp_size - 1]
                                                             ELSE buf[pointer + i - 1]]
      /\ pointer' = (IF Wraps(n) THEN n - tmp_size ELSE pointer + n)
      /\ size' = size - n
      /\ UNCHANGED buf

\* open forgets the bytes and leaves pointer where it is.
Open == size' = 0 /\ UNCHANGED <<buf, pointer, result>>

-----------------------------------------------------------------------------
Next ==
  \/ \E packet \in [1 .. PACKET_SIZE -> Byte] :
       WriteWrapped(packet) \/ WriteAcross(packet) \/ WriteInside(packet)
  \/ \E cnt \in 0 .. maxsize : Read(cnt)
  \/ Open

Spec == Init /\ [][Next]_vars

-----------------------------------------------------------------------------
(* Properties *)

\* pointer stays inside buf, and no more is unread than fits.
TypeOK ==
  /\ buf \in [Address -> Byte]
  /\ pointer \in Address
  /\ size \in 0 .. maxsize
  /\ result \in Seq(Byte)

\* The unread bytes, in order.
At(i) == IF i < maxsize THEN i ELSE i - maxsize
Content == [i \in 1 .. size |-> buf[At(pointer + i - 1)]]

Stream == INSTANCE PacketStream WITH
            stream <- Content, PacketLength <- PACKET_SIZE, Capacity <- maxsize

\* The ring is the byte stream of the device file: no write of a packet touches
\* a byte that has not been read, and no read gets one out of place, wherever
\* the two have gone round the end of buf.
ImplementsStream == Stream!StreamSpec
=============================================================================
