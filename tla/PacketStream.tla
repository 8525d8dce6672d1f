--------------------------- MODULE PacketStream ---------------------------
(***************************************************************************)
(* What a channel's buffer promises the reader of its device file: the      *)
(* bytes of the packets, all of them, in the order in which they were put   *)
(* in.  A packet is taken only if it fits, and a read may get less than     *)
(* there is.                                                                *)
(***************************************************************************)
EXTENDS Naturals, Sequences

CONSTANTS Byte,
          PacketLength,
          Capacity        \* bytes that fit

VARIABLES stream,         \* bytes not yet read
          result          \* what the last read returned

StreamInit == stream = <<>> /\ result = <<>>

WritePacket(packet) ==
  /\ Len(stream) + PacketLength <= Capacity
  /\ stream' = stream \o packet
  /\ UNCHANGED result

ReadBytes(n) ==
  /\ result' = SubSeq(stream, 1, n)
  /\ stream' = SubSeq(stream, n+1, Len(stream))

Reopen == stream' = <<>> /\ UNCHANGED result

StreamNext ==
  \/ \E packet \in [1 .. PacketLength -> Byte] : WritePacket(packet)
  \/ \E n \in 0 .. Len(stream) : ReadBytes(n)
  \/ Reopen

StreamSpec == StreamInit /\ [][StreamNext]_<<stream, result>>
=============================================================================
