------------------------- MODULE ChannelRingProofs -------------------------
(***************************************************************************)
(* For every packet and buffer size, the ring of ChannelRing stays within   *)
(* its buffer and is the stream of bytes its readers expect.                *)
(***************************************************************************)
EXTENDS ChannelRing, SequenceTheorems, TLAPS

\* A function on 1 .. n is a sequence of length n.
LEMMA FunctionIsSeq ==
  ASSUME NEW S, NEW n \in Nat, NEW f \in [1 .. n -> S]
  PROVE  f \in Seq(S) /\ Len(f) = n
<1>1. f \in Seq(S)
  BY SeqDef
<1> QED BY <1>1, LenProperties

-----------------------------------------------------------------------------
(* The type invariant *)

\* An empty ring, whatever bytes its memory holds.
LEMMA InitTypeOK == Init => TypeOK
<1> SUFFICES ASSUME Init PROVE TypeOK
  OBVIOUS
<1>1. result \in Seq(Byte)
  BY EmptySeq DEF Init
<1> QED BY <1>1, RingAssumption DEF Init, TypeOK, Address

\* memcpy of bytes that exist keeps the buffer a buffer.
LEMMA MemcpyType ==
  ASSUME NEW dst \in [Address -> Byte], NEW at \in Nat, NEW from \in Nat, NEW n \in Nat,
         NEW packet \in [1 .. PACKET_SIZE -> Byte], from + n <= PACKET_SIZE
  PROVE  memcpy(dst, at, packet, from, n) \in [Address -> Byte]
<1>1. ASSUME NEW i \in Address, i \in at .. at + n - 1
      PROVE  packet[from + i - at + 1] \in Byte
  <2>1. from + i - at + 1 \in 1 .. PACKET_SIZE
    BY <1>1, RingAssumption DEF Address
  <2> QED BY <2>1
<1> QED BY <1>1 DEF memcpy

\* A packet that may be written fits.
LEMMA RoomForPacket ==
  ASSUME TypeOK, ~Full
  PROVE  size + PACKET_SIZE < maxsize
  BY RingAssumption DEF TypeOK, Full

\* Writing before the unread bytes stays inside the buffer,
LEMMA WriteWrappedType ==
  ASSUME TypeOK, NEW packet \in [1 .. PACKET_SIZE -> Byte], WriteWrapped(packet)
  PROVE  TypeOK'
<1>1. buf' \in [Address -> Byte]
  <2>1. End - maxsize \in Nat /\ PACKET_SIZE \in Nat /\ 0 + PACKET_SIZE <= PACKET_SIZE
    BY RingAssumption DEF TypeOK, WriteWrapped, End, Address
  <2> QED BY <2>1, MemcpyType DEF TypeOK, WriteWrapped, Store
<1>2. size' \in 0 .. maxsize
  BY RoomForPacket, RingAssumption DEF TypeOK, WriteWrapped, Store
<1> QED BY <1>1, <1>2 DEF TypeOK, WriteWrapped, Store

\* writing round its end does,
LEMMA WriteAcrossType ==
  ASSUME TypeOK, NEW packet \in [1 .. PACKET_SIZE -> Byte], WriteAcross(packet)
  PROVE  TypeOK'
<1> DEFINE tmp_size == maxsize - End
           first == memcpy(buf, End, packet, 0, tmp_size)
<1>1. /\ End \in Nat /\ tmp_size \in Nat /\ PACKET_SIZE - tmp_size \in Nat
      /\ 0 + tmp_size <= PACKET_SIZE
      /\ tmp_size + (PACKET_SIZE - tmp_size) <= PACKET_SIZE
  BY RingAssumption DEF TypeOK, WriteAcross, End, Address
<1>2. first \in [Address -> Byte]
  BY <1>1, MemcpyType DEF TypeOK
<1>3. memcpy(first, 0, packet, tmp_size, PACKET_SIZE - tmp_size) \in [Address -> Byte]
  <2> HIDE DEF first, tmp_size
  <2> QED BY <1>1, <1>2, MemcpyType
<1>4. size' \in 0 .. maxsize
  BY RoomForPacket, RingAssumption DEF TypeOK, WriteAcross, Store
<1> QED BY <1>3, <1>4 DEF TypeOK, WriteAcross, Store

\* and writing in front of its end does.
LEMMA WriteInsideType ==
  ASSUME TypeOK, NEW packet \in [1 .. PACKET_SIZE -> Byte], WriteInside(packet)
  PROVE  TypeOK'
<1>1. buf' \in [Address -> Byte]
  <2>1. End \in Nat /\ PACKET_SIZE \in Nat /\ 0 + PACKET_SIZE <= PACKET_SIZE
    BY RingAssumption DEF TypeOK, End, Address
  <2> QED BY <2>1, MemcpyType DEF TypeOK, WriteInside, Store
<1>2. size' \in 0 .. maxsize
  BY RoomForPacket, RingAssumption DEF TypeOK, WriteInside, Store
<1> QED BY <1>1, <1>2 DEF TypeOK, WriteInside, Store

\* A read leaves pointer in the buffer and takes no more than there is.
LEMMA ReadType ==
  ASSUME TypeOK, NEW cnt \in 0 .. maxsize, Read(cnt)
  PROVE  TypeOK'
<1> DEFINE n == ReadLength(cnt)
           tmp_size == maxsize - pointer
<1>1. n \in Nat /\ n <= size /\ tmp_size \in Nat /\ tmp_size > 0
  BY RingAssumption DEF TypeOK, ReadLength, Address
<1>2. pointer' \in Address
  BY <1>1, RingAssumption DEF TypeOK, Read, Wraps, Address
<1>3. size' \in 0 .. maxsize
  BY <1>1, RingAssumption DEF TypeOK, Read
<1>4. result' \in Seq(Byte)
  <2>1. ASSUME NEW i \in 1 .. n, Wraps(n), i > tmp_size PROVE buf[i - tmp_size - 1] \in Byte
    <3>1. i - tmp_size - 1 \in Address
      BY <1>1, <2>1, RingAssumption DEF TypeOK, Wraps, Address
    <3> QED BY <3>1 DEF TypeOK
  <2>2. ASSUME NEW i \in 1 .. n, ~(Wraps(n) /\ i > tmp_size) PROVE buf[pointer + i - 1] \in Byte
    <3>1. pointer + i - 1 \in Address
      BY <1>1, <2>2, RingAssumption DEF TypeOK, Wraps, Address
    <3> QED BY <3>1 DEF TypeOK
  <2>3. result' \in [1 .. n -> Byte]
    BY <2>1, <2>2 DEF Read
  <2> QED BY <1>1, <2>3, FunctionIsSeq
<1> QED BY <1>2, <1>3, <1>4 DEF TypeOK, Read

\* Every operation keeps pointer and size in range.
LEMMA NextTypeOK == TypeOK /\ [Next]_vars => TypeOK'
<1> SUFFICES ASSUME TypeOK, [Next]_vars PROVE TypeOK'
  OBVIOUS
<1>1. ASSUME NEW packet \in [1 .. PACKET_SIZE -> Byte],
             WriteWrapped(packet) \/ WriteAcross(packet) \/ WriteInside(packet)
      PROVE  TypeOK'
  BY <1>1, WriteWrappedType, WriteAcrossType, WriteInsideType
<1>2. ASSUME NEW cnt \in 0 .. maxsize, Read(cnt) PROVE TypeOK'
  BY <1>2, ReadType
<1>3. CASE Open
  BY <1>3, RingAssumption DEF TypeOK, Open
<1>4. CASE UNCHANGED vars
  BY <1>4 DEF TypeOK, vars
<1> QED BY <1>1, <1>2, <1>3, <1>4 DEF Next

\* pointer and size never leave the buffer, for any size of buffer and packet.
THEOREM RingTyping == Spec => []TypeOK
<1> QED BY InitTypeOK, NextTypeOK, PTL DEF Spec

-----------------------------------------------------------------------------
(* The ring is a stream *)

\* The unread bytes are a sequence of bytes, before and after a step.
LEMMA UnreadSeq ==
  ASSUME NEW b \in [Address -> Byte], NEW p \in Address, NEW s \in 0 .. maxsize
  PROVE  /\ [i \in 1 .. s |-> b[At(p + i - 1)]] \in Seq(Byte)
         /\ Len([i \in 1 .. s |-> b[At(p + i - 1)]]) = s
<1>1. s \in Nat
  BY RingAssumption
<1>2. ASSUME NEW i \in 1 .. s PROVE b[At(p + i - 1)] \in Byte
  <2>1. At(p + i - 1) \in Address
    BY RingAssumption DEF At, Address
  <2> QED BY <2>1
<1>3. [i \in 1 .. s |-> b[At(p + i - 1)]] \in [1 .. s -> Byte]
  BY <1>2
<1> QED BY <1>1, <1>3, FunctionIsSeq

\* The unread bytes of the state before and of the state after a step.
LEMMA ContentSeq ==
  ASSUME TypeOK, TypeOK'
  PROVE  /\ Content \in Seq(Byte) /\ Len(Content) = size
         /\ Content' \in Seq(Byte) /\ Len(Content') = size'
         /\ \A i \in 1 .. size : Content[i] = buf[At(pointer + i - 1)]
         /\ \A i \in 1 .. size' : Content'[i] = buf'[At(pointer' + i - 1)]
<1>1. Content \in Seq(Byte) /\ Len(Content) = size
  BY UnreadSeq DEF Content, TypeOK
<1>2. Content' = [i \in 1 .. size' |-> buf'[At(pointer' + i - 1)]]
  BY DEF Content, At
<1>3. buf' \in [Address -> Byte] /\ pointer' \in Address /\ size' \in 0 .. maxsize
  BY DEF TypeOK, Address
<1>4. Content' \in Seq(Byte) /\ Len(Content') = size'
  BY <1>2, <1>3, UnreadSeq
<1> QED BY <1>1, <1>2, <1>4 DEF Content

\* A packet is appended when its bytes come to lie behind the unread bytes, going
\* round the end of the buffer, and the unread bytes stay what they were.
LEMMA Appended ==
  ASSUME TypeOK, TypeOK', ~Full,
         NEW packet \in [1 .. PACKET_SIZE -> Byte],
         pointer' = pointer, size' = size + PACKET_SIZE, result' = result,
         \A i \in 1 .. size : buf'[At(pointer + i - 1)] = buf[At(pointer + i - 1)],
         \A i \in 1 .. PACKET_SIZE : buf'[At(pointer + size + i - 1)] = packet[i]
  PROVE  Stream!WritePacket(packet)
<1>1. size \in Nat /\ PACKET_SIZE \in Nat /\ pointer \in Nat
  BY RingAssumption DEF TypeOK, Address
<1>2. /\ Content \in Seq(Byte) /\ Len(Content) = size
      /\ Content' \in Seq(Byte) /\ Len(Content') = size + PACKET_SIZE
  BY ContentSeq
<1>3. packet \in Seq(Byte) /\ Len(packet) = PACKET_SIZE
  BY <1>1, FunctionIsSeq
<1>4. /\ Content \o packet \in Seq(Byte)
      /\ Len(Content \o packet) = size + PACKET_SIZE
      /\ \A i \in 1 .. size + PACKET_SIZE :
           (Content \o packet)[i] = IF i <= size THEN Content[i] ELSE packet[i - size]
  BY <1>2, <1>3, ConcatProperties
<1>5. ASSUME NEW i \in 1 .. size + PACKET_SIZE PROVE Content'[i] = (Content \o packet)[i]
  <2>1. Content'[i] = buf'[At(pointer + i - 1)]
    BY <1>1, ContentSeq
  <2>2. CASE i <= size
    <3>1. i \in 1 .. size
      BY <1>1, <2>2
    <3>2. Content[i] = buf'[At(pointer + i - 1)]
      BY <3>1, ContentSeq
    <3> QED BY <1>4, <2>1, <2>2, <3>2
  <2>3. CASE i > size
    <3>1. i - size \in 1 .. PACKET_SIZE /\ pointer + size + (i - size) - 1 = pointer + i - 1
      BY <1>1, <2>3
    <3>2. buf'[At(pointer + i - 1)] = packet[i - size]
      BY <3>1
    <3>3. ~(i <= size)
      BY <1>1, <2>3
    <3> QED BY <1>4, <2>1, <3>2, <3>3
  <2>4. i <= size \/ i > size
    BY <1>1
  <2> QED BY <2>2, <2>3, <2>4
<1>6. Content' = Content \o packet
  BY <1>2, <1>4, <1>5, SeqEqual
<1>7. Len(Content) + PACKET_SIZE <= maxsize
  BY <1>1, <1>2, RoomForPacket, RingAssumption
<1> QED BY <1>6, <1>7 DEF Stream!WritePacket

\* Each of the three ways to write a packet appends it: before the unread bytes,
LEMMA WriteWrappedStep ==
  ASSUME TypeOK, TypeOK', NEW packet \in [1 .. PACKET_SIZE -> Byte], WriteWrapped(packet)
  PROVE  Stream!WritePacket(packet)
<1>1. /\ size \in Nat /\ PACKET_SIZE \in Nat /\ pointer \in Nat /\ maxsize \in Nat
      /\ pointer < maxsize /\ size + PACKET_SIZE < maxsize /\ pointer + size >= maxsize
  BY RoomForPacket, RingAssumption DEF TypeOK, Address, WriteWrapped, End
<1>2. \A a \in Address :
        buf'[a] = IF a \in End - maxsize .. End - maxsize + PACKET_SIZE - 1
                    THEN packet[0 + a - (End - maxsize) + 1] ELSE buf[a]
  BY DEF WriteWrapped, Store, memcpy
<1>3. ASSUME NEW i \in 1 .. size
      PROVE  buf'[At(pointer + i - 1)] = buf[At(pointer + i - 1)]
  <2>1. /\ At(pointer + i - 1) \in Address
        /\ At(pointer + i - 1) \notin End - maxsize .. End - maxsize + PACKET_SIZE - 1
    BY <1>1 DEF At, Address, End
  <2> QED BY <1>2, <2>1
<1>4. ASSUME NEW i \in 1 .. PACKET_SIZE
      PROVE  buf'[At(pointer + size + i - 1)] = packet[i]
  <2> DEFINE a == At(pointer + size + i - 1)
  <2>1. /\ a \in Address /\ a \in End - maxsize .. End - maxsize + PACKET_SIZE - 1
        /\ 0 + a - (End - maxsize) + 1 = i
    BY <1>1 DEF At, Address, End
  <2> QED BY <1>2, <2>1
<1> QED BY <1>3, <1>4, Appended DEF WriteWrapped, Store

\* in front of the end of the buffer,
LEMMA WriteInsideStep ==
  ASSUME TypeOK, TypeOK', NEW packet \in [1 .. PACKET_SIZE -> Byte], WriteInside(packet)
  PROVE  Stream!WritePacket(packet)
<1>1. /\ size \in Nat /\ PACKET_SIZE \in Nat /\ pointer \in Nat /\ maxsize \in Nat
      /\ pointer < maxsize /\ pointer + size + PACKET_SIZE <= maxsize
  BY RingAssumption DEF TypeOK, Address, WriteInside, End
<1>2. \A a \in Address :
        buf'[a] = IF a \in End .. End + PACKET_SIZE - 1
                    THEN packet[0 + a - End + 1] ELSE buf[a]
  BY DEF WriteInside, Store, memcpy
<1>3. ASSUME NEW i \in 1 .. size
      PROVE  buf'[At(pointer + i - 1)] = buf[At(pointer + i - 1)]
  <2>1. /\ At(pointer + i - 1) \in Address
        /\ At(pointer + i - 1) \notin End .. End + PACKET_SIZE - 1
    BY <1>1 DEF At, Address, End
  <2> QED BY <1>2, <2>1
<1>4. ASSUME NEW i \in 1 .. PACKET_SIZE
      PROVE  buf'[At(pointer + size + i - 1)] = packet[i]
  <2> DEFINE a == At(pointer + size + i - 1)
  <2>1. a \in Address /\ a \in End .. End + PACKET_SIZE - 1 /\ 0 + a - End + 1 = i
    BY <1>1 DEF At, Address, End
  <2> QED BY <1>2, <2>1
<1> QED BY <1>3, <1>4, Appended DEF WriteInside, Store

\* and in two parts round its end.
LEMMA WriteAcrossStep ==
  ASSUME TypeOK, TypeOK', NEW packet \in [1 .. PACKET_SIZE -> Byte], WriteAcross(packet)
  PROVE  Stream!WritePacket(packet)
<1> DEFINE tmp_size == maxsize - End
           first == memcpy(buf, End, packet, 0, tmp_size)
           rest == PACKET_SIZE - tmp_size
<1>1. /\ size \in Nat /\ PACKET_SIZE \in Nat /\ pointer \in Nat /\ maxsize \in Nat
      /\ pointer < maxsize /\ size + PACKET_SIZE < maxsize
      /\ pointer + size < maxsize /\ pointer + size + PACKET_SIZE > maxsize
  BY RoomForPacket, RingAssumption DEF TypeOK, Address, WriteAcross, End
<1>2. \A a \in Address :
        first[a] = IF a \in End .. End + tmp_size - 1
                     THEN packet[0 + a - End + 1] ELSE buf[a]
  BY DEF memcpy
<1>3. \A a \in Address :
        buf'[a] = IF a \in 0 .. 0 + rest - 1
                    THEN packet[tmp_size + a - 0 + 1] ELSE first[a]
  <2> HIDE DEF first
  <2>1. buf' = memcpy(first, 0, packet, tmp_size, rest)
    BY DEF WriteAcross, Store, first
  <2> QED BY <2>1 DEF memcpy
<1> HIDE DEF first
<1>4. ASSUME NEW i \in 1 .. size
      PROVE  buf'[At(pointer + i - 1)] = buf[At(pointer + i - 1)]
  <2>1. /\ At(pointer + i - 1) \in Address
        /\ At(pointer + i - 1) \notin End .. End + tmp_size - 1
        /\ At(pointer + i - 1) \notin 0 .. 0 + rest - 1
    BY <1>1 DEF At, Address, End
  <2> QED BY <1>2, <1>3, <2>1
<1>5. ASSUME NEW i \in 1 .. PACKET_SIZE
      PROVE  buf'[At(pointer + size + i - 1)] = packet[i]
  <2> DEFINE a == At(pointer + size + i - 1)
  <2>1. a \in Address
    BY <1>1 DEF At, Address
  <2>2. CASE i <= tmp_size
    <3>1. /\ a \in End .. End + tmp_size - 1 /\ a \notin 0 .. 0 + rest - 1
          /\ 0 + a - End + 1 = i
      BY <1>1, <2>2 DEF At, End
    <3> QED BY <1>2, <1>3, <2>1, <3>1
  <2>3. CASE i > tmp_size
    <3>1. a \in 0 .. 0 + rest - 1 /\ tmp_size + a - 0 + 1 = i
      BY <1>1, <2>3 DEF At, End
    <3> QED BY <1>3, <2>1, <3>1
  <2> QED BY <1>1, <2>2, <2>3 DEF End
<1> QED BY <1>4, <1>5, Appended DEF WriteAcross, Store

\* A read returns the oldest bytes and leaves the others.
LEMMA ReadStep ==
  ASSUME TypeOK, TypeOK', NEW cnt \in 0 .. maxsize, Read(cnt)
  PROVE  \E n \in 0 .. Len(Content) : Stream!ReadBytes(n)
<1> DEFINE n == ReadLength(cnt)
           tmp_size == maxsize - pointer
<1>1. /\ size \in Nat /\ pointer \in Nat /\ maxsize \in Nat /\ pointer < maxsize
      /\ size <= maxsize /\ n \in 0 .. size
  BY RingAssumption DEF TypeOK, Address, ReadLength
<1>2. /\ Content \in Seq(Byte) /\ Len(Content) = size
      /\ \A i \in 1 .. size : Content[i] = buf[At(pointer + i - 1)]
  BY ContentSeq
<1>3. /\ Content' \in Seq(Byte) /\ Len(Content') = size - n
      /\ \A i \in 1 .. size - n : Content'[i] = buf[At(pointer' + i - 1)]
  <2>1. size' = size - n /\ buf' = buf
    BY DEF Read
  <2> QED BY <2>1, ContentSeq
<1>4. \A i \in 1 .. size : Content[i] \in Byte
  BY <1>2, ElementOfSeq
<1> HIDE DEF n
<1>5. result' = SubSeq(Content, 1, n)
  <2>1. result' = [i \in 1 .. n |-> IF Wraps(n) /\ i > tmp_size THEN buf[i - tmp_size - 1]
                                                         ELSE buf[pointer + i - 1]]
    BY DEF Read, n
  <2>2. /\ SubSeq(Content, 1, n) \in Seq(Byte)
        /\ Len(SubSeq(Content, 1, n)) = n
        /\ \A i \in 1 .. n : SubSeq(Content, 1, n)[i] = Content[i]
    <3>1. \A i \in 1 .. n : Content[i] \in Byte
      BY <1>1, <1>4
    <3>2. /\ SubSeq(Content, 1, n) \in Seq(Byte)
          /\ Len(SubSeq(Content, 1, n)) = IF 1 <= n THEN n - 1 + 1 ELSE 0
          /\ \A i \in 1 .. n - 1 + 1 : SubSeq(Content, 1, n)[i] = Content[1 + i - 1]
      BY <1>1, <3>1, SubSeqProperties
    <3> QED BY <1>1, <3>2
  <2>3. ASSUME NEW i \in 1 .. n PROVE result'[i] = Content[i]
    <3>1. Content[i] = buf[At(pointer + i - 1)]
      BY <1>1, <1>2
    <3>2. CASE Wraps(n) /\ i > tmp_size
      <4>1. At(pointer + i - 1) = i - tmp_size - 1
        BY <1>1, <3>2 DEF At
      <4> QED BY <2>1, <3>1, <3>2, <4>1
    <3>3. CASE ~(Wraps(n) /\ i > tmp_size)
      <4>1. At(pointer + i - 1) = pointer + i - 1
        BY <1>1, <3>3 DEF At, Wraps
      <4> QED BY <2>1, <3>1, <3>3, <4>1
    <3> QED BY <3>2, <3>3
  <2>4. result' \in Seq(Byte) /\ Len(result') = n
    <3>1. \A i \in 1 .. n : result'[i] \in Byte
      BY <1>1, <1>4, <2>3
    <3>2. result' \in [1 .. n -> Byte]
      BY <2>1, <3>1
    <3> QED BY <1>1, <3>2, FunctionIsSeq
  <2> QED BY <2>2, <2>3, <2>4, SeqEqual
<1>6. Content' = SubSeq(Content, n+1, Len(Content))
  <2>1. pointer' = IF Wraps(n) THEN n - tmp_size ELSE pointer + n
    BY DEF Read, n
  <2>2. /\ SubSeq(Content, n+1, size) \in Seq(Byte)
        /\ Len(SubSeq(Content, n+1, size)) = size - n
        /\ \A i \in 1 .. size - n : SubSeq(Content, n+1, size)[i] = Content[n + i]
    <3>1. \A i \in n+1 .. size : Content[i] \in Byte
      BY <1>1, <1>4
    <3>2. /\ SubSeq(Content, n+1, size) \in Seq(Byte)
          /\ Len(SubSeq(Content, n+1, size)) = IF n+1 <= size THEN size - (n+1) + 1 ELSE 0
          /\ \A i \in 1 .. size - (n+1) + 1 :
               SubSeq(Content, n+1, size)[i] = Content[(n+1) + i - 1]
      BY <1>1, <3>1, SubSeqProperties
    <3> QED BY <1>1, <3>2
  <2>3. ASSUME NEW i \in 1 .. size - n PROVE Content'[i] = Content[n + i]
    <3>1. At(pointer' + i - 1) = At(pointer + (n + i) - 1)
      BY <1>1, <2>1 DEF At, Wraps
    <3>2. Content[n + i] = buf[At(pointer + (n + i) - 1)]
      BY <1>1, <1>2
    <3> QED BY <1>3, <3>1, <3>2
  <2>4. Content' = SubSeq(Content, n+1, size)
    BY <1>3, <2>2, <2>3, SeqEqual
  <2> QED BY <1>2, <2>4
<1> QED BY <1>1, <1>2, <1>5, <1>6 DEF Stream!ReadBytes

\* An open forgets what was not read.
LEMMA OpenStep == ASSUME Open PROVE Stream!Reopen
<1>1. Content' = <<>>
  BY DEF Open, Content
<1> QED BY <1>1 DEF Open, Stream!Reopen

\* Every operation of the ring is one of the stream.
LEMMA StreamStep ==
  ASSUME TypeOK, TypeOK', [Next]_vars
  PROVE  [Stream!StreamNext]_<<Content, result>>
<1>1. ASSUME NEW packet \in [1 .. PACKET_SIZE -> Byte],
             WriteWrapped(packet) \/ WriteAcross(packet) \/ WriteInside(packet)
      PROVE  Stream!StreamNext
  <2>1. Stream!WritePacket(packet)
    BY <1>1, WriteWrappedStep, WriteAcrossStep, WriteInsideStep
  <2> QED BY <2>1 DEF Stream!StreamNext
<1>2. ASSUME NEW cnt \in 0 .. maxsize, Read(cnt) PROVE Stream!StreamNext
  BY <1>2, ReadStep DEF Stream!StreamNext
<1>3. CASE Open
  BY <1>3, OpenStep DEF Stream!StreamNext
<1>4. CASE UNCHANGED vars
  BY <1>4 DEF vars, Content
<1> QED BY <1>1, <1>2, <1>3, <1>4 DEF Next

\* The ring is the byte stream its readers expect, for any size of buffer and
\* packet: in memcpy's three cases and in the read that goes round the end.
THEOREM RingRefinement == Spec => ImplementsStream
<1>1. Init => Stream!StreamInit
  <2>1. ASSUME Init PROVE Content = <<>>
    BY <2>1 DEF Init, Content
  <2> QED BY <2>1 DEF Init, Stream!StreamInit
<1>2. TypeOK /\ TypeOK' /\ [Next]_vars => [Stream!StreamNext]_<<Content, result>>
  BY StreamStep
<1> QED BY <1>1, <1>2, RingTyping, PTL DEF Spec, ImplementsStream, Stream!StreamSpec
=============================================================================
