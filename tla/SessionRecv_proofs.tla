------------------------- MODULE SessionRecv_proofs -------------------------
(***************************************************************************)
(* Proofs about the receive path, for every size of header, packet and     *)
(* buffer that satisfies the layout assumption -- the code's are 4, 65535, *)
(* 65536 and 10 buffers.                                                   *)
(*                                                                         *)
(* The argument: when OnRecv stops, what is left is part of one packet,    *)
(* hence shorter than a buffer.  If it starts in the last of the three     *)
(* buffers or more, there is as much room in front of it as it is long,    *)
(* so memcpy's areas are disjoint, and behind it when it has been moved.   *)
(***************************************************************************)
EXTENDS SessionRecv, TLAPS

IInv ==
    /\ TypeOK
    /\ StreamIntact
    /\ RoomForPacket
    /\ NoPacketHeldBack
    /\ NeverOverflows

-----------------------------------------------------------------------------

\* The capacity holds three buffers.
LEMMA ThreeBuffers == Capacity \in Nat /\ Capacity >= 3 * BufferSize
<1>1. \A b, c \in Nat : c >= 3 => b * c \in Nat /\ b * c >= 3 * b
  <2> SUFFICES ASSUME NEW b \in Nat, NEW c \in Nat, c >= 3
               PROVE  b * c \in Nat /\ b * c >= 3 * b
    OBVIOUS
  <2>1. PICK d \in Nat : c = d + 3
    <3>1. c - 3 \in Nat /\ c = (c - 3) + 3
      OBVIOUS
    <3>2. QED
      BY <3>1
  <2>2. b * c = b * d + 3 * b /\ b * d \in Nat
    BY <2>1
  <2>3. QED
    BY <2>2
<1>2. QED
  BY <1>1, SizesAssumption, LayoutAssumption DEF Capacity

\* As long as the stream is intact, OnRecv reads the size the peer wrote.
LEMMA HeaderIsPeers ==
    ASSUME TypeOK, StreamIntact
    PROVE  HeaderRead = {frame}
<1>1. ASSUME Left >= HeaderSize, NEW i \in 0..HeaderSize - 1
      PROVE  buffer[ParsePos + i] = Parsed + i
  <2>1. processLen + i \in 0..DataSize - 1
    BY <1>1, SizesAssumption DEF TypeOK, Left, DataSize
  <2>2. buffer[readPos + (processLen + i)] = (arrived - DataSize) + (processLen + i)
    BY <2>1 DEF StreamIntact
  <2>3. /\ readPos + (processLen + i) = ParsePos + i
        /\ (arrived - DataSize) + (processLen + i) = Parsed + i
    BY <1>1, <2>1, ThreeBuffers, SizesAssumption
    DEF TypeOK, ParsePos, Parsed, Left, DataSize
  <2>4. QED
    BY <2>2, <2>3
<1>2. QED
  BY <1>1 DEF HeaderRead

\* The initial state satisfies the inductive invariant.
LEMMA InitInv == Init => IInv
BY ThreeBuffers, SizesAssumption, LayoutAssumption
DEF Init, IInv, TypeOK, StreamIntact, RoomForPacket, NoPacketHeldBack,
    NeverOverflows, DataSize, FreeSize, Positions, Bytes, Garbage, Phases

-----------------------------------------------------------------------------

\* A completed receive extends the stream at its end.
LEMMA ReceiveStep ==
    ASSUME IInv, NEW n \in 1..Capacity, ProcessRecv(n)
    PROVE  IInv'
<1> USE SizesAssumption, ThreeBuffers DEF IInv, TypeOK, DataSize, FreeSize
<1>1. n <= FreeSize /\ n \in Nat \ {0}
  BY DEF ProcessRecv, RoomForPacket
<1>2. /\ phase' = "parsing" /\ writePos' = writePos + n /\ arrived' = arrived + n
      /\ processLen' = 0 /\ readPos' = readPos /\ room' = room /\ frame' = frame
      /\ connected' = connected
      /\ buffer' = [i \in Positions |->
                      IF i \in writePos..writePos + n - 1
                      THEN arrived + (i - writePos) ELSE buffer[i]]
  BY <1>1 DEF ProcessRecv
<1>3. buffer' \in [Positions -> Bytes]
  <2>1. ASSUME NEW i \in Positions
        PROVE  (IF i \in writePos..writePos + n - 1
                THEN arrived + (i - writePos) ELSE buffer[i]) \in Bytes
    BY <1>1 DEF Bytes, Positions
  <2>2. QED
    BY <1>2, <2>1
<1>4. TypeOK'
  BY <1>1, <1>2, <1>3 DEF Phases, ProcessRecv
<1>5. StreamIntact'
  <2> SUFFICES ASSUME NEW i \in 0..DataSize' - 1
               PROVE  buffer'[readPos + i] = (arrived' - DataSize') + i
    BY <1>2 DEF StreamIntact
  <2>1. arrived' - DataSize' = arrived - DataSize /\ readPos + i \in Positions
    BY <1>1, <1>2 DEF Positions
  <2>2. CASE i < DataSize
    <3>1. readPos + i < writePos /\ i \in 0..DataSize - 1
      BY <2>2
    <3>2. buffer'[readPos + i] = buffer[readPos + i]
      BY <1>2, <2>1, <3>1
    <3>3. QED
      BY <2>1, <3>1, <3>2 DEF StreamIntact
  <2>3. CASE i >= DataSize
    <3>1. readPos + i \in writePos..writePos + n - 1
      BY <1>1, <1>2, <2>3
    <3>2. buffer'[readPos + i] = arrived + (readPos + i - writePos)
      BY <1>2, <2>1, <3>1
    <3>3. QED
      BY <1>1, <1>2, <2>1, <3>2
  <2>4. QED
    BY <2>2, <2>3
<1>6. QED
  BY <1>2, <1>4, <1>5 DEF RoomForPacket, NoPacketHeldBack, NeverOverflows

\* Parsing a packet moves the parse position to the end of it.
LEMMA ParseStep ==
    ASSUME IInv, ParsePacket
    PROVE  IInv'
<1> USE SizesAssumption, ThreeBuffers DEF IInv, TypeOK, DataSize, FreeSize
<1>1. processLen' = processLen + frame /\ Left >= frame
  BY HeaderIsPeers DEF ParsePacket, PacketComplete
<1>2. TypeOK'
  BY <1>1 DEF ParsePacket, Left, FrameSizes
<1>3. QED
  BY <1>2 DEF ParsePacket, StreamIntact, RoomForPacket, NoPacketHeldBack, NeverOverflows

\* What OnRecv leaves is shorter than a buffer, and Clean keeps all of it.
LEMMA CleanKeepsStream ==
    ASSUME IInv, NEW r \in readPos..writePos, Clean(r),
           writePos - r < BufferSize, arrived' = arrived
    PROVE  /\ readPos' \in 0..Capacity /\ writePos' \in readPos'..Capacity
           /\ buffer' \in [Positions -> Bytes]
           /\ DataSize' = writePos - r
           /\ FreeSize' \in BufferSize..Capacity
           /\ StreamIntact'
<1> USE SizesAssumption, ThreeBuffers DEF IInv, TypeOK, DataSize, FreeSize
<1> DEFINE size == writePos - r
<1>a. size \in Nat /\ r \in Nat /\ size < BufferSize /\ size <= DataSize
  OBVIOUS
<1>b. \A i \in 0..size - 1 : buffer[r + i] = (arrived - size) + i
  <2> SUFFICES ASSUME NEW i \in 0..size - 1
               PROVE  buffer[r + i] = (arrived - size) + i
    OBVIOUS
  <2>1. (r - readPos) + i \in 0..DataSize - 1
    BY <1>a
  <2>2. buffer[readPos + ((r - readPos) + i)] = (arrived - DataSize) + ((r - readPos) + i)
    BY <2>1 DEF StreamIntact
  <2>3. /\ readPos + ((r - readPos) + i) = r + i
        /\ (arrived - DataSize) + ((r - readPos) + i) = (arrived - size) + i
    BY <1>a
  <2>4. QED
    BY <2>2, <2>3
<1>1. CASE size = 0 /\ readPos' = 0 /\ writePos' = 0 /\ UNCHANGED buffer
  BY <1>1 DEF StreamIntact
<1>2. CASE size # 0 /\ FreeSize >= BufferSize /\ readPos' = r /\ UNCHANGED <<writePos, buffer>>
  <2>1. DataSize' = size /\ FreeSize' >= BufferSize
    BY <1>2
  <2>2. StreamIntact'
    BY <1>2, <1>b, <2>1 DEF StreamIntact
  <2>3. QED
    BY <1>2, <1>a, <2>1, <2>2
<1>3. CASE /\ size # 0 /\ FreeSize < BufferSize
           /\ MoveToFront(r, size)
           /\ readPos' = 0 /\ writePos' = size
  <2>1. size <= r /\ r + size <= Capacity
    BY <1>3, <1>a
  <2>2. buffer' = [i \in Positions |-> IF i < size THEN buffer[r + i] ELSE buffer[i]]
    BY <1>3, <1>a, <2>1 DEF MoveToFront
  <2>3. buffer' \in [Positions -> Bytes]
    <3>1. ASSUME NEW i \in Positions
          PROVE  (IF i < size THEN buffer[r + i] ELSE buffer[i]) \in Bytes
      BY <1>a, <2>1 DEF Positions
    <3>2. QED
      BY <2>2, <3>1
  <2>4. DataSize' = size /\ FreeSize' >= BufferSize
    BY <1>3, <1>a
  <2>5. StreamIntact'
    <3> SUFFICES ASSUME NEW i \in 0..size - 1
                 PROVE  buffer'[0 + i] = (arrived - size) + i
      BY <1>3, <2>4 DEF StreamIntact
    <3>1. i \in Positions
      BY <1>a, <2>1 DEF Positions
    <3>2. QED
      BY <1>a, <1>b, <2>2, <3>1
  <2>6. QED
    BY <1>3, <1>a, <2>1, <2>3, <2>4, <2>5
<1>4. QED
  BY <1>1, <1>2, <1>3, Zenon DEF Clean

\* When OnRecv stops, the session goes on receiving from a clean buffer.
LEMMA EndParseStep ==
    ASSUME IInv, EndParse
    PROVE  IInv'
<1> USE SizesAssumption, LayoutAssumption, ThreeBuffers
    DEF IInv, TypeOK, DataSize
<1> DEFINE r == readPos + processLen
<1>1. Left < HeaderSize \/ Left < frame
  BY HeaderIsPeers DEF EndParse, PacketComplete, Left, FrameSizes
<1>2. /\ r \in readPos..writePos /\ writePos - r = Left
      /\ writePos - r < BufferSize
  BY <1>1 DEF Left, FrameSizes
<1>3. Clean(r) /\ RegisterRecv /\ UNCHANGED <<frame, arrived>> /\ processLen' = 0
  BY DEF EndParse
<1>4. /\ readPos' \in 0..Capacity /\ writePos' \in readPos'..Capacity
      /\ buffer' \in [Positions -> Bytes]
      /\ DataSize' = Left
      /\ FreeSize' \in BufferSize..Capacity
      /\ StreamIntact'
  BY <1>2, <1>3, CleanKeepsStream
<1>5. /\ connected' \in BOOLEAN /\ room' \in 0..Capacity
      /\ phase' \in Phases /\ phase' # "overflow"
      /\ phase' = "waiting" => room' = FreeSize'
  <2>1. FreeSize' \in 0..Capacity
    BY <1>4
  <2>2. connected' \in BOOLEAN
    BY <1>3 DEF RegisterRecv
  <2>3. /\ phase' \in {"waiting", "closed", "deaf"}
        /\ phase' = "waiting" => room' = FreeSize'
        /\ room' = room \/ room' = FreeSize'
    BY <1>3 DEF RegisterRecv
  <2>4. QED
    BY <2>1, <2>2, <2>3 DEF Phases
<1>6. TypeOK'
  <2>1. Left <= arrived /\ Left \in Nat
    BY <1>2 DEF Left
  <2>2. processLen' \in 0..DataSize' /\ DataSize' <= arrived'
    <3>1. processLen' = 0 /\ arrived' = arrived /\ DataSize' = Left
      BY <1>3, <1>4
    <3>2. QED
      BY <2>1, <3>1
  <2>3. frame' \in FrameSizes /\ arrived' \in 0..MaxBytes
    BY <1>3
  <2>4. QED
    BY <1>4, <1>5, <2>2, <2>3
<1>7. RoomForPacket'
  BY <1>4, <1>5 DEF RoomForPacket
<1>8. NoPacketHeldBack'
  BY <1>1, <1>3, <1>4 DEF NoPacketHeldBack
<1>9. QED
  BY <1>4, <1>5, <1>6, <1>7, <1>8 DEF NeverOverflows

\* The invariant is inductive.
THEOREM InductiveInvariant == Spec => []IInv
<1>1. ASSUME IInv, [Next]_vars PROVE IInv'
  <2> USE DEF IInv, TypeOK, StreamIntact, RoomForPacket, NoPacketHeldBack,
          NeverOverflows, DataSize, FreeSize, Phases
  <2>1. CASE ProcessRecvZero
    BY <1>1, <2>1 DEF ProcessRecvZero
  <2>2. CASE \E n \in 1..Capacity : ProcessRecv(n)
    BY <1>1, <2>2, ReceiveStep
  <2>3. CASE ParsePacket
    BY <1>1, <2>3, ParseStep
  <2>4. CASE EndParse
    BY <1>1, <2>4, EndParseStep
  <2>5. CASE Disconnect
    BY <1>1, <2>5 DEF Disconnect
  <2>6. CASE UNCHANGED vars
    BY <1>1, <2>6 DEF vars
  <2>7. QED
    BY <1>1, <2>1, <2>2, <2>3, <2>4, <2>5, <2>6 DEF Next
<1>2. QED
  BY InitInv, <1>1, PTL DEF Spec

\* Type correctness: positions stay in order and inside the buffer.
THEOREM TypeCorrect == Spec => []TypeOK
BY InductiveInvariant, PTL DEF IInv

\* The bytes between the positions are the next bytes of the stream.
THEOREM StreamStaysIntact == Spec => []StreamIntact
BY InductiveInvariant, PTL DEF IInv

\* Every WSARecv is offered room for the largest packet.
THEOREM AlwaysRoom == Spec => []RoomForPacket
BY InductiveInvariant, PTL DEF IInv

\* A complete packet is dispatched before the next receive is registered.
THEOREM NothingHeldBack == Spec => []NoPacketHeldBack
BY InductiveInvariant, PTL DEF IInv

\* Neither overflow check of ProcessRecv ever fires.
THEOREM NoOverflow == Spec => []NeverOverflows
BY InductiveInvariant, PTL DEF IInv

-----------------------------------------------------------------------------
(* The receive path implements the packet stream. *)

\* Nothing has been parsed of what is yet to be received.
Rested == phase = "waiting" => processLen = 0

\* What the abstract stream counts, in terms of the buffer: all of a packet
\* has arrived exactly when the parse position has that many bytes behind it.
LEMMA CompleteIsLeft ==
    ASSUME TypeOK
    PROVE  /\ Parsed \in Int /\ Left \in Nat /\ frame \in Nat \ {0}
           /\ Stream!Complete <=> Left >= frame
BY SizesAssumption DEF TypeOK, Parsed, Left, DataSize, Stream!Complete, FrameSizes, Capacity

\* Bytes arrive only when no packet is complete.
LEMMA ReceiveIsArrival ==
    ASSUME IInv, Rested, NEW n \in 1..Capacity, ProcessRecv(n)
    PROVE  Stream!Arrive /\ Rested'
<1>1. IInv'
  BY ReceiveStep
<1>2. phase = "waiting" /\ arrived' = arrived + n /\ n \in Nat \ {0}
  BY ThreeBuffers DEF ProcessRecv
<1>3. phase' = "parsing" /\ writePos' = writePos + n /\ processLen' = 0 /\ UNCHANGED <<readPos, frame>>
  <2>1. phase' # "overflow"
    BY <1>1 DEF IInv, NeverOverflows
  <2> QED
    BY <2>1 DEF ProcessRecv
<1>4. Parsed' = Parsed
  BY <1>2, <1>3 DEF IInv, TypeOK, Rested, Parsed, Left, DataSize
<1>5. ~Stream!Complete
  <2>1. Left < HeaderSize \/ Left < frame
    BY <1>2 DEF IInv, NoPacketHeldBack, Rested, Left, TypeOK, DataSize
  <2>2. Left < frame
    BY <2>1, CompleteIsLeft, SizesAssumption DEF IInv, TypeOK, FrameSizes
  <2> QED
    BY <2>2, CompleteIsLeft, SizesAssumption DEF IInv, TypeOK, FrameSizes
<1>6. arrived' \in Nat /\ arrived' > arrived
  BY <1>2 DEF IInv, TypeOK
<1> QED
  BY <1>2, <1>3, <1>4, <1>5, <1>6 DEF Stream!Arrive, Rested

\* A parsed packet is the one that is next, and all of it.
LEMMA ParseIsHandOver ==
    ASSUME IInv, ParsePacket
    PROVE  Stream!HandOver /\ Rested'
<1>1. /\ phase = "parsing" /\ phase' = phase /\ frame' \in FrameSizes
      /\ UNCHANGED <<readPos, writePos, arrived>>
      /\ processLen' = processLen + frame /\ Left >= frame
  BY HeaderIsPeers DEF IInv, ParsePacket, PacketComplete
<1>2. Parsed' = Parsed + frame
  BY <1>1, CompleteIsLeft DEF IInv, TypeOK, Parsed, Left, DataSize
<1>3. Stream!Complete
  BY <1>1, CompleteIsLeft DEF IInv
<1> QED
  BY <1>1, <1>2, <1>3 DEF Stream!HandOver, Rested

\* When OnRecv stops the stream is as it was, or is given up.
LEMMA EndParseIsRestOrClose ==
    ASSUME IInv, EndParse
    PROVE  Rested' /\ (Stream!Close \/ UNCHANGED Stream!vars)
<1>1. IInv'
  BY EndParseStep
<1>2. /\ phase = "parsing" /\ UNCHANGED <<frame, arrived>> /\ processLen' = 0
      /\ processLen <= DataSize
  BY DEF EndParse, IInv, TypeOK, DataSize
<1>3. Clean(readPos + processLen)
  BY <1>2 DEF EndParse
<1>4. Left < frame
  <2>1. TypeOK
    BY DEF IInv
  <2>2. Left \in Nat /\ frame \in Nat /\ HeaderSize \in Nat /\ HeaderSize <= frame
    BY <2>1, CompleteIsLeft, SizesAssumption DEF TypeOK, FrameSizes
  <2>3. ~(Left >= HeaderSize /\ Left >= frame)
    BY HeaderIsPeers DEF EndParse, PacketComplete, IInv
  <2> QED
    BY <2>2, <2>3
<1>5. ~Stream!Complete
  BY <1>4, CompleteIsLeft, SizesAssumption DEF IInv, TypeOK, FrameSizes
<1>6. DataSize' = Left
  BY <1>3, SizesAssumption DEF Clean, DataSize, Left, IInv, TypeOK
<1>7. Parsed' = Parsed
  BY <1>2, <1>6, CompleteIsLeft DEF Parsed, Left, IInv, TypeOK
<1> QED
  BY <1>2, <1>5, <1>7 DEF Stream!Close, Stream!vars, Rested

\* The receive path hands the peer's packets over one by one, whole, in order
\* and each once, all that have arrived before it receives more, and gives the
\* stream up only in between: for every size of packets and buffers that the
\* layout allows, and however the bytes arrive.
THEOREM ReceivesPacketStream == Spec => ImplementsStream
<1>1. Init => Rested /\ Stream!Init
  BY DEF Init, Rested, Stream!Init, Parsed, Left, DataSize
<1>2. ASSUME IInv, Rested, [Next]_vars
      PROVE  Rested' /\ [Stream!Next]_Stream!vars
  <2>1. CASE ProcessRecvZero
    <3>1. /\ phase = "waiting" /\ phase' = "closed"
          /\ UNCHANGED <<readPos, writePos, processLen, frame, arrived>>
      BY <2>1 DEF ProcessRecvZero
    <3>2. Left = DataSize /\ ~Stream!Complete
      BY <1>2, <3>1, CompleteIsLeft, SizesAssumption
         DEF IInv, TypeOK, NoPacketHeldBack, Rested, Left, DataSize, FrameSizes
    <3>3. Parsed' = Parsed
      BY <3>1 DEF Parsed, Left, DataSize
    <3> QED
      BY <3>1, <3>2, <3>3 DEF Stream!Next, Stream!Close, Rested
  <2>2. CASE \E n \in 1..Capacity : ProcessRecv(n)
    BY <1>2, <2>2, ReceiveIsArrival DEF Stream!Next
  <2>3. CASE ParsePacket
    BY <1>2, <2>3, ParseIsHandOver DEF Stream!Next
  <2>4. CASE EndParse
    BY <1>2, <2>4, EndParseIsRestOrClose DEF Stream!Next
  <2>5. CASE Disconnect \/ UNCHANGED vars
    BY <1>2, <2>5 DEF Disconnect, vars, Rested, Stream!vars, Parsed, Left, DataSize
  <2> QED
    BY <1>2, <2>1, <2>2, <2>3, <2>4, <2>5 DEF Next
<1>3. IInv /\ Rested /\ [Next]_vars => Rested' /\ [Stream!Next]_Stream!vars
  BY <1>2
<1> QED
  BY <1>1, <1>3, InductiveInvariant, PTL DEF Spec, ImplementsStream, Stream!Spec
=============================================================================
