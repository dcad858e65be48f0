---------------------------- MODULE SessionRecv -----------------------------
(***************************************************************************)
(* The receiving half of a Session: the one outstanding WSARecv, the       *)
(* RecvBuffer it writes into, and PacketSession::OnRecv, which cuts the    *)
(* byte stream into packets [size(2)][id(2)][data...].                     *)
(*                                                                         *)
(* A byte is its offset in the stream the peer sent, so the contents of    *)
(* the buffer say which part of the stream they hold.  The packets of the  *)
(* stream are drawn as they are needed: "frame" is the size the peer wrote *)
(* into the header of the packet at the parse position.  A peer of this    *)
(* code writes sizes from the header's own size (MakeSendBuffer adds it)   *)
(* to what a uint16 holds.                                                 *)
(*                                                                         *)
(* One worker at a time is here (one receive is outstanding), so the only  *)
(* thing that interleaves is a Disconnect from elsewhere.                  *)
(***************************************************************************)
EXTENDS Integers

CONSTANTS
    HeaderSize,     \* sizeof(PacketHeader)
    MaxPacket,      \* the largest PacketHeader.size, a uint16
    BufferSize,     \* Session::BUFFER_SIZE
    BufferCount,    \* RecvBuffer::BUFFER_COUNT
    MaxBytes        \* bound: length of the stream

ASSUME SizesAssumption ==
    /\ HeaderSize \in Nat \ {0} /\ MaxPacket \in Nat
    /\ BufferSize \in Nat /\ BufferCount \in Nat /\ MaxBytes \in Nat
    /\ HeaderSize <= MaxPacket

\* What the constants of the code have to satisfy: a packet that is not
\* complete is shorter than a buffer, and the capacity is three buffers.
ASSUME LayoutAssumption == MaxPacket <= BufferSize /\ BufferCount >= 3

Capacity == BufferSize * BufferCount
Positions == 0..Capacity - 1
FrameSizes == HeaderSize..MaxPacket

\* What a byte is when nothing says which one it is.
Garbage == -1
Bytes == Nat \cup {Garbage}

VARIABLES
    connected,      \* Session::_connected
    readPos,        \* RecvBuffer::_readPos
    writePos,       \* RecvBuffer::_writePos
    buffer,         \* RecvBuffer::_buffer
    room,           \* wsaBuf.len of the outstanding WSARecv
    processLen,     \* OnRecv's local: what it has parsed
    phase,          \* what the session does with its receive path
    frame,          \* the size in the header at the parse position
    arrived         \* how much of the stream has been received

vars == <<connected, readPos, writePos, buffer, room, processLen, phase, frame,
          arrived>>

\* waiting: a WSARecv is outstanding; deaf: connected, and WSARecv failed
\* with an error that HandleError only logs.
Phases == {"waiting", "parsing", "closed", "deaf", "overflow"}

DataSize == writePos - readPos
FreeSize == Capacity - writePos

Init ==
    /\ connected = TRUE
    /\ readPos = 0
    /\ writePos = 0
    /\ buffer = [i \in Positions |-> Garbage]
    /\ room = Capacity
    /\ processLen = 0
    /\ phase = "waiting"
    /\ frame \in FrameSizes
    /\ arrived = 0

-----------------------------------------------------------------------------
(* Session::ProcessRecv *)

\* The completion of the outstanding receive carries no bytes: the peer closed.
ProcessRecvZero ==
    /\ phase = "waiting"
    /\ phase' = "closed"
    /\ connected' = FALSE
    /\ UNCHANGED <<readPos, writePos, buffer, room, processLen, frame, arrived>>

\* It carries n bytes: OnWrite finds room for them, or the session is
\* disconnected.
ProcessRecv(n) ==
    /\ phase = "waiting"
    /\ n <= room /\ arrived + n <= MaxBytes
    /\ IF n <= FreeSize
       THEN /\ phase' = "parsing"
            /\ buffer' = [i \in Positions |->
                            IF i \in writePos..writePos + n - 1
                            THEN arrived + (i - writePos) ELSE buffer[i]]
            /\ writePos' = writePos + n
            /\ UNCHANGED connected
       ELSE /\ phase' = "overflow"
            /\ connected' = FALSE
            /\ UNCHANGED <<buffer, writePos>>
    /\ arrived' = arrived + n
    /\ processLen' = 0
    /\ UNCHANGED <<readPos, room, frame>>

-----------------------------------------------------------------------------
(* PacketSession::OnRecv *)

ParsePos == readPos + processLen
Left == DataSize - processLen

\* The offset in the stream of the byte that belongs at the parse position.
Parsed == arrived - Left

\* The size read from the buffer: the peer's, if the header's bytes are there.
HeaderRead ==
    IF Left >= HeaderSize =>
          \A i \in 0..HeaderSize - 1 : buffer[ParsePos + i] = Parsed + i
    THEN {frame} ELSE FrameSizes

\* (mutant) A packet is taken only when something follows it.
CompleteAndFollowed(size) == Left >= HeaderSize /\ Left > size

\* (mutant) Only the header has to be there.
HeaderComplete(size) == Left >= HeaderSize

\* The header is there, and everything it announces.
PacketComplete(size) == Left >= HeaderSize /\ Left >= size

\* A complete packet goes to OnRecvPacket.
ParsePacket ==
    /\ phase = "parsing"
    /\ \E size \in HeaderRead :
          /\ PacketComplete(size)
          /\ processLen' = processLen + size
    /\ frame' \in FrameSizes
    /\ UNCHANGED <<connected, readPos, writePos, buffer, room, phase, arrived>>

-----------------------------------------------------------------------------
(* RecvBuffer::Clean, on a read position advanced to "r" *)

\* memcpy to the front; what it does to overlapping areas is undefined.
MoveToFront(r, size) ==
    LET Move(i) == IF i < size THEN buffer[r + i] ELSE buffer[i]
        Smear(i) == IF i < size THEN Garbage ELSE buffer[i]
    IN  \/ buffer' = [i \in Positions |-> Move(i)]
        \/ size > r /\ buffer' = [i \in Positions |-> Smear(i)]

\* (mutant) The data is moved only when there is no room at all.
CleanWhenFull(r) ==
    LET size == writePos - r
    IN  \/ /\ size = 0
           /\ readPos' = 0 /\ writePos' = 0
           /\ UNCHANGED buffer
        \/ /\ size # 0 /\ FreeSize = 0
           /\ MoveToFront(r, size)
           /\ readPos' = 0 /\ writePos' = size
        \/ /\ size # 0 /\ FreeSize # 0
           /\ readPos' = r
           /\ UNCHANGED <<writePos, buffer>>

\* (mutant) The data is moved whenever there is any.
CleanEagerly(r) ==
    LET size == writePos - r
    IN  /\ MoveToFront(r, size)
        /\ readPos' = 0 /\ writePos' = size

Clean(r) ==
    LET size == writePos - r
    IN  \/ /\ size = 0
           /\ readPos' = 0 /\ writePos' = 0
           /\ UNCHANGED buffer
        \/ /\ size # 0 /\ FreeSize < BufferSize
           /\ MoveToFront(r, size)
           /\ readPos' = 0 /\ writePos' = size
        \/ /\ size # 0 /\ FreeSize >= BufferSize
           /\ readPos' = r
           /\ UNCHANGED <<writePos, buffer>>

-----------------------------------------------------------------------------
(* Session::RegisterRecv *)

\* WSARecv takes the operation, or fails with a reset or aborted connection,
\* or with another error.
RegisterRecv ==
    \/ /\ ~connected
       /\ phase' = "closed"
       /\ UNCHANGED <<connected, room>>
    \/ /\ connected
       /\ phase' = "waiting"
       /\ room' = (FreeSize)'
       /\ UNCHANGED connected
    \/ /\ connected
       /\ phase' = "closed"
       /\ connected' = FALSE
       /\ UNCHANGED room
    \/ /\ connected
       /\ phase' = "deaf"
       /\ UNCHANGED <<connected, room>>

\* No complete packet is left: OnRead, Clean, RegisterRecv; or OnRecv claims
\* more than there is and the session is disconnected.
EndParse ==
    /\ phase = "parsing"
    /\ \E size \in HeaderRead : ~PacketComplete(size)
    /\ IF processLen <= DataSize
       THEN Clean(readPos + processLen) /\ RegisterRecv
       ELSE /\ phase' = "overflow"
            /\ connected' = FALSE
            /\ UNCHANGED <<readPos, writePos, buffer, room>>
    /\ processLen' = 0
    /\ UNCHANGED <<frame, arrived>>

\* A packet handler, the send path or another session's broadcast closes the
\* connection; the receive path notices in RegisterRecv.
Disconnect ==
    /\ connected
    /\ connected' = FALSE
    /\ UNCHANGED <<readPos, writePos, buffer, room, processLen, phase, frame,
                   arrived>>

-----------------------------------------------------------------------------

Next ==
    \/ ProcessRecvZero
    \/ \E n \in 1..Capacity : ProcessRecv(n)
    \/ ParsePacket
    \/ EndParse
    \/ Disconnect

Spec == Init /\ [][Next]_vars

-----------------------------------------------------------------------------

\* The positions stay in order and inside the buffer, and OnRecv never claims
\* to have parsed bytes that are not there.
TypeOK ==
    /\ connected \in BOOLEAN
    /\ readPos \in 0..Capacity /\ writePos \in readPos..Capacity
    /\ buffer \in [Positions -> Bytes]
    /\ room \in 0..Capacity
    /\ processLen \in 0..DataSize
    /\ phase \in Phases
    /\ frame \in FrameSizes
    /\ arrived \in 0..MaxBytes /\ DataSize <= arrived

\* The readable part of the buffer is the next part of the stream, gapless and
\* in order, across every move to the front.
StreamIntact ==
    \A i \in 0..DataSize - 1 : buffer[readPos + i] = (arrived - DataSize) + i

\* A receive is only registered with at least one whole buffer free, so the
\* rest of any packet fits and WSARecv is never offered zero bytes.
RoomForPacket == phase = "waiting" => room = FreeSize /\ room >= BufferSize

\* A complete packet is never kept back until more data arrives.
NoPacketHeldBack ==
    phase = "waiting" => DataSize < HeaderSize \/ DataSize < frame

\* The session's own bookkeeping never makes it drop its peer.
NeverOverflows == phase # "overflow"

-----------------------------------------------------------------------------
(* The packets as their handlers see them. *)

Stream == INSTANCE PacketStream WITH
    handled <- Parsed, size <- frame, open <- phase \in {"waiting", "parsing"}

\* The receive path delivers the peer's packets as PacketStream promises.
ImplementsStream == Stream!Spec
=============================================================================
