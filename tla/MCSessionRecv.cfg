CONSTANTS
    HeaderSize = 2
    MaxPacket = 4
    BufferSize = 4
    BufferCount = 3
    MaxBytes = 20

SPECIFICATION Spec

INVARIANTS
    StreamIntact
    RoomForPacket
    NoPacketHeldBack

PROPERTY ImplementsStream

CHECK_DEADLOCK FALSE
