SPECIFICATION FairWriteSpec
CONSTANTS
    MaxPacket = 2
    MaxTransfer = 3
    MaxLength = 7
INVARIANT BufferOnWire
PROPERTY WriteEnds
