SPECIFICATION WriteSpec
CONSTANTS
    MaxPacket = 2
    MaxTransfer = 4
    MaxLength = 4
INVARIANT ZlpEveryWrite
