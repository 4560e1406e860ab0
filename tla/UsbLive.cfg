SPECIFICATION FairSpec
CONSTANTS
    PacketSize = 2
    HIDSERIAL_INBUFFER_SIZE = 4
    Chunks = 3
    HostGivesUp = FALSE
    HostPaced = TRUE
    DescriptorLength <- MCDescriptorLength
    FrameSizes <- MCLongFrame
    Requests <- MCTransfers
INVARIANT
    SetupIsAccepted
PROPERTIES
    PipeIsImplemented
    TransferEnds
    WriteEnds
