SPECIFICATION Spec
CONSTANTS
    PacketSize = 2
    HIDSERIAL_INBUFFER_SIZE = 4
    Chunks = 1
    HostGivesUp = TRUE
    HostPaced = TRUE
    DescriptorLength <- MCDescriptorLength
    FrameSizes <- MCFrameSizes
    Requests <- MCRequests
INVARIANTS
    TypeOK
    BuffersAreOwned
    AddressesAgree
    ReportIsWhole
PROPERTIES
    PacketIsKept
    RepliesAreFresh
