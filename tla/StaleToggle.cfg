SPECIFICATION Spec
CONSTANTS
    PacketSize = 2
    HIDSERIAL_INBUFFER_SIZE = 4
    Chunks = 2
    HostGivesUp = FALSE
    HostPaced = TRUE
    DescriptorLength <- MCDescriptorLength
    FrameSizes <- MCFrameSizes
    Requests <- MCInterface
INVARIANT
    TogglesAgree
