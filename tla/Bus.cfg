SPECIFICATION Spec
CONSTANTS
    SERIAL_BUFFER_SIZE = 4
    CEC_E_MAX_RETRANSMIT = 2
    Promiscuous = TRUE
    Type1 = "CDT_TV"
    Type2 = "CDT_PLAYBACK_DEVICE"
    Frames = 1
    Pulses = 2
    Lateness <- MCLateness
    Moments <- MCMoments
    FrameSizes <- MCFrameSizes
INVARIANTS
    TypeOK
    HoldsEndInTime
    AcknowledgedIsReceived
    ReceivedIsAcknowledged
    OneInitiator
    FramesBeginOnAFreeLine
    EdgesInPhase
    AcknowledgesEndLast
