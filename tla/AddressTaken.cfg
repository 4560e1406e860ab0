SPECIFICATION Spec
CONSTANTS
    SERIAL_BUFFER_SIZE = 4
    CEC_E_MAX_RETRANSMIT = 2
    Promiscuous = TRUE
    Type1 = "CDT_TV"
    Type2 = "CDT_TV"
    Frames = 1
    Pulses = 1
    Lateness <- MCLateness
    Moments <- MCMoments
    FrameSizes <- MCFrameSizes
INVARIANT
    UniqueAddresses
