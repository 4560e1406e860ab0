SPECIFICATION FairSpec
CONSTANTS
    SERIAL_BUFFER_SIZE = 3
    CEC_E_MAX_RETRANSMIT = 2
    DeviceType = "CDT_AUDIO_SYSTEM"
    MonitorMode = FALSE
    Promiscuous = FALSE
    MaxRxBlocks = 2
    HostPaced = TRUE
    Elapsed <- MCElapsed
    Destinations <- MCDestinationsAudio
    FrameSizes <- MCOneFrameSize
INVARIANT
    OnlyFramesForUs
PROPERTIES
    HoldIsReleased
    TransmissionEnds
