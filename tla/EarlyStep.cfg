SPECIFICATION Spec
CONSTANTS
    SERIAL_BUFFER_SIZE = 3
    CEC_E_MAX_RETRANSMIT = 2
    DeviceType = "CDT_TV"
    MonitorMode = FALSE
    Promiscuous = TRUE
    MaxRxBlocks = 2
    HostPaced = TRUE
    Elapsed <- MCElapsed
    Destinations <- MCDestinations
    FrameSizes <- MCFrameSizes
PROPERTY
    InterruptMeansChange
