\* Audio output with a device that may fail at any call.
SPECIFICATION FairSpec
CONSTANTS
    RingFrames = 3
    StartFrames = 2
    BatchFrames = 2
    BlockFrames = 1
    DeviceFrames = 2
    MaxFrames = 7
INVARIANTS
    TypeOK
    InOrder
    StartedOnCushion
PROPERTIES
    CallsEnd
\* The run ends when gcn_host_audio_stop returns, and the bound stops the guest.
CHECK_DEADLOCK FALSE
