\* The GX pipeline: safety, refinement and progress, under every interleaving.
SPECIFICATION FairSpec
CONSTANTS
    Streams <- MCStreams
    Chunk = 2
    MaxSizable = 4
    Budget = 3
    RingCap = 10
    BufCap = 8
    CarryCap = 6
    UnsafeStreams <- MCUnsafeStreams
INVARIANTS
    TypeOK
    GxExclusive
    ScannerAgrees
    NeverPoisoned
    NoMissedWake
PROPERTIES
    ImplementsConsumer
    WaitsEnd
    PushedIsDecoded
\* The run ends when gcn_gx_pipeline_shutdown returns.
CHECK_DEADLOCK FALSE
