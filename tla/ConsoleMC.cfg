SPECIFICATION Spec
CONSTANTS
    Programs      <- MCPrograms
    d1            = d1
    header        = header
    directory     = directory
    Discs         = {d1}
    DiscBlocks    = 1
    RamBlocks     = 1
    Latencies     = {1, 2}
    MaxCommands   = 2
    Channels      = {0, 1}
    CardChannel   = 0
    SramWords     = 1
    Values        = {0, 1}
    Sectors       = {header, directory}
    Header        = header
    Ports         = {0, 1}
    Connected     = {0}
    PollDelay     = 1
    PollPeriods   = {0, 1}
    FieldLengths  = {2, 3}
    Displays      = {0}
    SampleCycles  <- MCSampleCycles
    SampleCalls   <- MCSampleCalls
    CountModulus  = 3
    TickCycles    = {1, 4}
    Sources       = {0, 3}
    MaxBlocks     = 2
    AramTicks     = {1, 2}
    FifoSize      = 3
    Gather        = 2
    FifoBudget    = 2
    Watermarks    <- MCWatermarks
    Breaks        = {1}
    Pages         = {0, 1}
    Contents      = {"ipl", "title", "rel"}
    IplPages      = {0}
    IplCode       = "ipl"
    TitlePages    = {0, 1}
    TitleCode     = "title"
    OverlayPages  = {1}
    Variants      = {"ipl", "rel"}
    MainCode      = {"main"}
    Nesting       = 1
    BlockCycles   = {0, 3}
    TbRatio       = 2
    UniformTicks  = 1
    TbModulus     = 2
    DecModulus    = 4
INVARIANTS
    TypeOK
    LinesAgree
    DiOwnDisc
    PolledEveryFrame
    AiOnTime
    AidInBuffer
    FifoExact
    NeverStale
    MissesTrue
    ResumesInterrupted
    TimeKept
    AlarmsKept
PROPERTIES
    SurvivesRestart
    TakenAtBoundary
CHECK_DEADLOCK FALSE
