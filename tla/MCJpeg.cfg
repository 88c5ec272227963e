CONSTANTS
    Plans <- MCPlans
    NumMcus = 3
    MaxEobRun = 2
    MaxCorrBits = 66
    MaxLost = 2
    Jobs <- MCJobs
    Settings <- MCSettings
    Junk = 99
    ALIGN_TYPE = 4
    HDR = 4
    CONTROL = 10
    MAX_ALLOC_CHUNK = 32
    MIN_SLOP = 3
    FirstSlop <- MCFirstSlop
    ExtraSlop <- MCExtraSlop
    SmallSizes = {1, 6}
    MaxAccesses = 3
    Clients <- MCClients
    Frames <- MCFrames
SPECIFICATION JpegSpec
INVARIANTS
    DecodedIsEncoded
    NoMissingCode
    OptimalTablesLegal
    NeverStarves
    AlwaysEncodable
    DiscardedCoefsUnused
    ComesBack
    MeanKept
    WithinLimitTable
    NothingLeaks
    ObjectsDisjoint
    StreamReadable
    AllBitsSent
    ColoursKept
PROPERTY KeepsRows
CHECK_DEADLOCK FALSE
