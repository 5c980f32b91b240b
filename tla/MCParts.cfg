SPECIFICATION PartsSpec
CONSTANTS
    Capacity = 3
    Seconds = 1
    Modulus = 64
    Sizes = {1, 3}
    MaxTime = 2
    MaxPackets = 4
    ClockJumps = TRUE
    NoRecord = NoRecord
    NameSize = 5
    Frames <- MCFrames
    Dot = 256
    BodySize = 12
    Reserve <- MCReserve
    Batches <- MCBatches
    BodyMax = 3
    PipeSize = 1
    Rulesets <- MCRulesets
    WordModulus = 65536
    IntModulus = 256
    IowaitGoesBack = TRUE
    MaxTicks = 3
    Hosts <- MCHosts
    Private <- MCLan
    ActivityMax = 2
    ClientMax = 2
    OnlineSeconds = 2
    Leases <- MCLeases
    RosterTime = 5
INVARIANTS
    PartsTypeOK
    SampleIsLatest
    CountsExact
    FanoutSound
    StalestEvicted
    AggregatesExact
    WindowExact
    ParsesExactly
    CutsOnlyTheTail
    ReportsBusyShare
    RulesetsAreWhole
PROPERTIES
    OnlineIsHonest
    EvictedForAReason
