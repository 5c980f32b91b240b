SPECIFICATION Spec
CONSTANTS
    Traffic <- MCTraffic
    NoQuery = NoQuery
    NoFlow = NoFlow
    NoRecord = NoRecord
    Thresholds <- MCThresholds
    StatsSeconds = 2
    RulesSeconds = 4
    MinEndpoints = 2
    MaxAlerts = 4
    WindowSeconds = 2
    WindowCapacity = 4
    FlowCapacity = 2
    DnsCapacity = 2
    FxCapacity = 3
    FxSample = 2
    ActivityCapacity = 2
    RosterCapacity = 2
    OnlineSeconds = 3
    Modulus = 1000
    Hash <- MCHash
    Leases <- MCLeases
    MaxBoot = 1
    MaxTime = 7
    MaxPackets = 4
    ClockJumps = FALSE
INVARIANTS
    TypeOK
    CountedTwiceAtMost
    QueriesReportedOnce
    RulesSyncPaced
    AlertNamesItsFlow
PROPERTIES
    AlertsNameTopTalkers
