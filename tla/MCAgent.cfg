SPECIFICATION FairSpec
CONSTANTS
    Traffic <- MCTraffic
    NoQuery = NoQuery
    NoFlow = NoFlow
    NoRecord = NoRecord
    StatsSeconds = 1
    RulesSeconds = 2
    MinEndpoints = 2
    MaxAlerts = 4
    WindowSeconds = 1
    WindowCapacity = 3
    FlowCapacity = 1
    DnsCapacity = 1
    FxCapacity = 2
    FxSample = 1
    ActivityCapacity = 1
    RosterCapacity = 1
    OnlineSeconds = 2
    Modulus = 1000
    Hash <- MCHash
    Leases <- MCLeases
    MaxBoot = 0
    MaxTime = 4
    MaxPackets = 4
    ClockJumps = FALSE
    Capacity = 2
    Rulesets <- MCRulesets
    NoJob = NoJob
    NoRuleset = NoRuleset
    Defaults <- MCDefaults
INVARIANTS
    BackendNeverOvercounts
PROPERTIES
    DroppedOnlyWhenOld
    SignalEndsProcess
