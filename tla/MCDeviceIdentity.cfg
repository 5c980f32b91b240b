SPECIFICATION Spec
CONSTANTS
    Ids = {d1, d2, d3, d4}
    EnvId = EnvId
    NoId = NoId
    Absent = Absent
    MaxBoots = 4
INVARIANTS
    TypeOK
    StableUntilTorn
    PreassignedWins
    DevicesExplained
PROPERTIES
    NewDeviceOnlyWhenNew
