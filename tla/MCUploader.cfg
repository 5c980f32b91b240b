SPECIFICATION FairSpec
CONSTANTS
    Capacity = 3
    MaxJobs = 6
    Shapes <- MCShapes
    Rulesets = {r1}
    NoJob = NoJob
    NoRuleset = NoRuleset
INVARIANTS
    FreshestKept
    Accounted
    NoLostWakeUp
    ConfigOutlivesUploader
    IInv
PROPERTIES
    MessagesInOrder
    QueueSpec
    ShutdownCompletes
    QueueFairSpec
