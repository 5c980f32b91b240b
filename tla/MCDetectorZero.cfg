SPECIFICATION Spec
CONSTANTS
    Atomic64 = TRUE
    Base = 4
    Rulesets <- ClearingRulesets
    Windows <- MCWindows
    Environments <- MCEnvironments
    Default <- MCDefault
INVARIANTS
    ZeroIsNoThreshold
