SPECIFICATION Spec
CONSTANTS
    Atomic64 = FALSE
    Base = 4
    Rulesets <- SmallRulesets
    Windows <- MCWindows
    Environments <- MCEnvironments
    Default <- MCDefault
INVARIANTS
    VerdictsJustified
