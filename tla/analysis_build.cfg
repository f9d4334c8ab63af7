\* Builds of the analysis, killed and restarted, over a legacy context.
SPECIFICATION Spec
CONSTANTS
    None = None
    Torn = Torn
    DefaultAsOf = 0
    DemoAsOf = 0
    Legacy <- MCLegacy
    CanCrash = TRUE
    InputsSettle = TRUE
    MaxTime = 2
    MaxChanges = 1
    MaxRuns = 3
INVARIANTS
    OneBuild
    OneIdentityOneContent
    CheckVouches
PROPERTIES
    AsOfAdvances
CHECK_DEADLOCK FALSE
