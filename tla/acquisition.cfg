\* An automated source and a manual one, one record of each.
SPECIFICATION Spec
CONSTANTS
    None = None
    SyntheticSource = SyntheticSource
    API = API
    MAN = MAN
    rate = rate
    notice = notice
    Sources = {API, MAN}
    RecordIds = {rate, notice}
    Observations = {rate}
    Imprints = {1, 2}
    SourceOf <- MCSourceOf
    InitialTerms <- MCTerms
    Starts <- MCStarts
    TermChoices <- MCTermChoices
    RequiredSources = {API}
    Purposes <- MCPurposes
    FreshFor = 0
    StaleFor = 1
    MaxRuns = 4
    MaxEvents = 2
    MaxTime = 2
    MaxOps = 2
INVARIANTS
    WalkSound
    WalkAgrees
    OnlyVouched
    HealthAgrees
    WithinTerms
    SufficientIsDelivered
PROPERTIES
    PastIsSettled
CHECK_DEADLOCK FALSE
