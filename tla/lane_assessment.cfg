SPECIFICATION Spec
CONSTANTS
    None = None
    SyntheticSource = SyntheticSource
    Registry <- MCRegistry
    ActiveWindow = 1
    Lanes <- MCLanes
    SharedSeries <- MCSharedSeries
    Fixtures <- MCFixtures
    Backlog <- MCBacklog
    Publications <- MCPublications
    Drafts <- MCDrafts
    Names = {first, second}
    EvidenceIds = {"notice", "lead"}
    HealthStates = {"insufficient", "limited"}
    Start = 12
    Horizon = 14
    Confirmations = {12, 14}
    MaxPublished = 2
    MaxMarks = 3
INVARIANTS
    AdverseIsBacked
    FixturesStayOut
    RawIsLicensed
    RollUpHidesNothing
PROPERTIES
    GapIsNotAZero
    AdverseNeverCalmed
    TimeRaisesOnlyTheDue
SYMMETRY NameSymmetry
CHECK_DEADLOCK FALSE
