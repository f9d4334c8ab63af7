SPECIFICATION Spec
CONSTANTS
    None = None
    SyntheticSource = SyntheticSource
    Registry <- MCRegistry
    EmergingWindow = 0
    Slack = 2
    Country = "TH"
    ActiveWindow = 2
    CountryLanes = {}
    LanePlaces = {}
    Notices <- DeskNotices
    Cases <- MCCases
    Assessments <- MCAssessments
    ConflictTypes = {"existence"}
    Moments = {0, 3, 5}
    MaxDocuments = 2
INVARIANTS
    DeskTypeOK
    DisruptionIsEstablished
    CorroboratedByTwoPublishers
    HighConfidenceIsEarned
    
PROPERTIES
    GradeFades
    ContradictionSurfaces
CHECK_DEADLOCK FALSE
