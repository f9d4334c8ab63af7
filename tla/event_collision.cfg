\* Two spills, one of which was reported before its date was known.
SPECIFICATION Spec
CONSTANTS
    None = None
    Incidents <- Colliding
    Reports <- CollidingReports
    Signatures = {s1}
    MaxTime = 0
    MaxSeen = 3
INVARIANTS
    DatesKeepApart
CHECK_DEADLOCK FALSE
