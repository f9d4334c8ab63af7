\* Reports of four incidents in any order, with dates and contents that change.
SPECIFICATION Spec
CONSTANTS
    None = None
    Incidents <- Settled
    Reports <- SettledReports
    Signatures = {s1, s2}
    MaxTime = 2
    MaxSeen = 4
INVARIANTS
    LifecycleFaithful
PROPERTIES
    KeepsCatalogue
CHECK_DEADLOCK FALSE
