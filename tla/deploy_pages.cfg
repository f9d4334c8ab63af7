\* Pushes and dispatches overlap with runs that fail at any step.
SPECIFICATION DeploySpec
CONSTANTS
    MaxCommits = 3
    MaxRequests = 4
INVARIANTS
    DeployedIsValidated
PROPERTIES
    NeverOlderRequest
    NewestSettles
CHECK_DEADLOCK FALSE
