\* Jobs that overlap, fail and are cancelled while the platform breaks and recovers.
SPECIFICATION FairSpec
CONSTANTS
    None = None
    Jobs = {scheduled, dispatched}
    IssueIds <- MCIssueIds
    MaxFaults = 2
INVARIANTS
    DuplicatesFromOverlap
PROPERTIES
    IssueFollowsHealth
