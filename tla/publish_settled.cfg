\* One reviewer, whose writes may fail; the site is built between decisions.
SPECIFICATION DashboardSpec
CONSTANTS
    PKG1 = PKG1
    PKG2 = PKG2
    sound = sound
    unsound = unsound
    alice = alice
    None = None
    Torn = Torn
    Packages = {PKG1}
    Bodies = {sound}
    SoundBodies = {sound}
    SecondsPerDay = 2
    Reviewers = {alice}
    CanCrash = FALSE
    RestoresTear = FALSE
    InputsSettle = TRUE
    AnalysisRebuilds = FALSE
    MaxDecisions = 3
    MaxBuilds = 2
    MaxAcq = 0
    MaxTime = 0
    Payloads <- PayloadOrder
    Outlook = "ai_outlook.json"
    BuildsSettle = TRUE
    WritesFail = TRUE
    MaxSiteBuilds = 2
INVARIANTS
    StoresMatchHistory
    PublishedIsRecorded
PROPERTIES
    ImplementsLedger
    OutlookNeverRegresses
CHECK_DEADLOCK FALSE
