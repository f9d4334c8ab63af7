\* The site is built while a decision runs, is rolled back or is killed.
SPECIFICATION DashboardSpec
CONSTANTS
    PKG1 = PKG1
    PKG2 = PKG2
    sound = sound
    unsound = unsound
    alice = alice
    None = None
    Torn = Torn
    Packages = {PKG1}
    Bodies = {sound, unsound}
    SoundBodies = {sound}
    SecondsPerDay = 2
    Reviewers = {alice}
    CanCrash = TRUE
    RestoresTear = FALSE
    InputsSettle = TRUE
    AnalysisRebuilds = FALSE
    MaxDecisions = 2
    MaxBuilds = 2
    MaxAcq = 1
    MaxTime = 1
    Payloads <- PayloadOrder
    Outlook = "ai_outlook.json"
    BuildsSettle = FALSE
    WritesFail = TRUE
    MaxSiteBuilds = 1
INVARIANTS
    ReportedStands
    PublishedIsReviewed
CHECK_DEADLOCK FALSE
