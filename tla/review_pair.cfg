\* Two reviewers on one package, killed at any step, live inputs, rebuilds.
SPECIFICATION Spec
CONSTANTS
    PKG1 = PKG1
    PKG2 = PKG2
    sound = sound
    unsound = unsound
    alice = alice
    bob = bob
    None = None
    Torn = Torn
    Packages = {PKG1}
    Bodies = {sound}
    SoundBodies = {sound}
    SecondsPerDay = 2
    Reviewers = {alice, bob}
    CanCrash = TRUE
    RestoresTear = TRUE
    InputsSettle = FALSE
    AnalysisRebuilds = TRUE
    MaxDecisions = 2
    MaxBuilds = 1
    MaxAcq = 1
    MaxTime = 1
SYMMETRY ReviewerSymmetry
INVARIANTS
    TypeOK
    HistoryWellFormed
CHECK_DEADLOCK FALSE
