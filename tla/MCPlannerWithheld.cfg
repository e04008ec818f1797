SPECIFICATION Spec
CONSTANTS
    Lines <- MCLines
    Band <- MCBand
    NoBand = NoBand
    NoMinor = NoMinor
    NoFooter = "none"
    NoCommit = 0
    Seed = 0
    Dampening = TRUE
    NoBootstrap = NoBootstrap
    MovedChannels <- MCMoved
    Shapes <- MCShapes
    Baseline <- MCBaseline
    Allow <- MCAllow
    Components = {"core", "next"}
    Publishes <- MCPublishes
    NoComponent = NoComponent
    Format <- MCFormat
    Births <- MCBirths
    Editable = {"main"}
    IntentSets <- MCIntentSets
    Depths <- MCDepths
    MaxCommits = 3
    MaxReleases = 3
    MaxEdits = 1
    MaxRuns = 2
INVARIANTS WithheldStaysPending
CHECK_DEADLOCK FALSE
