SPECIFICATION Spec
CONSTANTS
    Local = {here}
    Remote = {away}
    Window = 2
    Batch = 2
    HasArtifacts = TRUE
    MaxEvents = 3
    MaxCuts = 1
    MaxCrashes = 1
    MaxFailures = 2
INVARIANTS NoSilentGap NumberMeansOneEvent
PROPERTIES ReadersEnd
CHECK_DEADLOCK FALSE
