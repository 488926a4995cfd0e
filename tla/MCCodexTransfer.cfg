CONSTANTS
    Setups <- Homes
    OddNames = {"odd"}
    MaxEvents = 2
    MaxRuns = 3
    MaxGeneration = 2
SPECIFICATION Spec
CHECK_DEADLOCK FALSE
INVARIANTS
    ExportIsComplete
    ArrivesTranslated
    MergedOnce
    SidecarsReachTheRows
