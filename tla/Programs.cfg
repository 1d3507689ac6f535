CONSTANTS
    None = None
    Cfg <- Thresholds
    Worlds <- Data
    MaxStrays = 1
    Tasks <- Runs
SPECIFICATION Spec
INVARIANTS TypeOK ConclusionHolds ReportHolds
PROPERTIES EveryRunEnds
CHECK_DEADLOCK FALSE
