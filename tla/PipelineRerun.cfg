SPECIFICATION Spec
CONSTANTS
    Pipelines = {p1, p2}
    p1 = p1
    p2 = p2
    Last = 3
    Desk <- OneDesk
    Control = {3}
    Explanations <- Benign
    Severe <- SevereLast
    MayConclude <- SomeOfEach
    MinSize = 2
    MaxSize = 2
    MaxWorkers = 1
    Needed = 1
    MayRequest = {1}
    MaySet <- OneSwitch
    MaxIngests = 2
    MaxSwitches = 1
    MaxFaults = 1
    MaxEvents = 2
    MaxReports = 2
    NoSnapshot = NoSnapshot
    NoResult = NoResult
    NoCase = NoCase
    Unset = Unset
INVARIANTS
    RerunsSucceed
CHECK_DEADLOCK FALSE
