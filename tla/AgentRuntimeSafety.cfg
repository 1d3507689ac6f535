SPECIFICATION Spec
CONSTANTS
    Workers = {w1, w2}
    w1 = w1
    w2 = w2
    Script <- LongScript
    MaxStalls = 1
    MaxSteps = 3
    MaxToolCalls = 2
    MaxModelCalls = 2
    MayTimeOut = TRUE
    MaxFaults = 1
    MaxSwitches = 1
    NoRow = NoRow
    NoResult = NoResult
    NoAnswer = NoAnswer
    NoProposal = NoProposal
SYMMETRY Symmetry
INVARIANTS
    TypeOK
    OneHistory
    ResultIsRecorded
    WithinBudgets
    PlaybookIsDeterministic
PROPERTIES
    RunsOnce
