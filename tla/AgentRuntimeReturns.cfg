SPECIFICATION FairSpec

CONSTANTS
    Workers = {w1, w2}
    w1 = w1
    w2 = w2
    Script <- LongScript
    MaxStalls = 2
    MaxSteps = 2
    MaxToolCalls = 2
    MaxModelCalls = 2
    MayTimeOut = TRUE
    MaxFaults = 1
    MaxSwitches = 0
    NoRow = NoRow
    NoResult = NoResult
    NoAnswer = NoAnswer
    NoProposal = NoProposal

PROPERTIES
    EveryCallReturns
