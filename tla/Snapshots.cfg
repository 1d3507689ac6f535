SPECIFICATION Spec
CONSTANTS
    Threads = {t1, t2}
    t1 = t1
    t2 = t2
    Investigators = {ivan}
    Approvers = {ada}
    ivan = ivan
    ada = ada
    AsOfs = {2}
    Histories = {FALSE}
    Tables <- ThreeTables
    InitialRows <- First
    Batches <- SmallBatches
    DecidedAts = {1}
    CaseAlerts = {1}
    Proposals <- SmallProposals
    Policies = {1, 2}
    Subrules = {1}
    MaxCalls = 3
    MaxElsewhere = 1
    MaxSpan = 2
    MediumGap = 1
    MaxFanout = 2
    RebookWindow = 2
    MaxCandidates = 1
    Degenerate = {9}
    NoKey = NoKey
    NoAnswer = NoAnswer
INVARIANTS
    TypeOK
    SameIdSameStory
    OwnWritesAreSeen
    OneConfirmation
    EpisodesAreSound
    GraphsCanBeWalked
PROPERTIES
    AnswersAreCurrent
SYMMETRY Symmetry
CHECK_DEADLOCK FALSE
