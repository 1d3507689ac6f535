SPECIFICATION FairSpec
CONSTANTS
    p1 = p1
    p2 = p2
    t1 = t1
    t2 = t2
    Processes = {p1, p2}
    Threads = {t1, t2}
    ProcessOf <- OneEach
    Workloads <- AllWorkloads
    Releases <- SmallReleases
    KeyOf <- SmallKeys
    None = None
INVARIANTS
    TypeOK
    AnswersHold
    RunningIsMigrated
    VerificationIsRight
PROPERTIES
    StoreIsWriteOnce
    CallsEnd
CHECK_DEADLOCK FALSE
