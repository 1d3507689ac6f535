SPECIFICATION FairSpec
CONSTANTS
    Threads = {t1, t2}
    Prompts = {1}
    Endpoints = 2
    Threshold = 2
    ResetTime = 1
    Retries = 1
    MaxClock = 2
    Settings <- SmallSettings
    Requests <- SmallRequests
    RoleMap <- Roles
    DeskMap <- DeskGroups
    Desks = {"fx", "rates"}
    None = None
INVARIANTS
    TypeOK
    BreakerHoldsBack
    WithinRate
PROPERTIES
    EveryRequestEnds
CHECK_DEADLOCK FALSE
