CONSTANTS
    t1 = t1
    t2 = t2
    ann = ann
    bob = bob
    agent = agent
    robot = robot
    c1 = c1
    c2 = c2
    slot1 = slot1
    slot2 = slot2
    Threads = {t1, t2}
    Principals = {ann, bob, agent, robot}
    Investigators = {agent, robot}
    Approvers = {ann, bob, agent, robot}
    Services = {robot}
    Agents = {agent}
    Candidates = {c1, c2}
    Slots = {slot1, slot2}
    SlotOf <- MCSlotOf
    ProposedBy <- AllDiscovered
    NoBundle = NoBundle
    FourEyesOn = TRUE
    MayFail = FALSE
    OutOfTurn = {}
    MaxVersion = 3
    MaxEvents = 6
    MaxActivations = 2
SPECIFICATION SpecOneSubmitted
SYMMETRY Symmetry
INVARIANTS
    OnlyHumansGovern
    FourEyes
    ProductionHasEvidence
    ReleasedHasBundle
    NoLostRelease
CHECK_DEADLOCK FALSE
