CONSTANTS
    t1 = t1
    t2 = t2
    ann = ann
    bob = bob
    agent = agent
    robot = robot
    c1 = c1
    c2 = c2
    slot1 = slot1
    slot2 = slot2
    Threads = {t1, t2}
    Principals = {ann, bob, agent}
    Investigators = {agent}
    Approvers = {ann, bob}
    Services = {}
    Agents = {agent}
    Candidates = {c1}
    Slots = {slot1, slot2}
    SlotOf <- MCSlotOf
    ProposedBy <- AllDiscovered
    NoBundle = NoBundle
    FourEyesOn = TRUE
    MayFail = FALSE
    OutOfTurn = {}
    MaxVersion = 2
    MaxEvents = 6
    MaxActivations = 0
SPECIFICATION SpecSubmitted
SYMMETRY ThreadSymmetry
INVARIANTS
    TerminalIsFinal
CHECK_DEADLOCK FALSE
