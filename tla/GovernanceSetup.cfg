CONSTANTS
    t1 = t1
    t2 = t2
    ann = ann
    bob = bob
    agent = agent
    robot = robot
    c1 = c1
    c2 = c2
    slot1 = slot1
    slot2 = slot2
    Threads = {t1, t2}
    Principals = {ann, agent}
    Investigators = {agent}
    Approvers = {ann}
    Services = {}
    Agents = {agent}
    Candidates = {c1, c2}
    Slots = {slot1, slot2}
    SlotOf <- MCSlotOf
    ProposedBy <- MCProposedBy
    NoBundle = NoBundle
    FourEyesOn = TRUE
    MayFail = TRUE
    OutOfTurn = {"COUNTEREXAMPLES_PASSED"}
    MaxVersion = 1
    MaxEvents = 3
    MaxActivations = 2
SPECIFICATION Spec
CONSTRAINT OneCandidate
SYMMETRY ThreadSymmetry
INVARIANTS
    TypeOK
    EventsFollowEvidence
    EvidenceIsStored
CHECK_DEADLOCK FALSE
