SPECIFICATION Spec
CONSTANTS
    c1 = c1
    c2 = c2
    NoId = NoId
    NoRole = "none"
    Calls = {c1, c2}
    Requests <- AllRequests
    Roles = {"admin", "member", "hub"}
    AtFirst <- LampAtHome
    MaxFaults = 2
SYMMETRY Symmetric
INVARIANTS NothingDangles AnsweredTree AskedIsAccepted
CHECK_DEADLOCK FALSE
