SPECIFICATION Spec
CONSTANTS
    c1 = c1
    c2 = c2
    i1 = i1
    i2 = i2
    k1 = k1
    NoId = NoId
    Collections = {"hubs", "abilities", "readBy"}
    Clients = {c1, c2}
    Ids = {i1, i2}
    Drafts = {k1}
    Existing <- StartSmall
    Demotable <- LosesRole
    InitialRole <- Admins
    MaxTime = 3
    MaxFaults <- KindsFail
INVARIANTS TypeOK StoredOnce ReturnedIsNotOffered
PROPERTIES NoResurrection RollbackOnlyWhenStale TwoCallsConverge LocalRollbackOnlyWhenTouched
