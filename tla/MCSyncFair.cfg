SPECIFICATION FairSpec
CONSTANTS
    c1 = c1
    c2 = c2
    i1 = i1
    i2 = i2
    k1 = k1
    NoId = NoId
    Collections = {"locations", "abilities"}
    Clients = {c1, c2}
    Ids = {i1}
    Drafts = {k1}
    Existing <- StartEmpty
    Demotable <- Nobody
    InitialRole <- Admins
    MaxTime = 4
    MaxFaults <- OneFault
PROPERTY EventuallyConsistent
