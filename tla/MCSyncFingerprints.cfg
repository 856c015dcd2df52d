SPECIFICATION Spec
CONSTANTS
    c1 = c1
    c2 = c2
    i1 = i1
    i2 = i2
    k1 = k1
    NoId = NoId
    Collections = {"fingerprints"}
    Clients = {c1}
    Ids = {i1}
    Drafts = {k1}
    Existing <- StartSmall
    Demotable <- Nobody
    InitialRole <- Admins
    MaxTime = 3
    MaxFaults <- Reliable
PROPERTY EveryCollectionConverges
