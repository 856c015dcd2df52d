SPECIFICATION FairSpec
CONSTANTS
    s1 = s1
    s2 = s2
    d1 = d1
    d2 = d2
    m1 = m1
    m2 = m2
    anna = anna
    bob = bob
    phone1 = phone1
    phone2 = phone2
    Sessions = {s1, s2}
    Collections = {d1, d2}
    Maps = {m1, m2}
    Phones <- AllPhones
    PhoneA <- Openers
    PhoneB <- Invited
    Null = Null
INVARIANTS TransformFromPairs
PROPERTIES StoppedIsLast JoinedSessionStays DeliveredStays SessionsEnd
