SPECIFICATION StoneSpec
CONSTANTS
    c1 = c1
    c2 = c2
    s1 = s1
    s2 = s2
    s3 = s3
    s4 = s4
    k1 = k1
    k2 = k2
    Creators = {c1, c2}
    Stones = {s1, s2, s3, s4}
    Calls = {k1, k2}
    MaxUid = 3
    MaxName = 3
SYMMETRY Symmetric
INVARIANTS UpdateShown CacheAgrees
PROPERTY RefusedOnlyWhenFull
