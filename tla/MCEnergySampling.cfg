SPECIFICATION Spec
CONSTANTS
    u1 = u1
    u2 = u2
    Uploads = {u1, u2}
    Traces <- Counters
    Slot = 2
    INTERPOLATION_THRESHOLD = 2
    Limit = 3
    MaxRepeats = 1
    MaxFaults = 1
INVARIANTS NoSampleLost BatchesDontMatter SamplesInOrder
SYMMETRY AnyCall
