SPECIFICATION FairSpec
CONSTANTS
    u1 = u1
    u2 = u2
    Uploads = {u1}
    Traces <- OneSlot
    Slot = 4
    INTERPOLATION_THRESHOLD = 2
    Limit = 3
    MaxRepeats = 0
    MaxFaults = 0
PROPERTY UploadAnswered
