SPECIFICATION Spec
CONSTANTS
    s1 = s1
    s2 = s2
    r1 = r1
    r2 = r2
    u1 = u1
    u2 = u2
    Stones = {s1, s2}
    Callers = {r1, r2}
    Uploads = {u1, u2}
    Traces <- TwoStones
    Intervals <- HourAndDay
    Keep <- KeepShort
    Threshold = 2
    Limit = 2
    Moments = {4, 8, 14}
    MaxFaults = 1
INVARIANTS OneRunAtATime OnTimeAggregated UsageNeverFalls OneAggregatePerPoint
SYMMETRY Symmetric
CHECK_DEADLOCK FALSE
