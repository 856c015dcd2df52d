SPECIFICATION FairSpec
CONSTANTS
    u1 = u1
    u2 = u2
    u3 = u3
    r1 = r1
    r2 = r2
    r3 = r3
    r4 = r4
    r5 = r5
    r6 = r6
    NoCall = NoCall
    Users = {u1, u2, u3}
    Calls = {r1, r2, r3, r4, r5, r6}
    UserOf <- SixCalls
    SESSION_LIMIT = 1
INVARIANTS TypeOK QueueMatchesWaiting TimersMatchWaiting NoIdlePlace
PROPERTIES TakesTurns
