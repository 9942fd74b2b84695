SPECIFICATION FairSpec
CONSTANTS
    e1 = e1
    e2 = e2
    b1 = b1
    b2 = b2
    b3 = b3
    s1 = s1
    s2 = s2
    NoSession = NoSession
    NoBackend = NoBackend
    EventIds <- MCEventIds
    SourceOf <- MCSourceOf
    SessionOf <- MCSessionOf
    Legacy = {l1}
    Requests = {r1}
    Turns = {}
    Hints = {}
    Tests = {}
    Second = {}
    Endpoints = {e1, e2}
    Backends = {b1, b2}
    Stored <- MCStored
    Compared <- MCCompared
    CodexLife = 9
    HintLife = 9
    SessionCap = 9
    HerdrCap = 9
    TotalCap = 9
    MaxDelay = 2
    ClockLag = 0
    MaxTime = 0
    MaxRowid = 2
    MaxAttempts = 1
    l1 = l1
    r1 = r1
INVARIANTS TypeOK PostsOnlyWhereCaptured
PROPERTIES OutboxSpec ActiveBackendGetsItsEvents SwitchReachesTheQueue
