SPECIFICATION FairSpec
CONSTANTS
    e1 = e1
    e2 = e2
    b1 = b1
    b2 = b2
    b3 = b3
    s1 = s1
    s2 = s2
    NoSession = NoSession
    NoBackend = NoBackend
    EventIds <- MCEventIds
    SourceOf <- MCSourceOf
    SessionOf <- MCSessionOf
    Legacy = {}
    Requests = {}
    Turns = {c1}
    Hints = {}
    Tests = {}
    Second = {}
    Endpoints = {e2}
    Backends = {b2,b3}
    Stored <- MCSpelledStored
    Compared <- MCSpelledCompared
    CodexLife = 9
    HintLife = 9
    SessionCap = 9
    HerdrCap = 9
    TotalCap = 9
    MaxDelay = 2
    ClockLag = 0
    MaxTime = 0
    MaxRowid = 1
    MaxAttempts = 0
    c1 = c1
PROPERTIES ActiveBackendGetsItsEvents
