SPECIFICATION Spec
CONSTANTS
    e1 = e1
    e2 = e2
    b1 = b1
    b2 = b2
    b3 = b3
    s1 = s1
    s2 = s2
    NoSession = NoSession
    NoBackend = NoBackend
    EventIds <- MCEventIds
    SourceOf <- MCSourceOf
    SessionOf <- MCSessionOf
    Legacy = {}
    Requests = {}
    Turns = {c1,c2,c3}
    Hints = {h1,h2}
    Tests = {t1}
    t1 = t1
    Second = {h2}
    Endpoints = {e1}
    Backends = {b1}
    Stored <- MCOneStored
    Compared <- MCOneCompared
    CodexLife = 2
    HintLife = 1
    SessionCap = 1
    HerdrCap = 1
    TotalCap = 2
    MaxDelay = 2
    ClockLag = 1
    MaxTime = 1
    MaxRowid = 3
    MaxAttempts = 0
    c1 = c1
    c2 = c2
    c3 = c3
    h1 = h1
    h2 = h2
INVARIANTS CapsHold
PROPERTIES CodexRowsAreNotLost
SYMMETRY MCSymmetry
