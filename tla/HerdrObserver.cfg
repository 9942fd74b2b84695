SPECIFICATION MCSpec
CONSTANTS
    Panes = {p1}
    Statuses = {"working", "blocked", "idle"}
    Commands = {c1, c2}
    Operations = {"install", "status", "uninstall"}
    MaxIncarnation = 2
    MaxTerminal = 2
    MaxSequence = 3
    p1 = p1
    c1 = c1
    c2 = c2
INVARIANTS TypeOK HintsMatchTheLedger NothingWithoutConsent
PROPERTIES DaemonTellsNews HintsStayWhileCurrent
SYMMETRY MCSymmetry
