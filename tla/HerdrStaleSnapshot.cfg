SPECIFICATION MCAll
CONSTANTS
    Panes = {p1}
    Statuses = {"blocked", "idle"}
    Commands = {c1}
    Operations = {"install", "status"}
    MaxIncarnation = 1
    MaxTerminal = 1
    MaxSequence = 2
    p1 = p1
    c1 = c1
PROPERTIES HintsAreNews
