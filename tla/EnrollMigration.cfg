SPECIFICATION Spec
CONSTANTS
    Commands = {c1, c2}
    Operations <- MCOperations
    Endpoints = {e1, e2}
    OldStates = {"needs_setup_token"}
    c1 = c1
    c2 = c2
    e1 = e1
    e2 = e2
PROPERTIES DaemonKeepsTheEndpoint
CHECK_DEADLOCK FALSE
