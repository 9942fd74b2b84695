SPECIFICATION FairSpec
CONSTANTS
    Commands = {c1, c2}
    Operations <- MCOperations
    Endpoints = {e1, e2}
    OldStates = {"pending", "active", "identity_conflict", "needs_setup_token"}
    c1 = c1
    c2 = c2
    e1 = e1
    e2 = e2
INVARIANTS TypeOK ActiveWasAccepted KeyMatchesHost
PROPERTIES LockedKeepsTheEndpoint RegistrationSettles TokenGoes
CHECK_DEADLOCK FALSE
