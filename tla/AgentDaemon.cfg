SPECIFICATION MCSpec
CONSTANTS
    Daemons = {d1, d2}
    Hooks = {h1}
    Visitors = {v1}
    Hints = {n1}
    Keys = {k1, k2}
    Slots = 1
    Buffer = 2
    HookInputs <- MCHookInputs
    Triggers <- MCTriggers
    Agents <- MCAgents
    Fields = {"title"}
    Limit <- MCLimit
    WorkspaceLimit = 6
    WorkspaceBudget = 6
    Budget = 14
    Fixed = 2
    Overhead = 1
    NameBytes = 3
    d1 = d1
    d2 = d2
    h1 = h1
    v1 = v1
    n1 = n1
    k1 = k1
    k2 = k2
INVARIANTS TypeOK AcceptedIsQueued HintsAreFiledAsHerdr NoLostWakeup BaselinesAreKept
PROPERTIES AddressIsKept StopEnds
