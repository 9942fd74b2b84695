SPECIFICATION FairSpec
CONSTANTS
    Mine = Mine
    other = other
    Theirs = {other}
    EditedEvents = {"Stop"}
    MaxTheirs = 2
    MaxSetups = 2
    MaxFailures = 2
INVARIANTS TypeOK NothingRunsAMissingAgent RemovalIsClean
PROPERTIES OtherHooksStay RemovalEnds
CHECK_DEADLOCK FALSE
