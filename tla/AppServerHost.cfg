SPECIFICATION MCSpec
CONSTANTS
    Platforms = {"Darwin", "Linux"}
    Second = 2
    MaxTime = 7
    MaxTimeBusy = 2
    MaxUpdates = 1
    MaxStarts = 4
    MaxCommands = 2
    MaxChecks = 1
INVARIANTS TypeOK PairingWorks
PROPERTIES TokenIsKept OnlyOutdatedIsRestarted UpdatesAreNoticed
CHECK_DEADLOCK FALSE
