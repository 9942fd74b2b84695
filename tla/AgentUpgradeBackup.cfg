SPECIFICATION Spec
CONSTANTS
    v1 = v1
    v2 = v2
    v3 = v3
    v4 = v4
    Versions <- MCVersions
    Capabilities <- MCCapabilities
    Reporting <- MCReporting
    FailingSteps <- MCAllSteps
    MaxRuns = 3
INVARIANTS FailureRestores
CHECK_DEADLOCK FALSE
