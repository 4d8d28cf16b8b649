\* One reconfigure that fails.
CONSTANTS
    d1 = d1
    d2 = d2
    none = none
    Dests <- TwoLists
    NoDest = none
    MaxFaults = 1
    MaxEdits = 0
    MaxCrashes = 0
SPECIFICATION Spec
INVARIANT ReportedSuccessIsEnforced
