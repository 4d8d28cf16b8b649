\* Failing and misleading requests, kills, damaged guard files, edits, dry runs.
CONSTANTS
    MaxFaults = 2
    MaxIO = 1
    MaxCrashes = 1
    MaxEdits = 1
    DryRuns = TRUE
SPECIFICATION FairSpec
INVARIANTS TypeOK AtMostOneRoute GuardedRouteStaysDisabled
PROPERTY EventuallyEnforced
