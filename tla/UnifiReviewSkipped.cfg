\* Fault-free runs after a device fallback.
CONSTANTS
    MaxFaults = 1
    MaxIO = 0
    MaxCrashes = 0
    MaxEdits = 0
    DryRuns = FALSE
SPECIFICATION Spec
INVARIANT FallbackNeverEnabled
