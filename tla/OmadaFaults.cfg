\* Requests that fail, mislead or are ignored, timeouts, kills and edits.
CONSTANTS
    c1 = c1
    c2 = c2
    Lists <- SomeLists
    MaxGroups = 2
    GroupIds <- FourIds
    MaxFaults = 2
    MaxEdits = 2
    MaxCrashes = 1
SPECIFICATION FairSpec
INVARIANTS TypeOK
PROPERTIES EnabledOnlyOverItsList Converges RunIsOneStep
